------------------------------- MODULE PartsProofs --------------------------
(***************************************************************************)
(* Theorems about three parts that stand beside the network protocol and   *)
(* share no state: the resolver process (Resolver), the queues of lines to *)
(* be sent (SendQ) and the lines that were received (RecvQ).               *)
(*                                                                         *)
(* Resolver: a question has one request until it is answered and none after *)
(* that, no name is reported that nameservers did not confirm, and the     *)
(* process makes only the steps that Lookups allows.  The operations of    *)
(* res.c take a state e of the process to the next one, and a step is      *)
(* several of them, so the invariant is stated about such a state.         *)
(*                                                                         *)
(* SendQ, for any connections, lines, limit and sockets: QueuesWhole is not *)
(* inductive by itself.  A queue must hold a line once, and only lines that *)
(* were made, for the reference counts to be those of the queues when a line *)
(* is added or done; and the place in the first line must not lie behind the *)
(* end of the queue.  Each step on a connection is shown to be an Effect   *)
(* that keeps the account of its bytes and its references (StepOK); TakeOK *)
(* turns the effects on any set of connections into the next state.        *)
(*                                                                         *)
(* RecvQ, for any streams whose lines fit a buffer: two texts are Alike when *)
(* scanning them for lines has the same result whatever came before.       *)
(* Copied shows that a copy into a buffer leaves buffers and data Alike,   *)
(* Parsed that the loop over the data does, TakeSent that taking a line is. *)
(* BuffersOK is what the copies need: the last buffer alone may be         *)
(* unfinished, and then has the last bytes that were read.                 *)
(***************************************************************************)
EXTENDS Resolver, SendQ, RecvQ, ListsProofs, FiniteSetTheorems, TLAPS

-----------------------------------------------------------------------------
(* The inductive invariant.                                                  *)

Outcomes == Names \cup Addrs \cup {"failed"}

StateOK(e) ==
    /\ e.req \in [Keys -> Request]
    /\ e.list \in Seq(Keys) /\ Distinct(e.list)
    /\ \A p \in e.net : p.to \in Keys /\ p.id \in Ids
    /\ e.ans \in [Queries -> Seq(Outcomes)]

Waits(e, r) == r \in ToSet(e.list)

\* A question that is not asked has no request and no answer; one that waits has
\* one request; one that has its answer has no request.
Stage(e, qs, q) ==
    \/ q \notin qs /\ e.ans[q] = <<>> /\ ~Waits(e, <<q, "PTR">>) /\ ~Waits(e, <<q, "A">>)
    \/ q \in qs /\ e.ans[q] = <<>> /\ (Waits(e, <<q, "PTR">>) <=> ~Waits(e, <<q, "A">>))
    \/ q \in qs /\ Len(e.ans[q]) = 1 /\ ~Waits(e, <<q, "PTR">>) /\ ~Waits(e, <<q, "A">>)

\* What a request is about, when nameservers have said sd.
About(e, sd, r) ==
    LET q == r[1]
        name == e.req[r].name
    IN  \/ r[2] = "PTR" /\ q \in ByAddress /\ name = Subject[q]
        \/ r[2] = "A" /\ q \in ByAddress /\ name \in Names /\ <<Subject[q], name>> \in sd
        \/ r[2] = "A" /\ q \notin ByAddress /\ name = Subject[q]

Right(q, a, sd) ==
    \/ a = "failed"
    \/ q \in ByAddress /\ <<Subject[q], a>> \in sd /\ <<a, Subject[q]>> \in sd
    \/ q \notin ByAddress /\ <<Subject[q], a>> \in sd

Good(e, qs, sd) ==
    /\ StateOK(e)
    /\ \A r \in Keys : e.req[r].retries > 0 <=> Waits(e, r)
    /\ \A q \in Queries : Stage(e, qs, q)
    /\ \A r \in Keys : Waits(e, r) => About(e, sd, r)
    /\ \A q \in Queries : \A i \in 1..Len(e.ans[q]) : Right(q, e.ans[q][i], sd)

-----------------------------------------------------------------------------
(* The operations.                                                           *)

\* A request is known by its question and its type.
LEMMA KeyParts ==
    ASSUME NEW r \in Keys
    PROVE  r[1] \in Queries /\ r[2] \in {"PTR", "A"} /\ r = <<r[1], r[2]>>
  BY DEF Keys

\* A request of type NoRequest or of a question is a Request.
LEMMA RequestType ==
    ASSUME NEW n \in Addrs \cup Names \cup {NULL}, NEW id \in Ids, NEW k \in 0..Retries,
           NEW o \in BOOLEAN, NEW a \in BOOLEAN
    PROVE  [name |-> n, id |-> id, retries |-> k, open |-> o, armed |-> a] \in Request
  BY DEF Request

LEMMA NoRequestType == NoRequest \in Request
  <1>1. 0 \in Ids /\ 0 \in 0..Retries BY ResolverAssumption DEF Ids
  <1> QED BY <1>1 DEF NoRequest, Request

\* Sending changes the id and the socket of a request and nothing else.
LEMMA SendKeeps ==
    ASSUME NEW e, StateOK(e), NEW r \in Keys, NEW f \in send_res_msg(e, r)
    PROVE  /\ StateOK(f) /\ f.list = e.list /\ f.ans = e.ans
           /\ f.req[r].name = e.req[r].name /\ f.req[r].retries = e.req[r].retries
           /\ \A s \in Keys \ {r} : f.req[s] = e.req[s]
  <1> DEFINE x == e.req[r]
             y == [name |-> x.name, id |-> x.id, retries |-> x.retries, open |-> TRUE, armed |-> TRUE]
             heard == Put(e, r, y)
             asked == [req |-> heard.req, list |-> e.list, ans |-> e.ans,
                       net |-> e.net \cup {[to |-> r, id |-> x.id, name |-> x.name]}]
  <1>1. f = heard \/ f = asked \/ f = e BY DEF send_res_msg
  <1>2. x \in Request BY DEF StateOK
  <1>3. x.name \in Addrs \cup Names \cup {NULL} /\ x.id \in Ids /\ x.retries \in 0..Retries
    BY <1>2 DEF Request
  <1>4. y \in Request /\ y.name = x.name /\ y.retries = x.retries BY <1>3, RequestType
  <1> HIDE DEF y
  <1> DEFINE g == [e.req EXCEPT ![r] = y]
  <1>5. /\ g \in [Keys -> Request] /\ g[r] = y
        /\ \A s \in Keys \ {r} : g[s] = e.req[s]
    BY <1>4 DEF StateOK
  <1>6. heard.req = g /\ heard.list = e.list /\ heard.net = e.net /\ heard.ans = e.ans
    BY DEF Put
  <1>7. /\ asked.req = g /\ asked.list = e.list /\ asked.ans = e.ans
        /\ asked.net = e.net \cup {[to |-> r, id |-> x.id, name |-> x.name]}
    BY <1>6
  <1> HIDE DEF heard, asked, g
  <1>8. CASE f = heard BY <1>4, <1>5, <1>6, <1>8 DEF StateOK
  <1>9. CASE f = asked BY <1>3, <1>4, <1>5, <1>7, <1>9 DEF StateOK
  <1>10. CASE f = e BY <1>10
  <1> QED BY <1>1, <1>8, <1>9, <1>10

\* So does asking, under a new id.
LEMMA QueryKeeps ==
    ASSUME NEW e, StateOK(e), NEW r \in Keys, NEW f \in query_name(e, r)
    PROVE  /\ StateOK(f) /\ f.list = e.list /\ f.ans = e.ans
           /\ f.req[r].name = e.req[r].name /\ f.req[r].retries = e.req[r].retries
           /\ \A s \in Keys \ {r} : f.req[s] = e.req[s]
  <1> DEFINE x == e.req[r]
             y(id) == [name |-> x.name, id |-> id, retries |-> x.retries,
                       open |-> x.open, armed |-> x.armed]
             Numbered(id) == Put(e, r, y(id))
  <1>1. CASE f = e BY <1>1
  <1>2. ASSUME NEW id \in generate_random_id(e), f \in send_res_msg(Numbered(id), r)
        PROVE  /\ StateOK(f) /\ f.list = e.list /\ f.ans = e.ans
               /\ f.req[r].name = e.req[r].name /\ f.req[r].retries = e.req[r].retries
               /\ \A s \in Keys \ {r} : f.req[s] = e.req[s]
    <2> DEFINE g == Numbered(id)
               z == y(id)
    <2>1. id \in Ids BY DEF generate_random_id
    <2>2. x \in Request BY DEF StateOK
    <2>3. /\ x.name \in Addrs \cup Names \cup {NULL} /\ x.retries \in 0..Retries
          /\ x.open \in BOOLEAN /\ x.armed \in BOOLEAN
      BY <2>2 DEF Request
    <2>4. z \in Request /\ z.name = x.name /\ z.retries = x.retries
      BY <2>1, <2>3, RequestType
    <2>5. g.req = [e.req EXCEPT ![r] = z] /\ g.list = e.list /\ g.net = e.net /\ g.ans = e.ans
      BY DEF Put
    <2> HIDE DEF z, g
    <2>6. /\ g.req \in [Keys -> Request] /\ g.req[r] = z
          /\ \A s \in Keys \ {r} : g.req[s] = e.req[s]
      BY <2>4, <2>5 DEF StateOK
    <2>7. StateOK(g) BY <2>5, <2>6 DEF StateOK
    <2>8. f \in send_res_msg(g, r) BY <1>2 DEF g
    <2>9. /\ StateOK(f) /\ f.list = g.list /\ f.ans = g.ans
          /\ f.req[r].name = g.req[r].name /\ f.req[r].retries = g.req[r].retries
          /\ \A s \in Keys \ {r} : f.req[s] = g.req[s]
      BY <2>7, <2>8, SendKeeps
    <2> QED BY <2>4, <2>5, <2>6, <2>9
  <1>3. f = e \/ \E id \in generate_random_id(e) : f \in send_res_msg(Numbered(id), r)
    BY DEF query_name
  <1> QED BY <1>1, <1>2, <1>3

\* A new request is at the head of the list.
LEMMA MakeAdds ==
    ASSUME NEW e, StateOK(e), NEW r \in Keys, ~Waits(e, r), NEW n \in Addrs \cup Names \cup {NULL}
    PROVE  LET f == make_request(e, r, n)
           IN  /\ StateOK(f) /\ f.ans = e.ans
               /\ \A s \in Keys : Waits(f, s) <=> Waits(e, s) \/ s = r
               /\ f.req[r].name = n /\ f.req[r].retries = Retries
               /\ \A s \in Keys \ {r} : f.req[s] = e.req[s]
  <1> DEFINE f == make_request(e, r, n)
             y == [name |-> n, id |-> 0, retries |-> Retries, open |-> FALSE, armed |-> FALSE]
  <1>0. 0 \in Ids /\ Retries \in 0..Retries BY ResolverAssumption DEF Ids
  <1>1. y \in Request /\ y.name = n /\ y.retries = Retries BY <1>0, RequestType
  <1>2. /\ f.req = [e.req EXCEPT ![r] = y] /\ f.list = <<r>> \o e.list
        /\ f.net = e.net /\ f.ans = e.ans
    BY DEF make_request
  <1>3. e.list \in Seq(Keys) /\ Distinct(e.list) BY DEF StateOK
  <1> HIDE DEF f, y
  <1>4. f.list \in Seq(Keys) /\ ToSet(f.list) = {r} \cup ToSet(e.list)
    BY <1>2, <1>3, ConsElements
  <1>5. Distinct(f.list) BY <1>2, <1>3, ConsDistinct DEF Waits
  <1>6. /\ f.req \in [Keys -> Request] /\ f.req[r] = y
        /\ \A s \in Keys \ {r} : f.req[s] = e.req[s]
    BY <1>1, <1>2 DEF StateOK
  <1>7. StateOK(f) BY <1>2, <1>4, <1>5, <1>6 DEF StateOK
  <1> QED BY <1>1, <1>2, <1>4, <1>6, <1>7 DEF Waits, f

\* A request that is removed is off the list.
LEMMA RemDrops ==
    ASSUME NEW e, StateOK(e), NEW r \in Keys
    PROVE  LET f == rem_request(e, r)
           IN  /\ StateOK(f) /\ f.ans = e.ans
               /\ \A s \in Keys : Waits(f, s) <=> Waits(e, s) /\ s # r
               /\ f.req[r].retries = 0
               /\ \A s \in Keys \ {r} : f.req[s] = e.req[s]
  <1> DEFINE f == rem_request(e, r)
             gone == {r}
  <1>1. /\ f.req = [e.req EXCEPT ![r] = NoRequest] /\ f.list = Without(e.list, gone)
        /\ f.net = {p \in e.net : p.to # r} /\ f.ans = e.ans
    BY DEF rem_request
  <1>2. e.list \in Seq(Keys) /\ Distinct(e.list) BY DEF StateOK
  <1>3. \A s : s \in gone <=> s = r OBVIOUS
  <1> HIDE DEF f, gone
  <1>4. f.list \in Seq(Keys) /\ ToSet(f.list) = ToSet(e.list) \ gone
    BY <1>1, <1>2, WithoutElements
  <1>5. Distinct(f.list) BY <1>1, <1>2, WithoutDistinct
  <1>6. /\ f.req \in [Keys -> Request] /\ f.req[r] = NoRequest
        /\ \A s \in Keys \ {r} : f.req[s] = e.req[s]
    BY <1>1, NoRequestType DEF StateOK
  <1>7. StateOK(f) BY <1>1, <1>4, <1>5, <1>6 DEF StateOK
  <1>8. NoRequest.retries = 0 BY DEF NoRequest
  <1> QED BY <1>1, <1>3, <1>4, <1>6, <1>7, <1>8 DEF Waits, f

-----------------------------------------------------------------------------
(* What the operations do to the invariant.                                  *)

\* A request is sent again.
LEMMA GoodKept ==
    ASSUME NEW e, NEW f, NEW qs, NEW sd, Good(e, qs, sd),
           StateOK(f), f.list = e.list, f.ans = e.ans,
           \A r \in Keys : f.req[r].name = e.req[r].name
                           /\ (f.req[r].retries > 0 <=> e.req[r].retries > 0)
    PROVE  Good(f, qs, sd)
  <1>1. \A r : Waits(f, r) <=> Waits(e, r) BY DEF Waits
  <1>2. \A q \in Queries : Stage(f, qs, q) BY <1>1 DEF Good, Stage
  <1>3. \A r \in Keys : Waits(f, r) => About(f, sd, r) BY <1>1 DEF Good, About
  <1> QED BY <1>1, <1>2, <1>3 DEF Good

\* More is said.
LEMMA GoodSaid ==
    ASSUME NEW e, NEW qs, NEW sd, NEW more, Good(e, qs, sd)
    PROVE  Good(e, qs, sd \cup more)
  <1>1. \A r \in Keys : Waits(e, r) => About(e, sd \cup more, r) BY DEF Good, About
  <1>2. \A q \in Queries : \A i \in 1..Len(e.ans[q]) : Right(q, e.ans[q][i], sd \cup more)
    BY DEF Good, Right
  <1> QED BY <1>1, <1>2 DEF Good

\* A question is asked.
LEMMA GoodAsked ==
    ASSUME NEW e, NEW f, NEW qs, NEW sd, Good(e, qs, sd), NEW r \in Keys,
           r[1] \notin qs, StateOK(f), f.ans = e.ans,
           \A s \in Keys : Waits(f, s) <=> Waits(e, s) \/ s = r,
           f.req[r].retries > 0, About(f, sd, r),
           \A s \in Keys \ {r} : f.req[s] = e.req[s]
    PROVE  Good(f, qs \cup {r[1]}, sd)
  <1> DEFINE rs == qs \cup {r[1]}
  <1>0. r[1] \in Queries /\ r[2] \in {"PTR", "A"} /\ r = <<r[1], r[2]>> BY KeyParts
  <1>1. ASSUME NEW q \in Queries PROVE Stage(f, rs, q)
    <2>0. <<q, "PTR">> \in Keys /\ <<q, "A">> \in Keys BY DEF Keys
    <2>1. Stage(e, qs, q) BY DEF Good
    <2>2. CASE q = r[1] BY <1>0, <2>0, <2>1, <2>2 DEF Stage
    <2>3. CASE q # r[1]
      <3>1. /\ Waits(f, <<q, "PTR">>) <=> Waits(e, <<q, "PTR">>)
            /\ Waits(f, <<q, "A">>) <=> Waits(e, <<q, "A">>)
        BY <1>0, <2>0, <2>3
      <3> QED BY <2>1, <2>3, <3>1 DEF Stage
    <2> QED BY <2>2, <2>3
  <1>2. ASSUME NEW s \in Keys, Waits(f, s) PROVE About(f, sd, s)
    BY <1>2 DEF Good, About
  <1>3. \A s \in Keys : f.req[s].retries > 0 <=> Waits(f, s) BY DEF Good
  <1> QED BY <1>1, <1>2, <1>3 DEF Good

\* The name of an address was found, and its address is asked for.
LEMMA GoodMoved ==
    ASSUME NEW e, NEW f, NEW qs, NEW sd, Good(e, qs, sd), NEW q \in Queries,
           Waits(e, <<q, "PTR">>), StateOK(f), f.ans = e.ans,
           \A s \in Keys : Waits(f, s) <=> (Waits(e, s) \/ s = <<q, "A">>) /\ s # <<q, "PTR">>,
           f.req[<<q, "A">>].retries > 0, f.req[<<q, "PTR">>].retries = 0, About(f, sd, <<q, "A">>),
           \A s \in Keys \ {<<q, "PTR">>, <<q, "A">>} : f.req[s] = e.req[s]
    PROVE  Good(f, qs, sd)
  <1>0. \A x \in Queries : <<x, "PTR">> \in Keys /\ <<x, "A">> \in Keys BY DEF Keys
  <1>1. ASSUME NEW x \in Queries PROVE Stage(f, qs, x)
    <2>1. Stage(e, qs, x) BY DEF Good
    <2>2. CASE x = q BY <1>0, <2>1, <2>2 DEF Stage
    <2>3. CASE x # q
      <3>1. /\ Waits(f, <<x, "PTR">>) <=> Waits(e, <<x, "PTR">>)
            /\ Waits(f, <<x, "A">>) <=> Waits(e, <<x, "A">>)
        BY <1>0, <2>3
      <3> QED BY <2>1, <3>1 DEF Stage
    <2> QED BY <2>2, <2>3
  <1>2. ASSUME NEW s \in Keys, Waits(f, s) PROVE About(f, sd, s)
    BY <1>2 DEF Good, About
  <1>3. ASSUME NEW s \in Keys PROVE f.req[s].retries > 0 <=> Waits(f, s)
    BY <1>0 DEF Good
  <1> QED BY <1>1, <1>2, <1>3 DEF Good

\* The step from e to f gives answer a to the question of r and removes r.
Answers(e, f, r, a) ==
    /\ f.ans[r[1]] = Append(e.ans[r[1]], a)
    /\ \A x \in Queries \ {r[1]} : f.ans[x] = e.ans[x]
    /\ \A s \in Keys : Waits(f, s) <=> Waits(e, s) /\ s # r
    /\ f.req[r].retries = 0
    /\ \A s \in Keys \ {r} : f.req[s] = e.req[s]

\* A question is answered and its request is removed.
LEMMA GoodAnswered ==
    ASSUME NEW e, NEW f, NEW qs, NEW sd, Good(e, qs, sd), NEW r \in Keys, Waits(e, r),
           NEW a \in Outcomes, Right(r[1], a, sd),
           StateOK(f), Answers(e, f, r, a)
    PROVE  Good(f, qs, sd) /\ r[1] \in qs /\ e.ans[r[1]] = <<>> /\ f.ans[r[1]] = <<a>>
  <1> DEFINE q == r[1]
  <1>0. /\ q \in Queries /\ r[2] \in {"PTR", "A"} /\ r = <<q, r[2]>>
        /\ \A x \in Queries : <<x, "PTR">> \in Keys /\ <<x, "A">> \in Keys
    BY KeyParts DEF Keys
  <1> HIDE DEF q
  <1>a. /\ f.ans[q] = Append(e.ans[q], a) /\ \A x \in Queries \ {q} : f.ans[x] = e.ans[x]
        /\ \A s \in Keys : Waits(f, s) <=> Waits(e, s) /\ s # r
        /\ f.req[r].retries = 0 /\ \A s \in Keys \ {r} : f.req[s] = e.req[s]
    BY DEF Answers, q
  <1>1. q \in qs /\ e.ans[q] = <<>> /\ (Waits(e, <<q, "PTR">>) <=> ~Waits(e, <<q, "A">>))
    <2>1. Stage(e, qs, q) BY <1>0 DEF Good
    <2> QED BY <1>0, <2>1 DEF Stage
  <1>2. f.ans[q] = <<a>> /\ \A x \in Queries \ {q} : f.ans[x] = e.ans[x]
    BY <1>0, <1>a, <1>1 DEF Good, StateOK
  <1>3. ASSUME NEW x \in Queries PROVE Stage(f, qs, x)
    <2>1. Stage(e, qs, x) BY DEF Good
    <2>2. CASE x = q
      <3>1. ~Waits(f, <<q, "PTR">>) /\ ~Waits(f, <<q, "A">>)
        BY <1>0, <1>a, <1>1
      <3>2. Len(f.ans[q]) = 1 BY <1>2
      <3> QED BY <1>1, <2>2, <3>1, <3>2 DEF Stage
    <2>3. CASE x # q
      <3>1. /\ Waits(f, <<x, "PTR">>) <=> Waits(e, <<x, "PTR">>)
            /\ Waits(f, <<x, "A">>) <=> Waits(e, <<x, "A">>)
        BY <1>0, <1>a, <2>3
      <3> QED BY <1>2, <2>1, <2>3, <3>1 DEF Stage
    <2> QED BY <2>2, <2>3
  <1>4. ASSUME NEW s \in Keys, Waits(f, s) PROVE About(f, sd, s)
    BY <1>a, <1>4 DEF Good, About
  <1>5. ASSUME NEW s \in Keys PROVE f.req[s].retries > 0 <=> Waits(f, s)
    BY <1>a DEF Good
  <1>6. ASSUME NEW x \in Queries, NEW i \in 1..Len(f.ans[x]) PROVE Right(x, f.ans[x][i], sd)
    <2>1. CASE x = q
      <3>0. Len(f.ans[x]) = 1 BY <1>2, <2>1
      <3>1. i = 1 BY <3>0
      <3> QED BY <1>2, <2>1, <3>1 DEF q
    <2>2. CASE x # q BY <1>2, <2>2 DEF Good
    <2> QED BY <2>1, <2>2
  <1> QED BY <1>1, <1>2, <1>3, <1>4, <1>5, <1>6 DEF Good, q

\* Nothing is answered, or one question that waits.
AnswersOne(e, f, qs) ==
    \/ f.ans = e.ans
    \/ \E q \in qs \cap Queries, a \in Outcomes :
          e.ans[q] = <<>> /\ f.ans = [e.ans EXCEPT ![q] = <<a>>]

\* The answer to the server is "failed", or what the nameservers confirmed.
LEMMA AnswerRight ==
    ASSUME NEW e, NEW qs, NEW sd, Good(e, qs, sd), NEW r \in Keys, Waits(e, r), NEW c,
           c = NULL \/ (c \in Addrs /\ r[2] = "A" /\ <<e.req[r].name, c>> \in sd)
    PROVE  LET f == rem_request(send_answer(e, r[1], e.req[r].name, c), r)
           IN  Good(f, qs, sd) /\ AnswersOne(e, f, qs)
  <1> DEFINE q == r[1]
             name == e.req[r].name
             a == IF q \in ByAddress
                  THEN IF c = Subject[q] /\ name \notin Long THEN name ELSE "failed"
                  ELSE IF c \in Addrs THEN c ELSE "failed"
             g == send_answer(e, q, name, c)
             f == rem_request(g, r)
  <1>0. q \in Queries /\ Subject[q] # NULL BY KeyParts, ResolverAssumption
  <1>1. About(e, sd, r) BY DEF Good
  <1>2. a \in Outcomes /\ Right(q, a, sd)
    <2>1. CASE q \in ByAddress
      <3>1. CASE c = Subject[q] /\ name \notin Long
        <4>1. c # NULL BY <1>0, <3>1
        <4>2. name \in Names /\ <<Subject[q], name>> \in sd /\ <<name, Subject[q]>> \in sd
          BY <1>1, <2>1, <3>1, <4>1 DEF About
        <4> QED BY <2>1, <3>1, <4>2 DEF Outcomes, Right
      <3>2. CASE ~(c = Subject[q] /\ name \notin Long)
        BY <2>1, <3>2 DEF Outcomes, Right
      <3> QED BY <3>1, <3>2
    <2>2. CASE q \notin ByAddress
      <3>1. CASE c \in Addrs
        <4>1. c # NULL BY <3>1, ResolverAssumption
        <4>2. name = Subject[q] BY <1>1, <2>2 DEF About
        <4> QED BY <2>2, <3>1, <4>1, <4>2 DEF Outcomes, Right
      <3>2. CASE c \notin Addrs BY <2>2, <3>2 DEF Outcomes, Right
      <3> QED BY <3>1, <3>2
    <2> QED BY <2>1, <2>2
  <1>3. /\ g.req = e.req /\ g.list = e.list /\ g.net = e.net
        /\ g.ans = [e.ans EXCEPT ![q] = Append(e.ans[q], a)]
    BY DEF send_answer
  <1>e. StateOK(e) BY DEF Good
  <1> HIDE DEF a, g, q, name
  <1>4. StateOK(g)
    <2>1. Append(e.ans[q], a) \in Seq(Outcomes) BY <1>0, <1>2, <1>e DEF StateOK
    <2>2. g.ans \in [Queries -> Seq(Outcomes)] BY <1>e, <1>3, <2>1 DEF StateOK
    <2> QED BY <1>e, <1>3, <2>2 DEF StateOK
  <1>5. /\ StateOK(f) /\ f.ans = g.ans
        /\ \A s \in Keys : Waits(f, s) <=> Waits(g, s) /\ s # r
        /\ f.req[r].retries = 0
        /\ \A s \in Keys \ {r} : f.req[s] = g.req[s]
    BY <1>4, RemDrops
  <1> HIDE DEF f
  <1>6. \A s \in Keys : Waits(f, s) <=> Waits(e, s) /\ s # r BY <1>3, <1>5 DEF Waits
  <1>7. Good(f, qs, sd) /\ q \in qs /\ e.ans[q] = <<>> /\ f.ans[q] = <<a>>
    <2>1. /\ f.ans[r[1]] = Append(e.ans[r[1]], a)
          /\ \A x \in Queries \ {r[1]} : f.ans[x] = e.ans[x]
      BY <1>0, <1>e, <1>3, <1>5 DEF q, StateOK
    <2>2. \A s \in Keys \ {r} : f.req[s] = e.req[s] BY <1>3, <1>5
    <2>3. Right(r[1], a, sd) BY <1>2 DEF q
    <2>4. a \in Outcomes /\ StateOK(f) /\ f.req[r].retries = 0 BY <1>2, <1>5
    <2>5. Good(f, qs, sd) /\ r[1] \in qs /\ e.ans[r[1]] = <<>> /\ f.ans[r[1]] = <<a>>
      <3>1. Answers(e, f, r, a) BY <1>6, <2>1, <2>2, <2>4 DEF Answers
      <3> QED BY <2>3, <2>4, <3>1, GoodAnswered
    <2> QED BY <2>5 DEF q
  <1>8. f.ans = [e.ans EXCEPT ![q] = <<a>>]
    <2>1. Append(e.ans[q], a) = <<a>> BY <1>2, <1>7
    <2> QED BY <1>3, <1>5, <2>1
  <1>9. AnswersOne(e, f, qs) BY <1>0, <1>2, <1>7, <1>8 DEF AnswersOne
  <1> QED BY <1>7, <1>9 DEF f, g, q, name

-----------------------------------------------------------------------------
(* The steps.                                                                *)

\* The invariant of the process.
ResolverInv == queries \subseteq Queries /\ Good(Here, queries, said)

\* The request that has an id is on the list.
LEMMA FoundWaits ==
    ASSUME NEW e, StateOK(e), NEW id, find_id(e, id) # NULL
    PROVE  find_id(e, id) \in Keys /\ Waits(e, find_id(e, id))
  <1> DEFINE W == With(e, id)
             i == CHOOSE k \in W : \A j \in W : k <= j
  <1>1. W # {} /\ find_id(e, id) = e.list[i] BY DEF find_id
  <1>2. e.list \in Seq(Keys) BY DEF StateOK
  <1>3. W \subseteq 1..Len(e.list) BY <1>2 DEF With
  <1>4. W \subseteq Nat BY <1>2, <1>3
  <1> HIDE DEF W
  <1>5. PICK k \in W : \A y \in W : ~(<<y, k>> \in OpToRel(<, Nat))
    BY <1>1, <1>4, NatLessThanWellFounded, WFMin
  <1>6. ASSUME NEW j \in W PROVE k <= j
    <2>1. SUFFICES ASSUME j < k PROVE FALSE BY <1>4
    <2>2. <<j, k>> \in Nat \X Nat /\ <<j, k>>[1] < <<j, k>>[2] BY <1>4, <2>1
    <2>3. <<j, k>> \in OpToRel(<, Nat) BY <2>2, Zenon DEF OpToRel
    <2> QED BY <1>5, <2>3
  <1>7. i \in W BY <1>6
  <1> HIDE DEF i
  <1> QED BY <1>1, <1>2, <1>3, <1>7 DEF Waits, ToSet

\* The invariant is about the parts of a state.
LEMMA GoodParts ==
    ASSUME NEW e, NEW f, NEW qs, NEW sd, Good(e, qs, sd),
           f.req = e.req, f.list = e.list, f.net = e.net, f.ans = e.ans
    PROVE  Good(f, qs, sd)
  <1>1. StateOK(f) BY DEF Good, StateOK
  <1> QED BY <1>1, GoodKept

\* What the process makes of an answer.
LEMMA ProcAnswer ==
    ASSUME NEW e, NEW qs, NEW sd, Good(e, qs, sd), NEW t \in Keys, Waits(e, t),
           NEW c \in Content(e.req[t].name), NEW f \in proc_answer(e, t, c)
    PROVE  /\ Good(f, qs, sd \cup {<<e.req[t].name, c>>})
           /\ AnswersOne(e, f, qs)
  <1> DEFINE q == t[1]
             name == e.req[t].name
             more == {<<name, c>>}
             sd2 == sd \cup more
  <1>0. q \in Queries /\ t[2] \in {"PTR", "A"} /\ t = <<q, t[2]>> BY KeyParts
  <1>n. <<name, c>> \in sd2 OBVIOUS
  <1>s. name \in Addrs => c \in {"error", "garbage"} \cup Names
    BY DEF Content
  <1>c. name \notin Addrs => c \in {"error", "garbage", NULL} \cup Addrs
    BY DEF Content
  <1> HIDE DEF more
  <1>1. Good(e, qs, sd2) BY GoodSaid
  <1> HIDE DEF sd2
  <1>2. About(e, sd2, t) BY <1>1 DEF Good
  <1>3. ASSUME NEW d, d = NULL \/ (d \in Addrs /\ t[2] = "A" /\ <<name, d>> \in sd2),
               f = rem_request(send_answer(e, q, name, d), t)
        PROVE  Good(f, qs, sd2) /\ AnswersOne(e, f, qs)
    BY <1>1, <1>3, AnswerRight
  <1>4. CASE c \in {"error", "garbage"}
    BY <1>3, <1>4 DEF proc_answer, sd2, more
  <1>5. CASE c \notin {"error", "garbage"} /\ t[2] = "PTR"
    <2> DEFINE r == <<q, "A">>
               m == make_request(e, r, c)
    <2>1. PICK g \in query_name(m, r) : f = rem_request(g, t) BY <1>5 DEF proc_answer
    <2>2. q \in ByAddress /\ name = Subject[q] BY <1>2, <1>5 DEF About
    <2>3. name \in Addrs BY <2>2 DEF ByAddress
    <2>4. c \in Names BY <1>5, <1>s, <2>3
    <2>5. r \in Keys /\ r # t /\ r[1] = q /\ r[2] = "A" BY <1>0, <1>5 DEF Keys
    <2>6. Stage(e, qs, q) /\ StateOK(e) BY <1>0 DEF Good
    <2>7. ~Waits(e, r) BY <1>0, <1>5, <2>6 DEF Stage
    <2> HIDE DEF r
    <2>8. /\ StateOK(m) /\ m.ans = e.ans
          /\ \A s \in Keys : Waits(m, s) <=> Waits(e, s) \/ s = r
          /\ m.req[r].name = c /\ m.req[r].retries = Retries
          /\ \A s \in Keys \ {r} : m.req[s] = e.req[s]
      BY <2>4, <2>5, <2>6, <2>7, MakeAdds
    <2> HIDE DEF m
    <2>9. /\ StateOK(g) /\ g.list = m.list /\ g.ans = m.ans
          /\ g.req[r].name = m.req[r].name /\ g.req[r].retries = m.req[r].retries
          /\ \A s \in Keys \ {r} : g.req[s] = m.req[s]
      BY <2>5, <2>8, QueryKeeps
    <2>10. /\ StateOK(f) /\ f.ans = g.ans
           /\ \A s \in Keys : Waits(f, s) <=> Waits(g, s) /\ s # t
           /\ f.req[t].retries = 0
           /\ \A s \in Keys \ {t} : f.req[s] = g.req[s]
      BY <2>1, <2>9, RemDrops
    <2>11. /\ f.ans = e.ans
           /\ \A s \in Keys : Waits(f, s) <=> (Waits(e, s) \/ s = r) /\ s # t
           /\ \A s \in Keys \ {t, r} : f.req[s] = e.req[s]
           /\ f.req[r].name = c /\ f.req[r].retries > 0 /\ f.req[t].retries = 0
      BY <2>5, <2>8, <2>9, <2>10, ResolverAssumption DEF Waits
    <2>12. About(f, sd2, r) BY <1>n, <2>2, <2>4, <2>5, <2>11 DEF About
    <2>13. r = <<q, "A">> /\ t = <<q, "PTR">> BY <1>0, <1>5 DEF r
    <2>14. Good(f, qs, sd2)
      <3> HIDE DEF q
      <3> QED BY <1>0, <1>1, <2>10, <2>11, <2>12, <2>13, GoodMoved
    <2> QED BY <2>11, <2>14 DEF AnswersOne, sd2, more
  <1>6. CASE c \notin {"error", "garbage"} /\ t[2] = "A"
    <2>1. f = rem_request(send_answer(e, q, name, c), t) BY <1>6 DEF proc_answer
    <2>2. name \notin Addrs
      BY <1>0, <1>2, <1>6, ResolverAssumption DEF About, ByAddress
    <2>3. c \in Addrs \/ c = NULL BY <1>6, <1>c, <2>2
    <2> QED BY <1>3, <1>6, <1>n, <2>1, <2>3 DEF sd2, more
  <1> QED BY <1>0, <1>4, <1>5, <1>6

\* Every step keeps the invariant; it asks a question, answers one that waits,
\* or does neither.
LEMMA ResolverStep ==
    ASSUME ResolverInv, ResolverNext
    PROVE  /\ ResolverInv'
           /\ \/ queries' = queries /\ AnswersOne(Here, Here', queries)
              \/ \E q \in Queries \ queries : queries' = queries \cup {q} /\ ans' = ans
  <1> DEFINE e == Here
  <1>0. /\ e.req = req /\ e.list = request_list /\ e.net = net /\ e.ans = ans
        /\ Here'.req = req' /\ Here'.list = request_list' /\ Here'.net = net' /\ Here'.ans = ans'
    BY DEF Here
  <1>e. Good(e, queries, said) /\ StateOK(e) /\ queries \subseteq Queries BY DEF ResolverInv, Good
  <1>a. ASSUME NEW f, f.req = req', f.list = request_list', f.net = net', f.ans = ans',
               Good(f, queries', said'), queries' \subseteq Queries
        PROVE  ResolverInv'
    <2> DEFINE h == Here'
    <2>1. h.req = f.req /\ h.list = f.list /\ h.net = f.net /\ h.ans = f.ans BY <1>0, <1>a
    <2> HIDE DEF h
    <2>2. Good(h, queries', said') BY <1>a, <2>1, GoodParts
    <2> QED BY <1>a, <2>2 DEF h, ResolverInv
  <1>b. ASSUME NEW f, f.ans = ans', AnswersOne(e, f, queries)
        PROVE  AnswersOne(Here, Here', queries)
    BY <1>0, <1>b DEF AnswersOne
  <1> HIDE DEF e
  <1>1. ASSUME NEW q \in Queries, resolve(q)
        PROVE  ResolverInv' /\ q \notin queries /\ queries' = queries \cup {q} /\ ans' = ans
    <2> DEFINE r == <<q, IF q \in ByAddress THEN "PTR" ELSE "A">>
               m == make_request(e, r, Subject[q])
    <2>1. /\ q \notin queries /\ queries' = queries \cup {q} /\ said' = said
          /\ Apply(query_name(m, r))
      BY <1>1 DEF resolve, e
    <2>2. /\ r \in Keys /\ r[1] = q /\ r[2] = IF q \in ByAddress THEN "PTR" ELSE "A"
          /\ Subject[q] \in Addrs \cup Names
      BY ResolverAssumption DEF Keys
    <2>3. ~Waits(e, r)
      <3>1. Stage(e, queries, q) BY <1>e DEF Good
      <3> QED BY <2>1, <3>1 DEF Stage
    <2> HIDE DEF r
    <2>4. /\ StateOK(m) /\ m.ans = e.ans
          /\ \A s \in Keys : Waits(m, s) <=> Waits(e, s) \/ s = r
          /\ m.req[r].name = Subject[q] /\ m.req[r].retries = Retries
          /\ \A s \in Keys \ {r} : m.req[s] = e.req[s]
      BY <1>e, <2>2, <2>3, MakeAdds
    <2> HIDE DEF m
    <2>5. PICK f \in query_name(m, r) : /\ req' = f.req /\ request_list' = f.list
                                        /\ net' = f.net /\ ans' = f.ans
      BY <2>1 DEF Apply
    <2>6. /\ StateOK(f) /\ f.list = m.list /\ f.ans = m.ans
          /\ f.req[r].name = m.req[r].name /\ f.req[r].retries = m.req[r].retries
          /\ \A s \in Keys \ {r} : f.req[s] = m.req[s]
      BY <2>2, <2>4, QueryKeeps
    <2>7. /\ f.ans = e.ans
          /\ \A s \in Keys : Waits(f, s) <=> Waits(e, s) \/ s = r
          /\ \A s \in Keys \ {r} : f.req[s] = e.req[s]
          /\ f.req[r].name = Subject[q] /\ f.req[r].retries > 0
      BY <2>4, <2>6, ResolverAssumption DEF Waits
    <2>8. About(f, said, r) BY <2>2, <2>7 DEF About
    <2>9. Good(f, queries \cup {r[1]}, said)
      BY <1>e, <2>1, <2>2, <2>6, <2>7, <2>8, GoodAsked
    <2> QED BY <1>e, <1>0, <1>a, <2>1, <2>2, <2>5, <2>7, <2>9
  <1>2. ASSUME NEW r \in Keys, timeout_query(r)
        PROVE  ResolverInv' /\ queries' = queries /\ AnswersOne(Here, Here', queries)
    <2> DEFINE x == req[r]
               left == x.retries - 1
               y == [name |-> x.name, id |-> x.id, retries |-> left, open |-> x.open, armed |-> x.armed]
               g == Put(e, r, y)
               d == rem_request(send_answer(e, r[1], x.name, NULL), r)
    <2>1. /\ x.retries > 0 /\ queries' = queries /\ said' = said
          /\ Apply(IF left <= 0 THEN {d} ELSE query_name(g, r))
      BY <1>2 DEF timeout_query, e
    <2>2. Waits(e, r) BY <1>e, <1>0, <2>1 DEF Good
    <2>3. x = e.req[r] /\ x \in Request BY <1>e, <1>0 DEF StateOK
    <2>4. CASE left <= 0
      <3>1. req' = d.req /\ request_list' = d.list /\ net' = d.net /\ ans' = d.ans
        BY <2>1, <2>4 DEF Apply
      <3>2. Good(d, queries, said) /\ AnswersOne(e, d, queries)
        <4> HIDE DEF x
        <4> QED BY <1>e, <2>2, <2>3, AnswerRight
      <3> HIDE DEF d
      <3> QED BY <1>e, <1>a, <1>b, <2>1, <3>1, <3>2
    <2>5. CASE ~(left <= 0)
      <3>1. PICK f \in query_name(g, r) : /\ req' = f.req /\ request_list' = f.list
                                          /\ net' = f.net /\ ans' = f.ans
        BY <2>1, <2>5 DEF Apply
      <3>2. /\ x.name \in Addrs \cup Names \cup {NULL} /\ x.id \in Ids
            /\ x.retries \in 0..Retries /\ x.open \in BOOLEAN /\ x.armed \in BOOLEAN
        BY <2>3 DEF Request
      <3>3. left \in 0..Retries /\ left > 0 BY <2>5, <3>2, ResolverAssumption
      <3>4. y \in Request /\ y.name = x.name /\ y.retries = left
        <4> HIDE DEF left
        <4> QED BY <3>2, <3>3, RequestType
      <3>5. g.req = [e.req EXCEPT ![r] = y] /\ g.list = e.list /\ g.net = e.net /\ g.ans = e.ans
        BY DEF Put
      <3> HIDE DEF y, g
      <3>6. /\ g.req \in [Keys -> Request] /\ g.req[r] = y
            /\ \A s \in Keys \ {r} : g.req[s] = e.req[s]
        BY <1>e, <3>4, <3>5 DEF StateOK
      <3>7. StateOK(g) BY <1>e, <3>5, <3>6 DEF StateOK
      <3>8. /\ StateOK(f) /\ f.list = g.list /\ f.ans = g.ans
            /\ f.req[r].name = g.req[r].name /\ f.req[r].retries = g.req[r].retries
            /\ \A s \in Keys \ {r} : f.req[s] = g.req[s]
        BY <3>7, QueryKeeps
      <3>9. f.list = e.list /\ f.ans = e.ans BY <3>5, <3>8
      <3>10. ASSUME NEW s \in Keys
             PROVE  /\ f.req[s].name = e.req[s].name
                    /\ f.req[s].retries > 0 <=> e.req[s].retries > 0
        <4>1. CASE s = r BY <2>1, <2>3, <3>3, <3>4, <3>6, <3>8, <4>1
        <4>2. CASE s # r BY <3>6, <3>8, <4>2
        <4> QED BY <4>1, <4>2
      <3>11. Good(f, queries, said) BY <1>e, <3>8, <3>9, <3>10, GoodKept
      <3>12. AnswersOne(e, f, queries) BY <3>9 DEF AnswersOne
      <3> QED BY <1>e, <1>a, <1>b, <2>1, <3>1, <3>11, <3>12
    <2> QED BY <2>4, <2>5
  <1>3. ASSUME NEW p \in net, NEW c \in Content(p.name), res_readreply(p, c)
        PROVE  ResolverInv' /\ queries' = queries /\ AnswersOne(Here, Here', queries)
    <2> DEFINE r == p.to
               t == find_id(e, p.id)
    <2>1. /\ t # NULL /\ e.req[t].name = p.name /\ queries' = queries
          /\ said' = said \cup {<<p.name, c>>}
          /\ Apply({IF t = r THEN g ELSE Deaf(g, r) : g \in proc_answer(e, t, c)})
      BY <1>3 DEF res_readreply, check_question, e
    <2>2. t \in Keys /\ Waits(e, t) BY <1>e, <2>1, FoundWaits
    <2>3. r \in Keys BY <1>e, <1>0 DEF StateOK
    <2> HIDE DEF t, r
    <2>4. PICK g \in proc_answer(e, t, c) :
            LET f == IF t = r THEN g ELSE Deaf(g, r)
            IN  req' = f.req /\ request_list' = f.list /\ net' = f.net /\ ans' = f.ans
      BY <2>1 DEF Apply
    <2>5. Good(g, queries, said') /\ AnswersOne(e, g, queries)
      BY <1>e, <2>1, <2>2, ProcAnswer
    <2>6. CASE t = r
      BY <1>e, <1>a, <1>b, <2>1, <2>4, <2>5, <2>6
    <2>7. CASE t # r
      <3> DEFINE x == g.req[r]
                 y == [name |-> x.name, id |-> x.id, retries |-> x.retries, open |-> x.open, armed |-> FALSE]
                 f == Deaf(g, r)
      <3>1. f.req = [g.req EXCEPT ![r] = y] /\ f.list = g.list /\ f.net = g.net /\ f.ans = g.ans
        BY DEF Deaf, Put
      <3>2. x \in Request /\ StateOK(g) BY <2>3, <2>5 DEF Good, StateOK
      <3>3. /\ x.name \in Addrs \cup Names \cup {NULL} /\ x.id \in Ids
            /\ x.retries \in 0..Retries /\ x.open \in BOOLEAN
        BY <3>2 DEF Request
      <3>4. y \in Request /\ y.name = x.name /\ y.retries = x.retries BY <3>3, RequestType
      <3> HIDE DEF y, f
      <3>5. /\ f.req \in [Keys -> Request] /\ f.req[r] = y
            /\ \A s \in Keys \ {r} : f.req[s] = g.req[s]
        BY <2>3, <3>1, <3>2, <3>4 DEF StateOK
      <3>6. StateOK(f) BY <3>1, <3>2, <3>5 DEF StateOK
      <3>7. \A s \in Keys : f.req[s].name = g.req[s].name
                            /\ (f.req[s].retries > 0 <=> g.req[s].retries > 0)
        BY <3>4, <3>5
      <3>8. Good(f, queries, said') BY <2>5, <3>1, <3>6, <3>7, GoodKept
      <3>9. req' = f.req /\ request_list' = f.list /\ net' = f.net /\ ans' = f.ans
        BY <2>4, <2>7 DEF f
      <3>10. AnswersOne(e, f, queries) BY <2>5, <3>1 DEF AnswersOne
      <3> QED BY <1>e, <1>a, <1>b, <2>1, <3>8, <3>9, <3>10
    <2> QED BY <2>6, <2>7
  <1> QED BY <1>1, <1>2, <1>3 DEF ResolverNext

\* The invariant holds at the start.
LEMMA ResolverStart ==
    ASSUME ResolverInit
    PROVE  ResolverInv
  <1> DEFINE e == Here
  <1>0. /\ e.req = [r \in Keys |-> NoRequest] /\ e.list = <<>> /\ e.net = {}
        /\ e.ans = [q \in Queries |-> <<>>] /\ queries = {}
    BY DEF Here, ResolverInit
  <1> HIDE DEF e
  <1>1. \A r : ~Waits(e, r) BY <1>0 DEF Waits, ToSet
  <1>2. /\ e.list \in Seq(Keys) /\ Distinct(e.list) BY <1>0 DEF Distinct
  <1>3. e.ans \in [Queries -> Seq(Outcomes)]
    <2>1. <<>> \in Seq(Outcomes) OBVIOUS
    <2> QED BY <1>0, <2>1, Zenon
  <1>4. e.req \in [Keys -> Request] BY <1>0, NoRequestType
  <1>5. \A r \in Keys : ~(e.req[r].retries > 0)
    <2>1. NoRequest.retries = 0 BY DEF NoRequest
    <2> QED BY <1>0, <2>1
  <1>6. StateOK(e) BY <1>0, <1>2, <1>3, <1>4 DEF StateOK
  <1>7. \A q \in Queries : Stage(e, queries, q) BY <1>0, <1>1 DEF Stage
  <1>8. \A q \in Queries : e.ans[q] = <<>> BY <1>0
  <1>9. Good(e, queries, said) BY <1>1, <1>5, <1>6, <1>7, <1>8 DEF Good
  <1> QED BY <1>0, <1>9 DEF ResolverInv, e

-----------------------------------------------------------------------------
(* The theorems.                                                             *)

\* The invariant implies that a question has one request or one answer.
LEMMA OneEach ==
    ASSUME ResolverInv
    PROVE  OneRequest
  <1> DEFINE l == request_list
  <1>0. Here.req = req /\ Here.list = l /\ Here.net = net /\ Here.ans = ans BY DEF Here
  <1>1. /\ req \in [Keys -> Request] /\ l \in Seq(Keys) /\ Distinct(l)
        /\ \A p \in net : p.to \in Keys /\ p.id \in Ids
    BY <1>0 DEF ResolverInv, Good, StateOK
  <1>2. \A r : Waits(Here, r) <=> \E i \in DOMAIN l : l[i] = r
    BY <1>0, <1>1 DEF Waits, ToSet
  <1>3. \A r \in Keys : (req[r].retries > 0) <=> (\E i \in DOMAIN l : l[i] = r)
    BY <1>0, <1>2 DEF ResolverInv, Good
  <1>4. ASSUME NEW q \in queries \cap Queries
        PROVE  Cardinality({i \in DOMAIN l : l[i][1] = q}) = IF ans[q] = <<>> THEN 1 ELSE 0
    <2> DEFINE I == {i \in DOMAIN l : l[i][1] = q}
    <2>1. Stage(Here, queries, q) BY DEF ResolverInv, Good
    <2>2. \A i \in I : l[i] \in Keys /\ Waits(Here, l[i]) BY <1>1, <1>2
    <2>3. \A i \in I : l[i] = <<q, "PTR">> \/ l[i] = <<q, "A">> BY <2>2, KeyParts
    <2>4. CASE ans[q] = <<>>
      <3>1. \E r \in {<<q, "PTR">>, <<q, "A">>} :
               Waits(Here, r) /\ \A s \in {<<q, "PTR">>, <<q, "A">>} : Waits(Here, s) => s = r
        BY <1>0, <2>1, <2>4 DEF Stage
      <3>2. PICK r \in {<<q, "PTR">>, <<q, "A">>} :
               Waits(Here, r) /\ \A s \in {<<q, "PTR">>, <<q, "A">>} : Waits(Here, s) => s = r
        BY <3>1
      <3>3. r[1] = q BY <3>2
      <3>4. PICK i \in DOMAIN l : l[i] = r BY <1>2, <3>2
      <3>5. \A j \in I : l[j] = r BY <2>2, <2>3, <3>2
      <3>6. \A j \in I : j = i BY <1>1, <3>4, <3>5 DEF Distinct
      <3>7. i \in I BY <3>3, <3>4
      <3>8. I = {i} BY <3>6, <3>7
      <3> HIDE DEF I
      <3>9. Cardinality(I) = 1 BY <3>8, FS_Singleton
      <3> QED BY <2>4, <3>9 DEF I
    <2>5. CASE ans[q] # <<>>
      <3>1. ~Waits(Here, <<q, "PTR">>) /\ ~Waits(Here, <<q, "A">>)
        BY <1>0, <2>1, <2>5 DEF Stage
      <3>2. I = {} BY <2>2, <2>3, <3>1
      <3> HIDE DEF I
      <3>3. Cardinality(I) = 0 BY <3>2, FS_EmptySet
      <3> QED BY <2>5, <3>3 DEF I
    <2> QED BY <2>4, <2>5
  <1>5. queries \subseteq Queries BY DEF ResolverInv
  <1> QED BY <1>1, <1>3, <1>4, <1>5 DEF OneRequest

\* The state of Lookups that the process is in.
Reply == [q \in Queries |-> IF ans[q] = <<>> THEN NULL ELSE ans[q][1]]

\* Every step of the process is one of Lookups, or changes nothing there.
LEMMA StepAllowed ==
    ASSUME ResolverInv, [ResolverNext]_resolverVars
    PROVE  [L!Next]_L!vars
  <1> USE DEF L!Next, L!vars, L!Ask, L!Answer
  <1>0. Here.ans = ans /\ Here'.ans = ans' BY DEF Here
  <1>1. ans \in [Queries -> Seq(Outcomes)] BY <1>0 DEF ResolverInv, Good, StateOK
  <1>2. CASE UNCHANGED resolverVars
    BY <1>2 DEF resolverVars
  <1>3. ASSUME NEW q \in Queries \ queries, queries' = queries \cup {q}, ans' = ans
        PROVE  L!Next
    BY <1>3
  <1>4. CASE queries' = queries /\ AnswersOne(Here, Here', queries)
    <2>1. CASE ans' = ans BY <1>4, <2>1
    <2>2. CASE ans' # ans
      <3>1. PICK q \in queries \cap Queries, a \in Outcomes :
              ans[q] = <<>> /\ ans' = [ans EXCEPT ![q] = <<a>>]
        BY <1>0, <1>4, <2>2 DEF AnswersOne
      <3>2. Reply[q] = NULL BY <3>1 DEF Reply
      <3>3. <<a>> # <<>> /\ <<a>>[1] = a OBVIOUS
      <3>4. Reply' = [Reply EXCEPT ![q] = a]
        <4>1. ASSUME NEW p \in Queries PROVE Reply'[p] = [Reply EXCEPT ![q] = a][p]
          BY <1>1, <3>1, <3>3 DEF Reply
        <4> QED BY <4>1 DEF Reply
      <3>5. a \in Names \cup Addrs \cup {"failed"} BY DEF Outcomes
      <3>6. L!Answer(q) BY <1>4, <3>1, <3>2, <3>4, <3>5 DEF Reply
      <3> QED BY <3>6
    <2> QED BY <2>1, <2>2
  <1> QED BY <1>2, <1>3, <1>4, ResolverStep

\* The invariant holds after steps of the process and without one.
LEMMA ResolverKeeps ==
    ASSUME ResolverInv, [ResolverNext]_resolverVars
    PROVE  ResolverInv'
  <1>1. CASE ResolverNext BY <1>1, ResolverStep
  <1>2. CASE UNCHANGED resolverVars
    <2>1. Here' = Here /\ queries' = queries /\ said' = said BY <1>2 DEF resolverVars, Here
    <2> QED BY <2>1 DEF ResolverInv
  <1> QED BY <1>1, <1>2

\* However packets are lost, late, repeated or read by the wrong socket, a
\* question has one struct reslist while it waits and none once send_answer()
\* has written its answer, for any number of questions, ids and retries.
THEOREM RequestsHeld == ResolverSpec => []OneRequest
  BY OneEach, ResolverStart, ResolverKeeps, PTL DEF ResolverSpec

\* No answer that the process writes to the server is one that nameservers did
\* not confirm, whatever id a late packet meets: check_question() and the
\* comparison in send_answer() suffice.
THEOREM NothingInvented == ResolverSpec => []AnswersConfirmed
  <1>1. ASSUME ResolverInv PROVE AnswersConfirmed
    <2>1. Here.ans = ans BY DEF Here
    <2>2. ans \in [Queries -> Seq(Outcomes)] BY <1>1, <2>1 DEF ResolverInv, Good, StateOK
    <2>3. \A q \in Queries : \A i \in 1..Len(ans[q]) : Right(q, ans[q][i], said)
      BY <1>1, <2>1 DEF ResolverInv, Good
    <2>4. \A q \in Queries : DOMAIN ans[q] = 1..Len(ans[q]) BY <2>2
    <2> QED BY <2>3, <2>4 DEF AnswersConfirmed, Right
  <1> QED BY <1>1, ResolverStart, ResolverKeeps, PTL DEF ResolverSpec

\* The process makes only the steps that the server relies on: it answers what
\* was asked, each question once, and takes no answer back.  That it answers
\* every question is the part of ResolverAnswers that TLC checks.
THEOREM StepsOfLookups == ResolverSpec => L!Init /\ [][L!Next]_L!vars
  <1>1. ResolverInit => L!Init
    BY DEF ResolverInit, L!Init
  <1> QED BY <1>1, StepAllowed, ResolverStart, ResolverKeeps, PTL DEF ResolverSpec

-----------------------------------------------------------------------------
(* SendQ.                                                                   *)

Byte == Lines \X Nat

-----------------------------------------------------------------------------
(* The bytes of a sequence of lines.                                        *)

LEMMA LineTypes ==
    /\ Lengths \in Seq(Nat \ {0}) /\ Len(Lengths) \in Nat /\ Lines = 1..Len(Lengths)
    /\ \A l \in Lines : Lengths[l] \in Nat /\ LineBytes[l] \in Seq(Byte)
  <1>1. /\ Lengths \in Seq(Nat \ {0}) /\ Len(Lengths) \in Nat /\ Lines = 1..Len(Lengths)
        /\ \A l \in Lines : Lengths[l] \in Nat
    BY SendAssumption DEF Lines
  <1>2. ASSUME NEW l \in Lines PROVE LineBytes[l] \in Seq(Byte)
    <2>1. LineBytes[l] = [j \in 1..Lengths[l] |-> <<l, j>>] BY DEF LineBytes
    <2>2. Lengths[l] \in Nat BY <1>1
    <2>3. [j \in 1..Lengths[l] |-> <<l, j>>] \in [1..Lengths[l] -> Byte] BY <2>2 DEF Byte
    <2> QED BY <2>1, <2>2, <2>3, SeqDef
  <1> QED BY <1>1, <1>2

\* f gives the bytes of each of the first m prefixes of s.
Joins(f, s, m) ==
    f = [i \in 0..m |-> IF i = 0 THEN <<>> ELSE f[i - 1] \o LineBytes[s[i]]]

\* The recursion of Bytes has a solution.
LEMMA JoinsExists ==
    ASSUME NEW s \in Seq(Lines)
    PROVE  \E f : Joins(f, s, Len(s))
  <1> DEFINE n == Len(s)
             S == {m \in 0..n : \E f : Joins(f, s, m)}
  <1>1. n \in Nat OBVIOUS
  <1> HIDE DEF n
  <1>2. 0 \in S
    <2>1. Joins([i \in 0..0 |-> <<>>], s, 0) BY DEF Joins
    <2>2. 0 \in 0..n BY <1>1
    <2> QED BY <2>1, <2>2
  <1>3. ASSUME NEW m \in 0..(n - 1), m \in S PROVE m + 1 \in S
    <2>1. PICK f : Joins(f, s, m) BY <1>3
    <2> DEFINE g == [i \in 0..(m + 1) |-> IF i <= m THEN f[i] ELSE f[m] \o LineBytes[s[m + 1]]]
    <2>2. m \in Nat BY <1>1
    <2>3. \A i \in 0..m : g[i] = f[i] BY <2>2
    <2>4. g[m + 1] = f[m] \o LineBytes[s[m + 1]] BY <2>2
    <2>5. \A i \in 0..m : f[i] = IF i = 0 THEN <<>> ELSE f[i - 1] \o LineBytes[s[i]]
      BY <2>1 DEF Joins
    <2>6. g = [i \in 0..(m + 1) |-> g[i]] OBVIOUS
    <2> HIDE DEF g
    <2>7. ASSUME NEW i \in 0..(m + 1)
          PROVE  g[i] = IF i = 0 THEN <<>> ELSE g[i - 1] \o LineBytes[s[i]]
      <3>1. CASE i \in 0..m
        <4>1. i # 0 => i - 1 \in 0..m BY <2>2
        <4> QED BY <2>3, <2>5, <3>1, <4>1
      <3>2. CASE i = m + 1
        <4>1. i # 0 /\ i - 1 = m /\ m \in 0..m BY <2>2, <3>2
        <4> QED BY <2>3, <2>4, <3>2, <4>1
      <3> QED BY <2>2, <3>1, <3>2
    <2>8. Joins(g, s, m + 1) BY <2>6, <2>7 DEF Joins
    <2>9. m + 1 \in 0..n BY <1>1
    <2> QED BY <2>8, <2>9
  <1>4. 0..n \subseteq S
    <2> HIDE DEF S
    <2> QED BY <1>1, <1>2, <1>3, UpTo
  <1>5. n \in S BY <1>1, <1>4
  <1> QED BY <1>5 DEF n

\* Bytes is the last of the prefixes' values; each is a sequence of bytes.
LEMMA BytesJoins ==
    ASSUME NEW s \in Seq(Lines)
    PROVE  \E f : /\ Bytes(s) = f[Len(s)] /\ f[0] = <<>>
                  /\ \A i \in 1..Len(s) : f[i] = f[i - 1] \o LineBytes[s[i]]
                  /\ \A i \in 0..Len(s) : f[i] \in Seq(Byte)
  <1> DEFINE b == CHOOSE f : f = [i \in 0..Len(s) |->
                         IF i = 0 THEN <<>> ELSE f[i - 1] \o LineBytes[s[i]]]
             n == Len(s)
             S == {m \in 0..n : b[m] \in Seq(Byte)}
  <1>1. \E f : f = [i \in 0..Len(s) |-> IF i = 0 THEN <<>> ELSE f[i - 1] \o LineBytes[s[i]]]
    <2>1. PICK f : Joins(f, s, Len(s)) BY JoinsExists
    <2> QED BY <2>1, Zenon DEF Joins
  <1>2. b = [i \in 0..Len(s) |-> IF i = 0 THEN <<>> ELSE b[i - 1] \o LineBytes[s[i]]]
    BY <1>1, Zenon
  <1>3. Bytes(s) = b[Len(s)]
    BY Zenon DEF Bytes
  <1>4. n \in Nat /\ \A i \in 1..n : s[i] \in Lines OBVIOUS
  <1> HIDE DEF b, n
  <1>5. \A i \in 0..n : b[i] = IF i = 0 THEN <<>> ELSE b[i - 1] \o LineBytes[s[i]]
    BY <1>2 DEF n
  <1>6. b[0] = <<>> /\ \A i \in 1..n : b[i] = b[i - 1] \o LineBytes[s[i]]
    <2>1. 0 \in 0..n /\ \A i \in 1..n : i \in 0..n /\ i # 0 BY <1>4
    <2> QED BY <1>5, <2>1
  <1>7. 0 \in S
    <2>1. 0 \in 0..n /\ <<>> \in Seq(Byte) BY <1>4, EmptySeq
    <2> QED BY <1>6, <2>1
  <1>8. ASSUME NEW m \in 0..(n - 1), m \in S PROVE m + 1 \in S
    <2>1. m + 1 \in 0..n /\ m + 1 \in 1..n /\ (m + 1) - 1 = m BY <1>4
    <2>2. b[m + 1] = b[m] \o LineBytes[s[m + 1]] BY <1>6, <2>1
    <2>3. b[m] \in Seq(Byte) BY <1>8
    <2>4. LineBytes[s[m + 1]] \in Seq(Byte) BY <1>4, <2>1, LineTypes
    <2>5. b[m + 1] \in Seq(Byte) BY <2>2, <2>3, <2>4, ConcatProperties
    <2> QED BY <2>1, <2>5
  <1>9. 0..n \subseteq S
    <2> HIDE DEF S
    <2> QED BY <1>4, <1>7, <1>8, UpTo
  <1>10. \A i \in 0..n : b[i] \in Seq(Byte) BY <1>9
  <1> QED BY <1>3, <1>6, <1>10 DEF n

LEMMA BytesEmpty == Bytes(<<>>) = <<>>
  <1>1. <<>> \in Seq(Lines) /\ Len(<<>>) = 0 BY EmptySeq
  <1> QED BY <1>1, BytesJoins

\* f is the bytes of the prefixes of s up to k; t is s up to there.
Grows(f, s, k) == f[0] = <<>> /\ \A i \in 1..k : f[i] = f[i - 1] \o LineBytes[s[i]]
Agree(s, t, k) == \A i \in 1..k : s[i] = t[i]

LEMMA JoinsAgree ==
    ASSUME NEW k \in Nat, NEW s, NEW t, Agree(s, t, k),
           NEW f, Grows(f, s, k), NEW g, Grows(g, t, k)
    PROVE  f[k] = g[k]
  <1> DEFINE S == {i \in 0..k : f[i] = g[i]}
  <1>1. 0 \in S BY DEF Grows
  <1>2. ASSUME NEW i \in 0..(k - 1), i \in S PROVE i + 1 \in S
    <2>1. i + 1 \in 0..k /\ i + 1 \in 1..k /\ (i + 1) - 1 = i OBVIOUS
    <2>2. f[i + 1] = f[i] \o LineBytes[s[i + 1]] /\ g[i + 1] = g[i] \o LineBytes[t[i + 1]]
      BY <2>1 DEF Grows
    <2>3. s[i + 1] = t[i + 1] BY <2>1 DEF Agree
    <2> QED BY <1>2, <2>1, <2>2, <2>3
  <1>3. 0..k \subseteq S
    <2> HIDE DEF S
    <2> QED BY <1>1, <1>2, UpTo
  <1> QED BY <1>3

\* Bytes of a line more.
LEMMA BytesAppend ==
    ASSUME NEW s \in Seq(Lines), NEW l \in Lines
    PROVE  Bytes(Append(s, l)) = Bytes(s) \o LineBytes[l]
  <1> DEFINE t == Append(s, l)
             n == Len(s)
  <1>1. /\ n \in Nat /\ t \in Seq(Lines) /\ Len(t) = n + 1 /\ t[n + 1] = l
        /\ \A i \in 1..n : s[i] = t[i]
    OBVIOUS
  <1>2. PICK f : /\ Bytes(s) = f[n] /\ f[0] = <<>>
                 /\ \A i \in 1..n : f[i] = f[i - 1] \o LineBytes[s[i]]
    BY BytesJoins
  <1> HIDE DEF t, n
  <1>3. PICK g : /\ Bytes(t) = g[n + 1] /\ g[0] = <<>>
                 /\ \A i \in 1..(n + 1) : g[i] = g[i - 1] \o LineBytes[t[i]]
    <2>1. PICK g : /\ Bytes(t) = g[Len(t)] /\ g[0] = <<>>
                   /\ \A i \in 1..Len(t) : g[i] = g[i - 1] \o LineBytes[t[i]]
      <3>1. t \in Seq(Lines) BY <1>1
      <3> QED BY <3>1, BytesJoins
    <2>2. Len(t) = n + 1 BY <1>1
    <2> QED BY <2>1, <2>2, Zenon
  <1>4. \A i \in 1..n : g[i] = g[i - 1] \o LineBytes[t[i]]
    <2>1. \A i \in 1..n : i \in 1..(n + 1) BY <1>1
    <2> QED BY <1>3, <2>1, Zenon
  <1>5. f[n] = g[n]
    <2>1. n \in Nat /\ Agree(s, t, n) BY <1>1 DEF Agree
    <2>2. Grows(f, s, n) BY <1>2, Zenon DEF Grows
    <2>3. Grows(g, t, n) BY <1>3, <1>4, Zenon DEF Grows
    <2> QED BY <2>1, <2>2, <2>3, JoinsAgree
  <1>6. n + 1 \in 1..(n + 1) /\ (n + 1) - 1 = n BY <1>1
  <1>7. g[n + 1] = g[n] \o LineBytes[l] BY <1>1, <1>3, <1>6
  <1> QED BY <1>2, <1>3, <1>5, <1>7 DEF t

\* Bytes of the first k lines, then of the others.
LEMMA BytesSplit ==
    ASSUME NEW s \in Seq(Lines), NEW k \in 0..Len(s)
    PROVE  /\ SubSeq(s, 1, k) \in Seq(Lines) /\ SubSeq(s, k + 1, Len(s)) \in Seq(Lines)
           /\ Bytes(s) \in Seq(Byte)
           /\ Bytes(SubSeq(s, 1, k)) \in Seq(Byte)
           /\ Bytes(SubSeq(s, k + 1, Len(s))) \in Seq(Byte)
           /\ Bytes(s) = Bytes(SubSeq(s, 1, k)) \o Bytes(SubSeq(s, k + 1, Len(s)))
  <1> DEFINE n == Len(s)
             p == SubSeq(s, 1, k)
             r == SubSeq(s, k + 1, n)
             m == n - k
  <1>1. /\ n \in Nat /\ k \in Nat /\ m \in Nat /\ n = k + m
        /\ p \in Seq(Lines) /\ Len(p) = k /\ r \in Seq(Lines) /\ Len(r) = m
        /\ \A i \in 1..k : p[i] = s[i]
        /\ \A i \in 1..m : r[i] = s[k + i]
        /\ \A i \in 1..n : s[i] \in Lines
    <2>1. n \in Nat /\ k \in 0..n /\ \A i \in 1..n : s[i] \in Lines OBVIOUS
    <2> HIDE DEF n
    <2>2. k \in Nat /\ m \in Nat /\ n = k + m BY <2>1
    <2>3. \A i \in 1..k : s[i] \in Lines BY <2>1
    <2>4. \A i \in (k + 1)..n : s[i] \in Lines BY <2>1
    <2>5. /\ p \in Seq(Lines) /\ Len(p) = k
          /\ \A i \in 1..k : p[i] = s[i]
      BY <2>2, <2>3, SubSeqProperties
    <2>6. /\ r \in Seq(Lines) /\ Len(r) = m
          /\ \A i \in 1..m : r[i] = s[k + i]
      BY <2>2, <2>4, SubSeqProperties
    <2> QED BY <2>1, <2>2, <2>5, <2>6
  <1>2. PICK f : /\ Bytes(s) = f[n] /\ f[0] = <<>>
                 /\ \A i \in 1..n : f[i] = f[i - 1] \o LineBytes[s[i]]
                 /\ \A i \in 0..n : f[i] \in Seq(Byte)
    BY BytesJoins
  <1> HIDE DEF p, r, n, m
  <1>3. PICK h : /\ Bytes(p) = h[k] /\ h[0] = <<>>
                 /\ \A i \in 1..k : h[i] = h[i - 1] \o LineBytes[p[i]]
                 /\ \A i \in 0..k : h[i] \in Seq(Byte)
    BY <1>1, BytesJoins
  <1>4. PICK g : /\ Bytes(r) = g[m] /\ g[0] = <<>>
                 /\ \A i \in 1..m : g[i] = g[i - 1] \o LineBytes[r[i]]
                 /\ \A i \in 0..m : g[i] \in Seq(Byte)
    BY <1>1, BytesJoins
  <1>5. f[k] = h[k]
    <2>1. \A i \in 1..k : i \in 1..n BY <1>1
    <2>2. Grows(f, s, k) BY <1>2, <2>1, Zenon DEF Grows
    <2>3. k \in Nat /\ Agree(s, p, k) BY <1>1 DEF Agree
    <2>4. Grows(h, p, k) BY <1>3, Zenon DEF Grows
    <2> QED BY <2>2, <2>3, <2>4, JoinsAgree
  <1>6. h[k] \in Seq(Byte) /\ f[n] \in Seq(Byte) /\ g[m] \in Seq(Byte)
    BY <1>1, <1>2, <1>3, <1>4
  <1> DEFINE S == {i \in 0..m : f[k + i] = h[k] \o g[i]}
  <1>7. 0 \in S
    <2>1. h[k] \o <<>> = h[k] BY <1>6, ConcatEmptySeq
    <2>2. 0 \in 0..m /\ k + 0 = k BY <1>1
    <2> QED BY <1>4, <1>5, <2>1, <2>2
  <1>8. ASSUME NEW i \in 0..(m - 1), i \in S PROVE i + 1 \in S
    <2>1. /\ i \in 0..m /\ i + 1 \in 0..m /\ i + 1 \in 1..m /\ (i + 1) - 1 = i /\ k + (i + 1) \in 1..n
          /\ (k + (i + 1)) - 1 = k + i
      BY <1>1
    <2>2. f[k + (i + 1)] = f[k + i] \o LineBytes[s[k + (i + 1)]]
      BY <1>2, <2>1
    <2>3. g[i + 1] = g[i] \o LineBytes[s[k + (i + 1)]]
      BY <1>1, <1>4, <2>1
    <2>4. f[k + i] = h[k] \o g[i] BY <1>8
    <2>5. LineBytes[s[k + (i + 1)]] \in Seq(Byte) BY <1>1, <2>1, LineTypes
    <2>6. g[i] \in Seq(Byte) BY <1>4, <2>1
    <2>7. (h[k] \o g[i]) \o LineBytes[s[k + (i + 1)]] = h[k] \o (g[i] \o LineBytes[s[k + (i + 1)]])
      <3> DEFINE x == h[k]  y == g[i]  z == LineBytes[s[k + (i + 1)]]
      <3>1. x \in Seq(Byte) /\ y \in Seq(Byte) /\ z \in Seq(Byte) BY <1>6, <2>5, <2>6
      <3> HIDE DEF x, y, z
      <3>2. (x \o y) \o z = x \o (y \o z) BY <3>1, ConcatAssociative
      <3> QED BY <3>2 DEF x, y, z
    <2>8. f[k + (i + 1)] = h[k] \o g[i + 1]
      BY <2>2, <2>3, <2>4, <2>7, Zenon
    <2> QED BY <2>1, <2>8
  <1>9. 0..m \subseteq S
    <2> HIDE DEF S
    <2> QED BY <1>1, <1>7, <1>8, UpTo
  <1>10. f[n] = h[k] \o g[m]
    <2>1. m \in 0..m /\ n = k + m BY <1>1
    <2>2. m \in S BY <1>9, <2>1, Zenon
    <2> QED BY <2>1, <2>2
  <1> QED BY <1>1, <1>2, <1>3, <1>4, <1>6, <1>10 DEF p, r, n

-----------------------------------------------------------------------------
(* What is left of a sequence of bytes from a place on.                     *)

Rest(A, o) == SubSeq(A, o + 1, Len(A))

LEMMA RestWhole == \A A \in Seq(Byte) : Rest(A, 0) = A
  BY SubSeqFull DEF Rest

LEMMA RestSplit ==
    ASSUME NEW A \in Seq(Byte), NEW e \in 0..Len(A), NEW o \in 0..e
    PROVE  /\ SubSeq(A, o + 1, e) \in Seq(Byte) /\ Rest(A, o) \in Seq(Byte)
           /\ Rest(A, o) = SubSeq(A, o + 1, e) \o Rest(A, e)
  <1>1. Len(A) \in Nat OBVIOUS
  <1>2. /\ o + 1 \in 1..(Len(A) + 1) /\ e \in ((o + 1) - 1)..Len(A)
        /\ Len(A) \in e..Len(A)
    BY <1>1
  <1>3. Rest(A, o) = SubSeq(A, o + 1, e) \o Rest(A, e)
    BY <1>2, ConcatAdjacentSubSeq DEF Rest
  <1>4. /\ \A i \in (o + 1)..e : A[i] \in Byte
        /\ \A i \in (o + 1)..Len(A) : A[i] \in Byte
        /\ o + 1 \in Int /\ e \in Int /\ Len(A) \in Int
    <2>1. \A i \in 1..Len(A) : A[i] \in Byte OBVIOUS
    <2>2. (o + 1)..e \subseteq 1..Len(A) /\ (o + 1)..Len(A) \subseteq 1..Len(A) BY <1>1
    <2> QED BY <1>1, <2>1, <2>2
  <1>5. SubSeq(A, o + 1, e) \in Seq(Byte) /\ SubSeq(A, o + 1, Len(A)) \in Seq(Byte)
    BY <1>4, SubSeqProperties
  <1> QED BY <1>3, <1>5 DEF Rest

\* Behind the end of the first of two sequences lies the second.
LEMMA RestOfSecond ==
    ASSUME NEW P \in Seq(Byte), NEW R \in Seq(Byte), NEW e \in Len(P)..(Len(P) + Len(R))
    PROVE  Rest(P \o R, e) = Rest(R, e - Len(P))
  <1>1. Len(P \o R) = Len(P) + Len(R) /\ Len(P) \in Nat /\ Len(R) \in Nat OBVIOUS
  <1>2. CASE e = Len(P) + Len(R)
    BY <1>1, <1>2, SubSeqEmpty DEF Rest
  <1>3. CASE e < Len(P) + Len(R)
    <2>1. /\ e + 1 \in (Len(P) + 1)..(Len(P) + Len(R))
          /\ Len(P) + Len(R) \in (Len(P) + 1)..(Len(P) + Len(R))
          /\ (e + 1) - Len(P) = (e - Len(P)) + 1 /\ (Len(P) + Len(R)) - Len(P) = Len(R)
      BY <1>1, <1>3
    <2> QED BY <1>1, <2>1, SubSeqOfConcat2 DEF Rest
  <1> QED BY <1>1, <1>2, <1>3

\* What is appended is left, too.
LEMMA RestAppend ==
    ASSUME NEW A \in Seq(Byte), NEW B \in Seq(Byte), NEW o \in 0..Len(A)
    PROVE  Rest(A \o B, o) = Rest(A, o) \o B
  <1> DEFINE c == A \o B
  <1>1. /\ c \in Seq(Byte) /\ Len(c) = Len(A) + Len(B) /\ Len(A) \in Nat /\ Len(B) \in Nat
        /\ Len(A) \in 0..Len(c) /\ o \in 0..Len(A)
    OBVIOUS
  <1>2. Rest(c, o) = SubSeq(c, o + 1, Len(A)) \o Rest(c, Len(A))
    <2> HIDE DEF c
    <2> QED BY <1>1, RestSplit
  <1>3. Rest(c, Len(A)) = B
    BY <1>1, RestOfSecond, RestWhole
  <1>4. SubSeq(c, o + 1, Len(A)) = Rest(A, o)
    <2>1. CASE o = Len(A) BY <1>1, <2>1, SubSeqEmpty DEF Rest
    <2>2. CASE o < Len(A)
      <3>1. o + 1 \in 1..Len(A) /\ Len(A) \in 1..Len(A) BY <1>1, <2>2
      <3> QED BY <3>1, SubSeqOfConcat1 DEF Rest
    <2> QED BY <1>1, <2>1, <2>2
  <1> QED BY <1>2, <1>3, <1>4 DEF c

-----------------------------------------------------------------------------
(* Parts of a queue.                                                        *)

\* A set of numbers up to n that is not empty has a largest one.
LEMMA Largest ==
    ASSUME NEW n \in Nat, NEW S \in SUBSET (0..n), S # {}
    PROVE  Max(S) \in S
  <1>1. SUFFICES \E x \in S : \A y \in S : x >= y
    BY DEF Max
  <1>2. SUFFICES ASSUME \A x \in S : \E y \in S : ~(x >= y) PROVE FALSE
    OBVIOUS
  <1> DEFINE T == {i \in 0..n : \E x \in S : x >= i}
  <1>3. 0 \in T
    <2>1. PICK x \in S : TRUE OBVIOUS
    <2>2. x >= 0 /\ 0 \in 0..n BY <2>1
    <2> QED BY <2>2
  <1>4. ASSUME NEW i \in 0..(n - 1), i \in T PROVE i + 1 \in T
    <2>1. PICK x \in S : x >= i BY <1>4
    <2>2. PICK y \in S : ~(x >= y) BY <1>2
    <2>3. y >= i + 1 /\ i + 1 \in 0..n BY <2>1, <2>2
    <2> QED BY <2>3
  <1>5. 0..n \subseteq T
    <2> HIDE DEF T
    <2> QED BY <1>3, <1>4, UpTo
  <1>6. n \in 0..n OBVIOUS
  <1>7. n \in T BY <1>5, <1>6, Zenon
  <1>8. PICK x \in S : x >= n BY <1>7
  <1>9. PICK y \in S : ~(x >= y) BY <1>2
  <1> QED BY <1>8, <1>9

\* The smaller of two numbers.
LEMMA Smaller ==
    ASSUME NEW a \in Nat, NEW b \in Nat
    PROVE  Min({a, b}) = IF a <= b THEN a ELSE b
  <1> DEFINE m == IF a <= b THEN a ELSE b
  <1>1. m \in {a, b} /\ \A y \in {a, b} : m =< y OBVIOUS
  <1>2. \A x \in {a, b} : (\A y \in {a, b} : x =< y) => x = m OBVIOUS
  <1> HIDE DEF m
  <1>3. Min({a, b}) = m BY <1>1, <1>2 DEF Min
  <1> QED BY <1>3 DEF m

\* A queue without doubles, cut in two.
LEMMA CutQueue ==
    ASSUME NEW s \in Seq(Lines), NEW k \in 0..Len(s), Distinct(s)
    PROVE  /\ Distinct(SubSeq(s, k + 1, Len(s)))
           /\ ToSet(SubSeq(s, 1, k)) \subseteq ToSet(s)
           /\ ToSet(SubSeq(s, k + 1, Len(s))) = ToSet(s) \ ToSet(SubSeq(s, 1, k))
  <1> DEFINE n == Len(s)
             p == SubSeq(s, 1, k)
             r == SubSeq(s, k + 1, n)
             m == n - k
  <1>1. /\ n \in Nat /\ k \in Nat /\ m \in Nat /\ n = k + m
        /\ p \in Seq(Lines) /\ Len(p) = k /\ r \in Seq(Lines) /\ Len(r) = m
        /\ \A i \in 1..k : p[i] = s[i]
        /\ \A i \in 1..m : r[i] = s[k + i]
    <2>1. n \in Nat /\ k \in 0..n /\ \A i \in 1..n : s[i] \in Lines OBVIOUS
    <2> HIDE DEF n
    <2>2. k \in Nat /\ m \in Nat /\ n = k + m BY <2>1
    <2>3. \A i \in 1..k : s[i] \in Lines BY <2>1
    <2>4. \A i \in (k + 1)..n : s[i] \in Lines BY <2>1
    <2>5. /\ p \in Seq(Lines) /\ Len(p) = k
          /\ \A i \in 1..k : p[i] = s[i]
      BY <2>2, <2>3, SubSeqProperties
    <2>6. /\ r \in Seq(Lines) /\ Len(r) = m
          /\ \A i \in 1..m : r[i] = s[k + i]
      BY <2>2, <2>4, SubSeqProperties
    <2> QED BY <2>1, <2>2, <2>5, <2>6
  <1>2. /\ ToSet(s) = {s[i] : i \in 1..n} /\ ToSet(p) = {p[i] : i \in 1..k}
        /\ ToSet(r) = {r[i] : i \in 1..m}
    <2>1. DOMAIN s = 1..n OBVIOUS
    <2> HIDE DEF p, r, n, m
    <2>2. DOMAIN p = 1..Len(p) /\ DOMAIN r = 1..Len(r) BY <1>1
    <2> QED BY <1>1, <2>1, <2>2 DEF ToSet
  <1>3. \A i, j \in 1..n : s[i] = s[j] => i = j BY DEF Distinct
  <1> HIDE DEF p, r, n, m
  <1>4. Distinct(r)
    <2>1. ASSUME NEW i \in 1..m, NEW j \in 1..m, r[i] = r[j] PROVE i = j
      <3>1. k + i \in 1..n /\ k + j \in 1..n BY <1>1
      <3>2. k + i = k + j BY <1>1, <1>3, <2>1, <3>1
      <3> QED BY <1>1, <3>2
    <2> QED BY <1>1, <2>1 DEF Distinct
  <1>5. \A x \in ToSet(p) : x \in ToSet(s)
    <2>1. \A i \in 1..k : i \in 1..n BY <1>1
    <2> QED BY <1>1, <1>2, <2>1
  <1>6. ASSUME NEW x \in ToSet(r) PROVE x \in ToSet(s) /\ x \notin ToSet(p)
    <2>1. PICK i \in 1..m : x = r[i] BY <1>2
    <2>2. k + i \in 1..n /\ k + i > k BY <1>1
    <2>3. x = s[k + i] BY <1>1, <2>1
    <2>4. ASSUME NEW j \in 1..k PROVE p[j] # x
      <3>1. j \in 1..n /\ j # k + i BY <1>1, <2>2
      <3> QED BY <1>1, <1>3, <2>2, <2>3, <3>1
    <2> QED BY <1>2, <2>2, <2>3, <2>4
  <1>7. ASSUME NEW x \in ToSet(s), x \notin ToSet(p) PROVE x \in ToSet(r)
    <2>1. PICK i \in 1..n : x = s[i] BY <1>2
    <2>2. i \notin 1..k BY <1>1, <1>2, <1>7, <2>1
    <2>3. i - k \in 1..m /\ k + (i - k) = i BY <1>1, <2>2
    <2>4. r[i - k] = x BY <1>1, <2>1, <2>3
    <2> QED BY <1>2, <2>3, <2>4
  <1> QED BY <1>4, <1>5, <1>6, <1>7 DEF p, r, n

-----------------------------------------------------------------------------
(* Steps on one connection.                                                 *)

\* A connection between two steps.
Whole(c) ==
    /\ c \in Connection /\ Distinct(c.sendq)
    /\ c.life = "open" => c.writeofs <= Len(Bytes(c.sendq))

Left(c) == Rest(Bytes(c.sendq), c.writeofs)

\* What is written and what is left are what was left, and the bytes of the new
\* line; and the queue has the lines it had, and the new one, but those done.
StepOK(c, e, line) ==
    /\ Whole(e.c)
    /\ e.got \in BOOLEAN /\ e.done \in SUBSET Lines /\ e.out \in Seq(Byte)
    /\ e.c.life = "open" =>
          /\ c.life = "open"
          /\ e.out \o Left(e.c) = IF e.got THEN Left(c) \o LineBytes[line] ELSE Left(c)
    /\ e.done \subseteq ToSet(c.sendq) \cup (IF e.got THEN {line} ELSE {})
    /\ ToSet(e.c.sendq) = (ToSet(c.sendq) \cup (IF e.got THEN {line} ELSE {})) \ e.done

LEMMA BytesType == \A s \in Seq(Lines) : Bytes(s) \in Seq(Byte)
  <1>1. ASSUME NEW s \in Seq(Lines) PROVE Bytes(s) \in Seq(Byte)
    <2>1. 0 \in 0..Len(s) OBVIOUS
    <2> QED BY <2>1, BytesSplit
  <1> QED BY <1>1

\* rb_linebuf_flush(), wherever it ends.
LEMMA FlushOK ==
    ASSUME NEW c, Whole(c), c.life = "open", NEW n \in Nat
    PROVE  LET f == rb_linebuf_flush(c, n)
           IN  /\ StepOK(c, f, NoLineSent)
               /\ f.got = FALSE /\ f.c.life = "open"
  <1> DEFINE s == c.sendq
             o == c.writeofs
             A == Bytes(s)
             e == WriteEnd(c, n)
             S == {k \in 0..Len(s) : Written(s, k) <= e}
             k == LinesDone(c, e)
             P == Bytes(SubSeq(s, 1, k))
             R == Bytes(SubSeq(s, k + 1, Len(s)))
             f == rb_linebuf_flush(c, n)
  <1>1. s \in Seq(Lines) /\ Len(s) \in Nat /\ o \in Nat /\ Distinct(s) /\ c.flush \in BOOLEAN
    BY DEF Whole, Connection
  <1>2. A \in Seq(Byte) /\ Len(A) \in Nat /\ o <= Len(A)
    <2>1. A \in Seq(Byte) BY <1>1, BytesType
    <2> QED BY <2>1 DEF Whole
  <1>3. e \in o..Len(A) /\ e \in Nat
    <2>1. e = Min({o + n, Len(A)}) BY DEF WriteEnd, rb_linebuf_len
    <2>2. o + n \in Nat BY <1>1
    <2> HIDE DEF e, A, o
    <2>3. e = IF o + n <= Len(A) THEN o + n ELSE Len(A) BY <1>2, <2>1, <2>2, Smaller
    <2> QED BY <1>1, <1>2, <2>3
  <1>4. k \in 0..Len(s) /\ Written(s, k) <= e
    <2>1. 0 \in S
      <3>1. SubSeq(s, 1, 0) = <<>> BY SubSeqEmpty
      <3>2. Written(s, 0) = Len(<<>>) BY <3>1, BytesEmpty, Zenon DEF Written
      <3>3. Written(s, 0) = 0 BY <3>2
      <3> QED BY <1>1, <1>3, <3>3
    <2>2. S \in SUBSET (0..Len(s)) /\ S # {} BY <2>1
    <2>3. k = Max(S) BY Zenon DEF LinesDone
    <2>4. Max(S) \in S
      <3> HIDE DEF S
      <3> QED BY <1>1, <2>2, Largest
    <2> QED BY <2>3, <2>4, Zenon
  <1> HIDE DEF e, k
  <1>5. /\ SubSeq(s, 1, k) \in Seq(Lines) /\ SubSeq(s, k + 1, Len(s)) \in Seq(Lines)
        /\ P \in Seq(Byte) /\ R \in Seq(Byte) /\ A = P \o R
    BY <1>1, <1>4, BytesSplit
  <1>6. /\ Distinct(SubSeq(s, k + 1, Len(s)))
        /\ ToSet(SubSeq(s, 1, k)) \subseteq ToSet(s)
        /\ ToSet(SubSeq(s, k + 1, Len(s))) = ToSet(s) \ ToSet(SubSeq(s, 1, k))
    BY <1>1, <1>4, CutQueue
  <1>7. /\ f.c = WithQueue(c, SubSeq(s, k + 1, Len(s)), e - Len(P))
        /\ f.done = ToSet(SubSeq(s, 1, k)) /\ f.got = FALSE /\ f.out = SubSeq(A, o + 1, e)
    BY DEF rb_linebuf_flush, Flushed, Effect, Written, e, k
  <1>8. /\ f.c.life = "open" /\ f.c.sendq = SubSeq(s, k + 1, Len(s))
        /\ f.c.writeofs = e - Len(P) /\ f.c.flush = c.flush
        /\ f.c = [life |-> "open", sendq |-> SubSeq(s, k + 1, Len(s)),
                  writeofs |-> e - Len(P), flush |-> c.flush]
    <2> DEFINE r == SubSeq(s, k + 1, Len(s))
               w == e - Len(P)
    <2>1. f.c = WithQueue(c, r, w) BY <1>7, Zenon
    <2> HIDE DEF f, r, w
    <2>2. f.c = [life |-> "open", sendq |-> r, writeofs |-> w, flush |-> c.flush]
      BY <2>1 DEF WithQueue
    <2>3. f.c.life = "open" /\ f.c.sendq = r /\ f.c.writeofs = w /\ f.c.flush = c.flush
      BY <2>2
    <2> QED BY <2>2, <2>3, Zenon DEF r, w
  <1>9. Len(A) = Len(P) + Len(R) /\ Len(P) \in Nat /\ Len(R) \in Nat /\ Len(P) <= e
    <2> HIDE DEF P, R, A
    <2>1. Len(P) = Written(s, k) BY DEF Written, P
    <2>2. Len(P \o R) = Len(P) + Len(R) /\ Len(P) \in Nat /\ Len(R) \in Nat
      BY <1>5, ConcatProperties, LenProperties
    <2> QED BY <1>4, <1>5, <2>1, <2>2
  <1>10. e - Len(P) \in Nat /\ e - Len(P) <= Len(R) BY <1>3, <1>9
  <1>11. f.out \in Seq(Byte) /\ f.out \o Rest(R, e - Len(P)) = Rest(A, o)
    <2> HIDE DEF P, R, A, o, f
    <2>1. e \in 0..Len(A) /\ o \in 0..e BY <1>1, <1>2, <1>3
    <2>2. SubSeq(A, o + 1, e) \in Seq(Byte) /\ Rest(A, o) = SubSeq(A, o + 1, e) \o Rest(A, e)
      BY <1>2, <2>1, RestSplit
    <2>3. e \in Len(P)..(Len(P) + Len(R)) BY <1>3, <1>9
    <2>4. Rest(A, e) = Rest(R, e - Len(P)) BY <1>5, <2>3, RestOfSecond
    <2> QED BY <1>7, <2>2, <2>4
  <1>12. Whole(f.c)
    <2>1. f.c \in Connection
      <3> HIDE DEF f, P, s
      <3> QED BY <1>1, <1>5, <1>8, <1>10 DEF Connection
    <2>2. f.c.writeofs <= Len(Bytes(f.c.sendq)) BY <1>8, <1>10
    <2> QED BY <1>6, <1>8, <2>1, <2>2 DEF Whole
  <1>13. f.out \o Left(f.c) = Left(c) BY <1>8, <1>11 DEF Left
  <1>14. f.done \in SUBSET Lines
    <2>1. ToSet(s) \subseteq Lines BY <1>1 DEF ToSet
    <2> QED BY <1>6, <1>7, <2>1
  <1>15. /\ f.done \subseteq ToSet(c.sendq) \cup {}
         /\ ToSet(f.c.sendq) = (ToSet(c.sendq) \cup {}) \ f.done
    BY <1>6, <1>7, <1>8
  <1> HIDE DEF f
  <1>16. StepOK(c, f, NoLineSent)
    BY <1>7, <1>8, <1>11, <1>12, <1>13, <1>14, <1>15 DEF StepOK
  <1> QED BY <1>7, <1>8, <1>16 DEF f

\* What is left in the queue of an open connection are bytes.
LEMMA LeftType ==
    ASSUME NEW c, Whole(c), c.life = "open"
    PROVE  Left(c) \in Seq(Byte)
  <1> DEFINE A == Bytes(c.sendq)
  <1>1. A \in Seq(Byte) /\ c.writeofs \in Nat /\ c.writeofs <= Len(A)
    <2>1. c.sendq \in Seq(Lines) /\ c.writeofs \in Nat BY DEF Whole, Connection
    <2> QED BY <2>1, BytesType DEF Whole
  <1> HIDE DEF A
  <1>2. Len(A) \in 0..Len(A) /\ c.writeofs \in 0..Len(A) BY <1>1
  <1>3. Rest(A, c.writeofs) \in Seq(Byte) BY <1>1, <1>2, RestSplit
  <1> QED BY <1>3 DEF Left, A

\* dead_link() and what leaves the queue alone.
LEMMA LivesOK ==
    ASSUME NEW c, Whole(c), NEW life \in {"aborted", "dead"}
    PROVE  /\ Whole(Lives(c, life)) /\ Lives(c, life).life = life
           /\ Lives(c, life).sendq = c.sendq /\ Lives(c, life).writeofs = c.writeofs
  <1>1. c \in Connection BY DEF Whole
  <1>2. /\ Lives(c, life) \in Connection /\ Lives(c, life).life = life
        /\ Lives(c, life).sendq = c.sendq /\ Lives(c, life).writeofs = c.writeofs
    BY <1>1 DEF Lives, Connection
  <1> QED BY <1>2 DEF Whole

LEMMA AwaitsOK ==
    ASSUME NEW c, Whole(c), NEW flush \in BOOLEAN
    PROVE  /\ Whole(Awaits(c, flush)) /\ Awaits(c, flush).flush = flush
           /\ Awaits(c, flush).life = c.life
           /\ Awaits(c, flush).sendq = c.sendq /\ Left(Awaits(c, flush)) = Left(c)
  <1>1. c \in Connection BY DEF Whole
  <1>2. /\ Awaits(c, flush) \in Connection /\ Awaits(c, flush).life = c.life
        /\ Awaits(c, flush).sendq = c.sendq /\ Awaits(c, flush).writeofs = c.writeofs
        /\ Awaits(c, flush).flush = flush
    BY <1>1 DEF Awaits, Connection
  <1> QED BY <1>2 DEF Whole, Left

LEMMA NothingOK ==
    ASSUME NEW c, Whole(c), NEW line, NEW d, d \in {c, dead_link(c)}
    PROVE  StepOK(c, Nothing(d), line) /\ Nothing(d).c = d /\ Nothing(d).got = FALSE
  <1> DEFINE e == Nothing(d)
  <1>1. e.c = d /\ e.done = {} /\ e.got = FALSE /\ e.out = <<>> BY DEF Nothing, Effect
  <1>2. Whole(d) /\ d.sendq = c.sendq /\ (d.life = "open" => d = c)
    BY LivesOK DEF dead_link
  <1>3. <<>> \in Seq(Byte) BY EmptySeq
  <1>4. ASSUME d.life = "open" PROVE c.life = "open" /\ <<>> \o Left(d) = Left(c)
    <2>1. d = c BY <1>2, <1>4
    <2>2. Left(c) \in Seq(Byte) BY <1>4, <2>1, LeftType
    <2> QED BY <1>4, <2>1, <2>2, ConcatEmptySeq
  <1> HIDE DEF e
  <1>5. StepOK(c, e, line) BY <1>1, <1>2, <1>3, <1>4 DEF StepOK
  <1> QED BY <1>1, <1>5 DEF e

\* A write event is awaited for what an open connection has in its queue.
Awaited(c) == c.life = "open" /\ c.sendq # <<>> => c.flush

\* send_queued(), on a socket that takes any number of bytes and may fail.
LEMMA SendQueuedOK ==
    ASSUME NEW c, Whole(c), NEW socket, socket.takes \in Nat, socket.fails \in BOOLEAN,
           NEW closing \in BOOLEAN
    PROVE  LET e == send_queued(c, socket, closing)
           IN  /\ StepOK(c, e, NoLineSent) /\ e.got = FALSE
               /\ ~closing => Awaited(e.c)
  <1> DEFINE e == send_queued(c, socket, closing)
             f == rb_linebuf_flush(c, socket.takes)
             left == f.c.sendq # <<>>
             after == IF ~(socket.fails /\ left) THEN Awaits(f.c, left)
                      ELSE IF closing THEN f.c ELSE dead_link(f.c)
             idle == c.life # "open" \/ c.flush \/ c.sendq = <<>>
  <1>1. CASE idle
    <2>1. e = Nothing(c) BY <1>1 DEF send_queued
    <2>2. Awaited(c)
      <3>1. c.flush \in BOOLEAN BY DEF Whole, Connection
      <3> QED BY <1>1, <3>1 DEF Awaited
    <2>3. StepOK(c, Nothing(c), NoLineSent) /\ Nothing(c).c = c /\ Nothing(c).got = FALSE
      BY NothingOK
    <2> QED BY <2>1, <2>2, <2>3
  <1>2. CASE ~idle
    <2>1. e = Effect(after, f.done, FALSE, f.out) BY <1>2 DEF send_queued
    <2>2. StepOK(c, f, NoLineSent) /\ f.got = FALSE /\ f.c.life = "open"
      BY <1>2, FlushOK
    <2>3. e.c = after /\ e.done = f.done /\ e.got = FALSE /\ e.out = f.out
      <3> HIDE DEF e, f, after
      <3> QED BY <2>1 DEF Effect
    <2> HIDE DEF e, f
    <2>4. left \in BOOLEAN /\ Whole(f.c) BY <2>2 DEF StepOK
    <2>5. /\ Whole(after) /\ after.sendq = f.c.sendq
          /\ after.life = "open" => Left(after) = Left(f.c)
          /\ ~closing => Awaited(after)
      <3>1. CASE ~(socket.fails /\ left)
        <4>1. after = Awaits(f.c, left) BY <3>1
        <4> HIDE DEF after
        <4>2. /\ Whole(after) /\ after.flush = left /\ after.sendq = f.c.sendq
              /\ Left(after) = Left(f.c)
          BY <2>4, <4>1, AwaitsOK
        <4> QED BY <4>2 DEF Awaited
      <3>2. CASE socket.fails /\ left /\ closing
        <4>1. after = f.c BY <3>2
        <4> QED BY <2>4, <3>2, <4>1
      <3>3. CASE socket.fails /\ left /\ ~closing
        <4>1. after = Lives(f.c, "aborted") BY <3>3 DEF dead_link
        <4> HIDE DEF after
        <4>2. Whole(after) /\ after.life = "aborted" /\ after.sendq = f.c.sendq
          BY <2>4, <4>1, LivesOK
        <4> QED BY <4>2 DEF Awaited
      <3> QED BY <3>1, <3>2, <3>3
    <2> HIDE DEF after
    <2>6. StepOK(c, e, NoLineSent)
      BY <1>2, <2>2, <2>3, <2>5 DEF StepOK
    <2> QED BY <2>3, <2>5, <2>6 DEF e
  <1> QED BY <1>1, <1>2

\* rb_linebuf_attach(): a new line at the end of a queue.
LEMMA AttachOK ==
    ASSUME NEW c, Whole(c), c.life = "open", NEW l \in Lines, l \notin ToSet(c.sendq)
    PROVE  LET d == WithQueue(c, Append(c.sendq, l), c.writeofs)
           IN  /\ Whole(d) /\ d.life = "open"
               /\ ToSet(d.sendq) = ToSet(c.sendq) \cup {l}
               /\ Left(d) = Left(c) \o LineBytes[l]
  <1> DEFINE s == c.sendq
             t == Append(s, l)
             n == Len(s)
             A == Bytes(s)
             o == c.writeofs
             d == WithQueue(c, t, o)
  <1>1. /\ s \in Seq(Lines) /\ n \in Nat /\ o \in Nat /\ c.flush \in BOOLEAN
        /\ \A i, j \in 1..n : s[i] = s[j] => i = j
    BY DEF Whole, Connection, Distinct
  <1>2. /\ t \in Seq(Lines) /\ Len(t) = n + 1 /\ t[n + 1] = l
        /\ \A i \in 1..n : t[i] = s[i]
    BY <1>1
  <1>3. /\ d = [life |-> "open", sendq |-> t, writeofs |-> o, flush |-> c.flush]
        /\ d.life = "open" /\ d.sendq = t /\ d.writeofs = o
    <2> HIDE DEF t, o
    <2> QED BY DEF WithQueue
  <1>4. A \in Seq(Byte) /\ Len(A) \in Nat /\ o <= Len(A) /\ LineBytes[l] \in Seq(Byte)
        /\ Bytes(t) = A \o LineBytes[l]
    <2>1. A \in Seq(Byte) /\ LineBytes[l] \in Seq(Byte) BY <1>1, BytesType, LineTypes
    <2>2. Bytes(t) = A \o LineBytes[l] BY <1>1, BytesAppend
    <2> QED BY <2>1, <2>2 DEF Whole
  <1>5. ToSet(s) = {s[i] : i \in 1..n} /\ ToSet(t) = {t[i] : i \in 1..(n + 1)}
    <2>1. DOMAIN s = 1..n BY <1>1
    <2> HIDE DEF t, n
    <2>2. DOMAIN t = 1..Len(t) BY <1>2
    <2> QED BY <1>2, <2>1, <2>2 DEF ToSet
  <1> HIDE DEF t, n, d, o, A
  <1>6. Distinct(t)
    <2>1. ASSUME NEW i \in 1..(n + 1), NEW j \in 1..(n + 1), t[i] = t[j] PROVE i = j
      <3>1. \A k \in 1..n : t[k] # l BY <1>2, <1>5
      <3>2. \A k \in 1..(n + 1) : k \in 1..n \/ k = n + 1 BY <1>1
      <3> QED BY <1>1, <1>2, <2>1, <3>1, <3>2
    <2> QED BY <1>2, <2>1 DEF Distinct
  <1>7. ToSet(t) = ToSet(s) \cup {l}
    <2>1. \A k \in 1..(n + 1) : k \in 1..n \/ k = n + 1 BY <1>1
    <2>2. n + 1 \in 1..(n + 1) /\ \A k \in 1..n : k \in 1..(n + 1) BY <1>1
    <2>3. ASSUME NEW x \in ToSet(t) PROVE x \in ToSet(s) \cup {l} BY <1>2, <1>5, <2>1
    <2>4. ASSUME NEW x \in ToSet(s) \cup {l} PROVE x \in ToSet(t) BY <1>2, <1>5, <2>2
    <2> QED BY <2>3, <2>4
  <1>8. o \in 0..Len(A) BY <1>1, <1>4
  <1>9. Rest(Bytes(t), o) = Rest(A, o) \o LineBytes[l]
    BY <1>4, <1>8, RestAppend
  <1>10. o <= Len(Bytes(t)) BY <1>4, <1>8, ConcatProperties, LenProperties
  <1>11. Whole(d)
    <2>1. d \in Connection BY <1>1, <1>2, <1>3 DEF Connection
    <2> QED BY <1>3, <1>6, <1>10, <2>1 DEF Whole
  <1>12. Left(d) = Left(c) \o LineBytes[l] BY <1>3, <1>9 DEF Left, A, o
  <1>13. Whole(d) /\ d.life = "open" /\ ToSet(d.sendq) = ToSet(s) \cup {l}
    BY <1>3, <1>7, <1>11
  <1> QED BY <1>12, <1>13 DEF d, t, o

\* send_linebuf(), with a line that is in no queue.
LEMMA SendLinebufOK ==
    ASSUME NEW c, Whole(c), Awaited(c), NEW l \in Lines, l \notin ToSet(c.sendq),
           NEW socket, socket.takes \in Nat, socket.fails \in BOOLEAN,
           NEW closing \in BOOLEAN
    PROVE  LET e == send_linebuf(c, l, socket, closing)
           IN  StepOK(c, e, l) /\ (~closing => Awaited(e.c))
  <1> DEFINE e == send_linebuf(c, l, socket, closing)
             d == WithQueue(c, Append(c.sendq, l), c.writeofs)
             f == send_queued(d, socket, closing)
  <1>1. CASE c.life # "open"
    <2>1. e = Nothing(c) BY <1>1 DEF send_linebuf
    <2>2. StepOK(c, Nothing(c), l) /\ Nothing(c).c = c BY NothingOK
    <2> QED BY <2>1, <2>2
  <1>2. CASE c.life = "open" /\ rb_linebuf_len(c) > MaxSendq
    <2> DEFINE g == IF closing THEN c ELSE dead_link(c)
    <2>1. e = Nothing(g) BY <1>2 DEF send_linebuf
    <2>2. g \in {c, dead_link(c)} OBVIOUS
    <2>3. StepOK(c, Nothing(g), l) /\ Nothing(g).c = g
      <3> HIDE DEF g
      <3> QED BY <2>2, NothingOK
    <2>4. ~closing => Awaited(g)
      <3>1. ASSUME ~closing PROVE g = Lives(c, "aborted") BY <3>1 DEF dead_link
      <3>2. Lives(c, "aborted").life = "aborted" BY LivesOK
      <3> QED BY <3>1, <3>2 DEF Awaited
    <2> QED BY <2>1, <2>3, <2>4
  <1>3. CASE c.life = "open" /\ ~(rb_linebuf_len(c) > MaxSendq)
    <2>1. e = Effect(f.c, f.done, TRUE, f.out) BY <1>3 DEF send_linebuf
    <2>2. /\ Whole(d) /\ d.life = "open"
          /\ ToSet(d.sendq) = ToSet(c.sendq) \cup {l}
          /\ Left(d) = Left(c) \o LineBytes[l]
      BY <1>3, AttachOK
    <2> HIDE DEF d
    <2>3. StepOK(d, f, NoLineSent) /\ f.got = FALSE /\ (~closing => Awaited(f.c))
      BY <2>2, SendQueuedOK
    <2> HIDE DEF e, f
    <2>4. e.c = f.c /\ e.done = f.done /\ e.got = TRUE /\ e.out = f.out
      BY <2>1 DEF Effect
    <2>5. StepOK(c, e, l)
      BY <1>3, <2>2, <2>3, <2>4 DEF StepOK
    <2> QED BY <2>3, <2>4, <2>5 DEF e
  <1> QED BY <1>1, <1>2, <1>3

\* close_connection() drops what is left.
LEMMA CloseOK ==
    ASSUME NEW c, Whole(c)
    PROVE  LET e == close_sendq(c)
           IN  /\ StepOK(c, e, NoLineSent) /\ e.got = FALSE
               /\ e.c.life = "dead" /\ e.c.sendq = <<>>
  <1> DEFINE e == close_sendq(c)
             f == send_queued(c, Broken, TRUE)
             d == WithQueue(f.c, <<>>, f.c.writeofs)
             g == Awaits(Lives(d, "dead"), FALSE)
  <1>1. e = Effect(g, f.done \cup ToSet(f.c.sendq), FALSE, f.out)
    BY DEF close_sendq
  <1>2. StepOK(c, f, NoLineSent) /\ f.got = FALSE
    <2>1. Broken.takes \in Nat /\ Broken.fails \in BOOLEAN /\ TRUE \in BOOLEAN BY DEF Broken
    <2> QED BY <2>1, SendQueuedOK
  <1> HIDE DEF e, f
  <1>3. /\ f.c \in Connection /\ f.done \in SUBSET Lines /\ f.out \in Seq(Byte)
        /\ f.done \subseteq ToSet(c.sendq) /\ ToSet(f.c.sendq) = ToSet(c.sendq) \ f.done
    BY <1>2 DEF StepOK, Whole
  <1>4. ToSet(f.c.sendq) \subseteq Lines
    <2>1. f.c.sendq \in Seq(Lines) BY <1>3 DEF Connection
    <2> QED BY <2>1 DEF ToSet
  <1>5. /\ g \in Connection /\ g.life = "dead" /\ g.sendq = <<>>
    <2>1. d = [life |-> f.c.life, sendq |-> <<>>, writeofs |-> f.c.writeofs, flush |-> f.c.flush]
      BY DEF WithQueue
    <2>2. f.c.life \in {"open", "aborted", "dead"} /\ f.c.writeofs \in Nat /\ f.c.flush \in BOOLEAN
      BY <1>3 DEF Connection
    <2>3. <<>> \in Seq(Lines) BY EmptySeq
    <2> HIDE DEF d
    <2>4. d \in Connection /\ d.sendq = <<>>
      BY <2>1, <2>2, <2>3 DEF Connection
    <2> DEFINE h == Lives(d, "dead")
    <2>5. h \in Connection /\ h.sendq = <<>> /\ h.life = "dead"
      BY <2>4 DEF Lives, Connection
    <2> HIDE DEF h
    <2>6. Awaits(h, FALSE) \in Connection /\ Awaits(h, FALSE).sendq = <<>>
          /\ Awaits(h, FALSE).life = "dead"
      BY <2>5 DEF Awaits, Connection
    <2> QED BY <2>6 DEF h
  <1> HIDE DEF g
  <1>6. e.c = g /\ e.done = f.done \cup ToSet(f.c.sendq) /\ e.got = FALSE /\ e.out = f.out
    BY <1>1 DEF Effect
  <1>7. ToSet(<<>>) = {} /\ Distinct(<<>>)
    BY DEF ToSet, Distinct
  <1>8. Whole(g) BY <1>5, <1>7 DEF Whole
  <1>9. StepOK(c, e, NoLineSent)
    <2>1. /\ e.done \in SUBSET Lines /\ e.done \subseteq ToSet(c.sendq)
          /\ ToSet(e.c.sendq) = ToSet(c.sendq) \ e.done
      BY <1>3, <1>4, <1>5, <1>6, <1>7
    <2> QED BY <1>3, <1>5, <1>6, <1>8, <2>1 DEF StepOK
  <1> QED BY <1>5, <1>6, <1>9 DEF e

\* exit_client(): the last line, then the end.
LEMMA ExitOK ==
    ASSUME NEW c, NEW e, NEW f, NEW l \in Lines, StepOK(c, e, l), StepOK(e.c, f, NoLineSent),
           f.got = FALSE, f.c.life = "dead", f.c.sendq = <<>>
    PROVE  LET x == Effect(f.c, e.done \cup f.done, e.got, e.out \o f.out)
           IN  StepOK(c, x, l) /\ Awaited(x.c)
  <1> DEFINE x == Effect(f.c, e.done \cup f.done, e.got, e.out \o f.out)
  <1>1. /\ x.c = f.c /\ x.done = e.done \cup f.done /\ x.got = e.got /\ x.out = e.out \o f.out
    BY DEF Effect
  <1> HIDE DEF x
  <1>2. e.out \o f.out \in Seq(Byte)
    <2>1. e.out \in Seq(Byte) /\ f.out \in Seq(Byte) BY DEF StepOK
    <2> QED BY <2>1, ConcatProperties
  <1>3. /\ x.done \subseteq ToSet(c.sendq) \cup (IF x.got THEN {l} ELSE {})
        /\ ToSet(x.c.sendq) = (ToSet(c.sendq) \cup (IF x.got THEN {l} ELSE {})) \ x.done
    <2> DEFINE Q == ToSet(c.sendq) \cup (IF e.got THEN {l} ELSE {})
    <2>1. e.done \subseteq Q /\ ToSet(e.c.sendq) = Q \ e.done BY DEF StepOK
    <2>2. f.done \subseteq ToSet(e.c.sendq) /\ ToSet(f.c.sendq) = ToSet(e.c.sendq) \ f.done
      BY DEF StepOK
    <2> HIDE DEF Q
    <2>3. x.done \subseteq Q /\ ToSet(x.c.sendq) = Q \ x.done BY <1>1, <2>1, <2>2
    <2> QED BY <1>1, <2>3 DEF Q
  <1>4. StepOK(c, x, l)
    BY <1>1, <1>2, <1>3 DEF StepOK
  <1>5. Awaited(x.c) BY <1>1 DEF Awaited
  <1> QED BY <1>4, <1>5 DEF x

-----------------------------------------------------------------------------
(* The next state.                                                          *)

\* Members come and go.
LEMMA CountMoves ==
    ASSUME NEW Q, IsFiniteSet(Q), NEW G, IsFiniteSet(G), G \cap Q = {},
           NEW D, D \subseteq Q \cup G
    PROVE  /\ Cardinality((Q \cup G) \ D) = Cardinality(Q) + Cardinality(G) - Cardinality(D)
           /\ Cardinality(Q) + Cardinality(G) - Cardinality(D) \in Nat
  <1>1. /\ IsFiniteSet(Q \cup G)
        /\ Cardinality(Q \cup G) = Cardinality(Q) + Cardinality(G) - Cardinality(Q \cap G)
    BY FS_Union
  <1>2. Q \cap G = {} /\ (Q \cup G) \cap D = D OBVIOUS
  <1>3. Cardinality(Q \cap G) = 0 BY <1>2, FS_EmptySet
  <1>4. /\ IsFiniteSet((Q \cup G) \ D)
        /\ Cardinality((Q \cup G) \ D) = Cardinality(Q \cup G) - Cardinality((Q \cup G) \cap D)
    BY <1>1, FS_Difference
  <1>5. Cardinality(Q) \in Nat /\ Cardinality(G) \in Nat /\ Cardinality((Q \cup G) \ D) \in Nat
    BY <1>4, FS_CardinalityType
  <1>6. IsFiniteSet(D)
    <2>1. D \in SUBSET (Q \cup G) OBVIOUS
    <2> QED BY <1>1, <2>1, FS_Subset
  <1>7. Cardinality(D) \in Nat BY <1>6, FS_CardinalityType
  <1>8. Cardinality((Q \cup G) \cap D) = Cardinality(D) BY <1>2, Zenon
  <1> DEFINE a == Cardinality(Q)  b == Cardinality(G)  d == Cardinality(D)
             u == Cardinality(Q \cup G)  r == Cardinality((Q \cup G) \ D)
  <1>9. u = a + b - 0 /\ r = u - d /\ a \in Nat /\ b \in Nat /\ d \in Nat /\ r \in Nat
    BY <1>1, <1>3, <1>4, <1>5, <1>7, <1>8, Zenon
  <1> HIDE DEF a, b, d, u, r
  <1>10. r = a + b - d /\ a + b - d \in Nat BY <1>9
  <1> QED BY <1>10 DEF a, b, d, r

\* The inductive invariant: what is so of each connection and of the lines.
ConnOK(p) ==
    /\ Whole(conn[p]) /\ Awaited(conn[p]) /\ ToSet(conn[p].sendq) \subseteq 1..made
    /\ attached[p] \in Seq(Lines) /\ wire[p] \in Seq(Byte)
    /\ conn[p].life = "open" => wire[p] \o Left(conn[p]) = Bytes(attached[p])

Holders(l) == {p \in Peers : l \in ToSet(conn[p].sendq)}

IInv ==
    /\ made \in 0..Len(Lengths)
    /\ \A p \in Peers : ConnOK(p)
    /\ \A l \in Lines : refcount[l] = Cardinality(Holders(l))

\* The effects of a line on any set of connections, each in order, together are.
\* A line that is taken on is the one just made.
LEMMA TakeOK ==
    ASSUME IInv, NEW who \in SUBSET Peers, NEW step, NEW line,
           Take(who, step, line),
           made' \in made..Len(Lengths),
           \A p \in who : StepOK(conn[p], step[p], line) /\ Awaited(step[p].c),
           (\E p \in who : step[p].got) => line = made' /\ line = made + 1
    PROVE  IInv'
  <1>1. /\ made \in Nat /\ Len(Lengths) \in Nat /\ Lines = 1..Len(Lengths) /\ made' \in Nat
        /\ made <= made' /\ made' <= Len(Lengths)
    BY LineTypes DEF IInv
  <1>2. /\ \A p \in Peers : /\ conn'[p] = IF p \in who THEN step[p].c ELSE conn[p]
                            /\ wire'[p] = IF p \in who THEN wire[p] \o step[p].out ELSE wire[p]
                            /\ attached'[p] = IF p \in who /\ step[p].got
                                              THEN Append(attached[p], line) ELSE attached[p]
        /\ \A l \in Lines :
              refcount'[l] = refcount[l] + (IF l = line THEN Cardinality({p \in who : step[p].got}) ELSE 0)
                                   - Cardinality({p \in who : l \in step[p].done})
    BY DEF Take
  <1>3. \A p \in who : step[p].got => line \in Lines /\ line \in 1..made' /\ line \notin 1..made
    BY <1>1
  <1>4. ASSUME NEW p \in Peers PROVE ConnOK(p)'
    <2>1. ConnOK(p) BY DEF IInv
    <2>2. CASE p \notin who
      <3>1. conn'[p] = conn[p] /\ wire'[p] = wire[p] /\ attached'[p] = attached[p] BY <1>2, <2>2
      <3>2. 1..made \subseteq 1..made' BY <1>1
      <3> QED BY <2>1, <3>1, <3>2 DEF ConnOK
    <2>3. CASE p \in who
      <3> DEFINE c == conn[p]  e == step[p]  w == wire[p]  a == attached[p]
      <3>1. /\ conn'[p] = e.c /\ wire'[p] = w \o e.out
            /\ attached'[p] = IF e.got THEN Append(a, line) ELSE a
        BY <1>2, <2>3
      <3>2. StepOK(c, e, line) /\ Awaited(e.c) /\ (e.got => line \in Lines /\ line \in 1..made')
        BY <1>3, <2>3
      <3>3. /\ ToSet(c.sendq) \subseteq 1..made /\ a \in Seq(Lines) /\ w \in Seq(Byte)
            /\ Whole(c)
            /\ c.life = "open" => w \o Left(c) = Bytes(a)
        BY <2>1 DEF ConnOK
      <3> HIDE DEF c, e, w, a
      <3>4. ToSet(e.c.sendq) \subseteq 1..made'
        <4>1. 1..made \subseteq 1..made' BY <1>1
        <4>2. ToSet(e.c.sendq) = (ToSet(c.sendq) \cup (IF e.got THEN {line} ELSE {})) \ e.done
          BY <3>2 DEF StepOK
        <4> QED BY <3>2, <3>3, <4>1, <4>2
      <3>5. attached'[p] \in Seq(Lines) /\ wire'[p] \in Seq(Byte)
        <4>1. e.out \in Seq(Byte) BY <3>2 DEF StepOK
        <4>2. wire'[p] \in Seq(Byte) BY <3>1, <3>3, <4>1, ConcatProperties
        <4>3. e.got => Append(a, line) \in Seq(Lines) BY <3>2, <3>3, AppendProperties
        <4> QED BY <3>1, <3>3, <4>2, <4>3
      <3>6. ASSUME e.c.life = "open"
            PROVE  (w \o e.out) \o Left(e.c) = Bytes(attached'[p])
        <4>1. /\ c.life = "open" /\ e.out \in Seq(Byte) /\ Whole(e.c) /\ e.got \in BOOLEAN
              /\ e.out \o Left(e.c) = IF e.got THEN Left(c) \o LineBytes[line] ELSE Left(c)
          BY <3>2, <3>6 DEF StepOK
        <4>2. Left(e.c) \in Seq(Byte) BY <3>6, <4>1, LeftType
        <4>3. Left(c) \in Seq(Byte) /\ w \o Left(c) = Bytes(a)
          <5>1. Left(c) \in Seq(Byte) BY <3>3, <4>1, LeftType
          <5>2. w \o Left(c) = Bytes(a) BY <3>3, <4>1
          <5> QED BY <5>1, <5>2
        <4>4. (w \o e.out) \o Left(e.c) = w \o (e.out \o Left(e.c))
          <5> DEFINE y == e.out  z == Left(e.c)
          <5>1. w \in Seq(Byte) /\ y \in Seq(Byte) /\ z \in Seq(Byte) BY <3>3, <4>1, <4>2
          <5> HIDE DEF y, z
          <5>2. (w \o y) \o z = w \o (y \o z) BY <5>1, ConcatAssociative
          <5> QED BY <5>2 DEF y, z
        <4>5. CASE e.got
          <5>1. LineBytes[line] \in Seq(Byte) /\ line \in Lines BY <3>2, <4>5, LineTypes
          <5>2. w \o (Left(c) \o LineBytes[line]) = (w \o Left(c)) \o LineBytes[line]
            <6> DEFINE y == Left(c)  z == LineBytes[line]
            <6>1. w \in Seq(Byte) /\ y \in Seq(Byte) /\ z \in Seq(Byte) BY <3>3, <4>3, <5>1
            <6> HIDE DEF y, z
            <6>2. (w \o y) \o z = w \o (y \o z) BY <6>1, ConcatAssociative
            <6> QED BY <6>2 DEF y, z
          <5>3. Bytes(Append(a, line)) = Bytes(a) \o LineBytes[line]
            BY <3>3, <5>1, BytesAppend
          <5>4. attached'[p] = Append(a, line) BY <3>1, <4>5
          <5> QED BY <4>1, <4>3, <4>4, <4>5, <5>2, <5>3, <5>4, Zenon
        <4>6. CASE ~e.got
          <5>1. attached'[p] = a BY <3>1, <4>6
          <5> QED BY <4>1, <4>3, <4>4, <4>6, <5>1, Zenon
        <4> QED BY <4>5, <4>6
      <3>7. Whole(e.c) BY <3>2 DEF StepOK
      <3>8. conn'[p].life = "open" => wire'[p] \o Left(conn'[p]) = Bytes(attached'[p])
        BY <3>1, <3>6
      <3>9. Whole(conn'[p]) /\ Awaited(conn'[p]) /\ ToSet(conn'[p].sendq) \subseteq 1..made'
        BY <3>1, <3>2, <3>4, <3>7
      <3> QED BY <3>5, <3>8, <3>9 DEF ConnOK
    <2> QED BY <2>2, <2>3
  <1>5. ASSUME NEW l \in Lines PROVE refcount'[l] = Cardinality(Holders(l)')
    <2> DEFINE Q == Holders(l)
               Got == {p \in who : step[p].got}
               G == IF l = line THEN Got ELSE {}
               D == {p \in who : l \in step[p].done}
    <2>1. IsFiniteSet(Q) /\ IsFiniteSet(G) /\ IsFiniteSet({})
      <3>1. IsFiniteSet(Peers) BY SendAssumption
      <3>2. Q \in SUBSET Peers /\ G \in SUBSET Peers /\ {} \in SUBSET Peers BY DEF Holders
      <3> HIDE DEF Q, G
      <3> QED BY <3>1, <3>2, FS_Subset
    <2>2. \A p \in who :
             /\ step[p].got \in BOOLEAN
             /\ step[p].done \subseteq ToSet(conn[p].sendq) \cup (IF step[p].got THEN {line} ELSE {})
             /\ ToSet(step[p].c.sendq)
                  = (ToSet(conn[p].sendq) \cup (IF step[p].got THEN {line} ELSE {})) \ step[p].done
      BY DEF StepOK
    <2>3. G \cap Q = {}
      <3>1. ASSUME NEW p \in G PROVE p \notin Q
        <4>1. p \in who /\ step[p].got /\ l = line BY <3>1
        <4>2. line \notin 1..made BY <1>3, <4>1
        <4>3. ToSet(conn[p].sendq) \subseteq 1..made BY <4>1 DEF IInv, ConnOK
        <4> QED BY <4>1, <4>2, <4>3 DEF Holders
      <3> QED BY <3>1
    <2>4. D \subseteq Q \cup G
      <3>1. ASSUME NEW p \in D PROVE p \in Q \cup G
        <4>1. p \in who /\ l \in step[p].done /\ p \in Peers BY <3>1
        <4>2. l \in ToSet(conn[p].sendq) \/ (step[p].got /\ l = line) BY <2>2, <4>1
        <4> QED BY <4>1, <4>2 DEF Holders
      <3> QED BY <3>1
    <2>5. Holders(l)' = (Q \cup G) \ D
      <3>1. ASSUME NEW p \in Peers
            PROVE  l \in ToSet(conn'[p].sendq) <=> p \in (Q \cup G) \ D
        <4>1. CASE p \notin who
          <5>1. conn'[p] = conn[p] BY <1>2, <4>1
          <5> QED BY <4>1, <5>1 DEF Holders
        <4>2. CASE p \in who
          <5>1. conn'[p] = step[p].c BY <1>2, <4>2
          <5>2. ToSet(step[p].c.sendq)
                  = (ToSet(conn[p].sendq) \cup (IF step[p].got THEN {line} ELSE {})) \ step[p].done
            BY <2>2, <4>2
          <5>3. p \in Q <=> l \in ToSet(conn[p].sendq) BY DEF Holders
          <5>4. p \in G <=> step[p].got /\ l = line BY <4>2
          <5>5. p \in D <=> l \in step[p].done BY <4>2
          <5> HIDE DEF Q, G, D
          <5> QED BY <5>1, <5>2, <5>3, <5>4, <5>5
        <4> QED BY <4>1, <4>2
      <3>2. Holders(l)' = {p \in Peers : l \in ToSet(conn'[p].sendq)} BY DEF Holders
      <3>3. Q \cup G \subseteq Peers BY DEF Holders
      <3> HIDE DEF Q, G, D
      <3> QED BY <3>1, <3>2, <3>3
    <2>6. refcount[l] = Cardinality(Q) BY DEF IInv
    <2>7. Cardinality(G) = IF l = line THEN Cardinality(Got) ELSE 0 BY FS_EmptySet
    <2>8. refcount'[l] = Cardinality(Q) + Cardinality(G) - Cardinality(D)
      <3>1. refcount'[l] = refcount[l] + (IF l = line THEN Cardinality(Got) ELSE 0) - Cardinality(D)
        BY <1>2, Zenon
      <3> HIDE DEF Q, G, D, Got
      <3> QED BY <2>6, <2>7, <3>1
    <2>9. Cardinality((Q \cup G) \ D) = Cardinality(Q) + Cardinality(G) - Cardinality(D)
      <3> HIDE DEF Q, G, D
      <3> QED BY <2>1, <2>3, <2>4, CountMoves
    <2> QED BY <2>5, <2>8, <2>9
  <1>6. made' \in 0..Len(Lengths) BY <1>1
  <1> QED BY <1>4, <1>5, <1>6 DEF IInv

LEMMA InitOK == SendInit => IInv
  <1> SUFFICES ASSUME SendInit PROVE IInv OBVIOUS
  <1>1. made \in 0..Len(Lengths) BY LineTypes DEF SendInit
  <1>2. /\ <<>> \in Seq(Lines) /\ <<>> \in Seq(Byte) /\ ToSet(<<>>) = {} /\ Distinct(<<>>)
        /\ Bytes(<<>>) = <<>> /\ Len(<<>>) = 0 /\ Rest(<<>>, 0) = <<>> /\ <<>> \o <<>> = <<>>
    <2>1. <<>> \in Seq(Lines) /\ <<>> \in Seq(Byte) /\ Len(<<>>) = 0 BY EmptySeq
    <2>2. ToSet(<<>>) = {} /\ Distinct(<<>>) BY DEF ToSet, Distinct
    <2>3. Rest(<<>>, 0) = <<>> BY <2>1, RestWhole
    <2>4. <<>> \o <<>> = <<>> BY <2>1, ConcatEmptySeq
    <2> QED BY <2>1, <2>2, <2>3, <2>4, BytesEmpty
  <1>3. ASSUME NEW p \in Peers PROVE ConnOK(p)
    <2> DEFINE c == conn[p]
    <2>1. /\ c = [life |-> "open", sendq |-> <<>>, writeofs |-> 0, flush |-> FALSE]
          /\ attached[p] = <<>> /\ wire[p] = <<>>
      BY DEF SendInit
    <2>2. c.life = "open" /\ c.sendq = <<>> /\ c.writeofs = 0 /\ c.flush = FALSE BY <2>1
    <2> HIDE DEF c
    <2>3. c \in Connection BY <1>2, <2>1 DEF Connection
    <2>4. Bytes(c.sendq) = <<>> BY <1>2, <2>2
    <2>5. Whole(c) BY <1>2, <2>2, <2>3, <2>4 DEF Whole
    <2>6. Left(c) = <<>> BY <1>2, <2>2, <2>4 DEF Left
    <2>7. Awaited(c) /\ ToSet(c.sendq) \subseteq 1..made BY <1>2, <2>2 DEF Awaited
    <2>8. wire[p] \o Left(c) = Bytes(attached[p]) BY <1>2, <2>1, <2>6
    <2> QED BY <1>2, <2>1, <2>5, <2>7, <2>8 DEF ConnOK, c
  <1>4. ASSUME NEW l \in Lines PROVE refcount[l] = Cardinality(Holders(l))
    <2>1. \A p \in Peers : conn[p].sendq = <<>> BY DEF SendInit
    <2>2. Holders(l) = {} BY <1>2, <2>1 DEF Holders
    <2> QED BY <2>2, FS_EmptySet DEF SendInit
  <1> QED BY <1>1, <1>3, <1>4 DEF IInv

-----------------------------------------------------------------------------
(* The events.                                                              *)

\* A line just made is in no queue.
LEMMA FreshLine ==
    ASSUME IInv, made < Len(Lengths), made' = made + 1
    PROVE  /\ made' \in Lines /\ made' \in made..Len(Lengths)
           /\ \A p \in Peers : made' \notin ToSet(conn[p].sendq)
  <1>1. made \in Nat /\ Len(Lengths) \in Nat /\ Lines = 1..Len(Lengths)
    BY LineTypes DEF IInv
  <1>2. \A p \in Peers : ToSet(conn[p].sendq) \subseteq 1..made BY DEF IInv, ConnOK
  <1>3. made' \notin 1..made BY <1>1
  <1> QED BY <1>1, <1>2, <1>3

LEMMA SocketTypes == /\ \A s \in Socket : s.takes \in Nat /\ s.fails \in BOOLEAN
                     /\ \A who : \A socket \in [who -> Socket] : \A p \in who :
                           socket[p].takes \in Nat /\ socket[p].fails \in BOOLEAN
  <1>1. \A s \in Socket : s.takes \in Nat /\ s.fails \in BOOLEAN BY SendAssumption DEF Socket
  <1> QED BY <1>1

LEMMA SendtoOK ==
    ASSUME IInv, NEW who \in SUBSET Peers, NEW socket \in [who -> Socket], sendto(who, socket)
    PROVE  IInv'
  <1>1. made < Len(Lengths) /\ made' = made + 1 BY DEF sendto
  <1>2. /\ made' \in Lines /\ made' \in made..Len(Lengths)
        /\ \A p \in Peers : made' \notin ToSet(conn[p].sendq)
    BY <1>1, FreshLine
  <1>3. PICK step \in {[p \in who |-> send_linebuf(conn[p], made', socket[p], FALSE)]} :
           Take(who, step, made')
    BY Zenon DEF sendto
  <1>4. ASSUME NEW p \in who PROVE StepOK(conn[p], step[p], made') /\ Awaited(step[p].c)
    <2> DEFINE l == made'  x == socket[p]  c == conn[p]  closing == FALSE
    <2>1. /\ Whole(c) /\ Awaited(c) /\ l \in Lines /\ l \notin ToSet(c.sendq)
          /\ x.takes \in Nat /\ x.fails \in BOOLEAN /\ closing \in BOOLEAN
      BY <1>2, SocketTypes DEF IInv, ConnOK
    <2>2. step[p] = send_linebuf(c, l, x, closing) BY <1>3
    <2>3. ~closing OBVIOUS
    <2> HIDE DEF l, x, c, closing
    <2>4. LET e == send_linebuf(c, l, x, closing)
          IN  StepOK(c, e, l) /\ (~closing => Awaited(e.c))
      BY <2>1, SendLinebufOK
    <2> QED BY <2>2, <2>3, <2>4 DEF l, c
  <1> QED BY <1>1, <1>2, <1>3, <1>4, TakeOK

LEMMA WriteOK ==
    ASSUME IInv, NEW p \in Peers, NEW socket \in Socket, send_queued_write(p, socket)
    PROVE  IInv'
  <1> DEFINE c == Awaits(conn[p], FALSE)
             closing == FALSE
  <1>1. PICK f \in {send_queued(c, socket, closing)} : Take({p}, [q \in {p} |-> f], NoLineSent)
    BY Zenon DEF send_queued_write
  <1>2. Whole(conn[p]) /\ Whole(c) /\ c.life = conn[p].life /\ c.sendq = conn[p].sendq
        /\ Left(c) = Left(conn[p])
    <2>1. Whole(conn[p]) BY DEF IInv, ConnOK
    <2> DEFINE b == FALSE
    <2>2. b \in BOOLEAN OBVIOUS
    <2> HIDE DEF b
    <2>3. /\ Whole(Awaits(conn[p], b)) /\ Awaits(conn[p], b).life = conn[p].life
          /\ Awaits(conn[p], b).sendq = conn[p].sendq /\ Left(Awaits(conn[p], b)) = Left(conn[p])
      BY <2>1, <2>2, AwaitsOK
    <2> QED BY <2>1, <2>3 DEF b
  <1>3. closing \in BOOLEAN /\ ~closing OBVIOUS
  <1> HIDE DEF c, closing
  <1>4. StepOK(c, f, NoLineSent) /\ f.got = FALSE /\ Awaited(f.c)
    <2> DEFINE e == send_queued(c, socket, closing)
    <2>1. socket.takes \in Nat /\ socket.fails \in BOOLEAN BY SocketTypes
    <2>2. StepOK(c, e, NoLineSent) /\ e.got = FALSE /\ (~closing => Awaited(e.c))
      BY <1>2, <1>3, <2>1, SendQueuedOK
    <2>3. f = e BY <1>1
    <2> HIDE DEF e
    <2> QED BY <1>3, <2>2, <2>3
  <1>5. StepOK(conn[p], f, NoLineSent) BY <1>2, <1>4 DEF StepOK
  <1>6. made' = made /\ made \in 0..Len(Lengths) BY DEF send_queued_write, IInv
  <1> DEFINE step == [q \in {p} |-> f]
             who == {p}
  <1>7. who \in SUBSET Peers /\ Take(who, step, NoLineSent) BY <1>1
  <1>8. \A q \in who : q = p /\ step[q] = f OBVIOUS
  <1> HIDE DEF step, who
  <1>9. made' \in made..Len(Lengths) BY <1>6, LineTypes
  <1> QED BY <1>4, <1>5, <1>7, <1>8, <1>9, TakeOK

LEMMA ExitPeerOK ==
    ASSUME IInv, NEW p \in Peers, NEW socket \in Socket, exit_peer(p, socket)
    PROVE  IInv'
  <1> DEFINE closing == TRUE
  <1>1. made < Len(Lengths) /\ made' = made + 1 BY DEF exit_peer
  <1>2. /\ made' \in Lines /\ made' \in made..Len(Lengths)
        /\ \A q \in Peers : made' \notin ToSet(conn[q].sendq)
    BY <1>1, FreshLine
  <1>3. PICK e \in {send_linebuf(conn[p], made', socket, closing)} :
        \E f \in {close_sendq(e.c)} :
           Take({p}, [q \in {p} |-> Effect(f.c, e.done \cup f.done, e.got, e.out \o f.out)],
                made')
    BY Zenon DEF exit_peer
  <1>4. PICK f \in {close_sendq(e.c)} :
           Take({p}, [q \in {p} |-> Effect(f.c, e.done \cup f.done, e.got, e.out \o f.out)],
                made')
    BY <1>3, Zenon
  <1>5. closing \in BOOLEAN OBVIOUS
  <1>6. e = send_linebuf(conn[p], made', socket, closing) /\ f = close_sendq(e.c)
    BY <1>3, <1>4
  <1> HIDE DEF closing
  <1>7. StepOK(conn[p], e, made')
    <2> DEFINE l == made'  c == conn[p]
    <2>1. /\ Whole(c) /\ Awaited(c) /\ l \in Lines /\ l \notin ToSet(c.sendq)
          /\ socket.takes \in Nat /\ socket.fails \in BOOLEAN
      BY <1>2, SocketTypes DEF IInv, ConnOK
    <2>2. e = send_linebuf(c, l, socket, closing) BY <1>6
    <2> HIDE DEF l, c
    <2>3. StepOK(c, e, l) BY <1>5, <2>1, <2>2, SendLinebufOK
    <2> QED BY <2>3 DEF l, c
  <1>8. /\ StepOK(e.c, f, NoLineSent) /\ f.got = FALSE
        /\ f.c.life = "dead" /\ f.c.sendq = <<>>
    <2>1. Whole(e.c) BY <1>7 DEF StepOK
    <2> QED BY <1>6, <2>1, CloseOK
  <1> DEFINE x == Effect(f.c, e.done \cup f.done, e.got, e.out \o f.out)
             step == [q \in {p} |-> x]
             who == {p}
  <1>9. StepOK(conn[p], x, made') /\ Awaited(x.c)
    <2> DEFINE l == made'  c == conn[p]
    <2>1. l \in Lines /\ StepOK(c, e, l) BY <1>2, <1>7
    <2> HIDE DEF l, c, x
    <2>2. StepOK(c, x, l) /\ Awaited(x.c) BY <1>8, <2>1, ExitOK DEF x
    <2> QED BY <2>2 DEF l, c
  <1>10. who \in SUBSET Peers /\ Take(who, step, made') BY <1>4
  <1> HIDE DEF x
  <1>11. \A q \in who : q = p /\ step[q] = x OBVIOUS
  <1> HIDE DEF step, who
  <1> QED BY <1>1, <1>2, <1>9, <1>10, <1>11, TakeOK

LEMMA ExitAbortedOK ==
    ASSUME IInv, NEW p \in Peers, exit_aborted(p)
    PROVE  IInv'
  <1>1. PICK f \in {close_sendq(conn[p])} : Take({p}, [q \in {p} |-> f], NoLineSent)
    BY Zenon DEF exit_aborted
  <1>2. Whole(conn[p]) BY DEF IInv, ConnOK
  <1>3. /\ StepOK(conn[p], f, NoLineSent) /\ f.got = FALSE
        /\ f.c.life = "dead"
    BY <1>1, <1>2, CloseOK
  <1>4. Awaited(f.c) BY <1>3 DEF Awaited
  <1>5. made' \in made..Len(Lengths)
    <2>1. made' = made /\ made \in 0..Len(Lengths) BY DEF exit_aborted, IInv
    <2> QED BY <2>1, LineTypes
  <1> DEFINE step == [q \in {p} |-> f]
             who == {p}
  <1>6. who \in SUBSET Peers /\ Take(who, step, NoLineSent) BY <1>1
  <1>7. \A q \in who : q = p /\ step[q] = f OBVIOUS
  <1> HIDE DEF step, who
  <1> QED BY <1>3, <1>4, <1>5, <1>6, <1>7, TakeOK

LEMMA NextOK == IInv /\ [SendNext]_sendVars => IInv'
  <1> SUFFICES ASSUME IInv, [SendNext]_sendVars PROVE IInv' OBVIOUS
  <1>1. CASE \E who \in SUBSET Peers \ {{}} : \E socket \in [who -> Socket] : sendto(who, socket)
    <2>1. PICK who \in SUBSET Peers : \E socket \in [who -> Socket] : sendto(who, socket)
      BY <1>1
    <2>2. PICK socket \in [who -> Socket] : sendto(who, socket) BY <2>1
    <2> QED BY <2>2, SendtoOK
  <1>2. CASE \E p \in Peers, s \in Socket : send_queued_write(p, s) BY <1>2, WriteOK
  <1>3. CASE \E p \in Peers, s \in Socket : exit_peer(p, s) BY <1>3, ExitPeerOK
  <1>4. CASE \E p \in Peers : exit_aborted(p) BY <1>4, ExitAbortedOK
  <1>5. CASE UNCHANGED sendVars
    <2>1. made' = made /\ refcount' = refcount /\ conn' = conn /\ attached' = attached /\ wire' = wire
      BY <1>5 DEF sendVars
    <2>2. \A p \in Peers : ConnOK(p)' = ConnOK(p) BY <2>1 DEF ConnOK
    <2>3. \A l \in Lines : Holders(l)' = Holders(l) BY <2>1 DEF Holders
    <2> QED BY <2>1, <2>2, <2>3 DEF IInv
  <1> QED BY <1>1, <1>2, <1>3, <1>4, <1>5 DEF SendNext

-----------------------------------------------------------------------------
(* The theorems.                                                            *)

LEMMA Invariant == SendSpec => []IInv
  BY InitOK, NextOK, PTL DEF SendSpec

\* Whatever the sockets take, the bytes written and those left are the lines
\* queued, whole and in order, and the references are the queues
\* (rb_linebuf_attach(), rb_linebuf_flush(), rb_linebuf_done_line()).
THEOREM SendQueuesWhole == SendSpec => []QueuesWhole
  <1>1. IInv => QueuesWhole
    <2> SUFFICES ASSUME IInv PROVE QueuesWhole OBVIOUS
    <2>1. ASSUME NEW p \in Peers, conn[p].life = "open"
          PROVE  wire[p] \o SubSeq(Bytes(conn[p].sendq), conn[p].writeofs + 1, rb_linebuf_len(conn[p]))
                    = Bytes(attached[p])
      <3>1. wire[p] \o Left(conn[p]) = Bytes(attached[p]) BY <2>1 DEF IInv, ConnOK
      <3> QED BY <3>1, Zenon DEF Left, Rest, rb_linebuf_len
    <2>2. \A l \in Lines : refcount[l] = Cardinality({p \in Peers : l \in ToSet(conn[p].sendq)})
      BY Zenon DEF IInv, Holders
    <2> QED BY <2>1, <2>2, Zenon DEF QueuesWhole
  <1> QED BY <1>1, Invariant, PTL

\* An open connection with something in its queue awaits a write event, so that
\* nothing it is owed is forgotten (send_queued(), send_queued_write()).
THEOREM WriteAwaited == SendSpec => [](\A p \in Peers : Awaited(conn[p]))
  <1>1. IInv => \A p \in Peers : Awaited(conn[p]) BY DEF IInv, ConnOK
  <1> QED BY <1>1, Invariant, PTL

-----------------------------------------------------------------------------
(* RecvQ: sequences.                                                        *)

\* Induction over a sequence: what holds of <<>> and is kept by an element more.
LEMMA BySteps ==
    ASSUME NEW T, NEW S, <<>> \in S,
           \A p \in Seq(T) : \A x \in T : p \in S => Append(p, x) \in S
    PROVE  Seq(T) \subseteq S
  <1> SUFFICES ASSUME NEW b \in Seq(T) PROVE b \in S OBVIOUS
  <1> DEFINE n == Len(b)
  <1> DEFINE I == {i \in 0..n : SubSeq(b, 1, i) \in S}
  <1>1. n \in Nat /\ \A i \in 1..n : b[i] \in T OBVIOUS
  <1>2. SubSeq(b, 1, n) = b BY SubSeqFull
  <1> HIDE DEF n
  <1>3. 0 \in I
    <2>1. SubSeq(b, 1, 0) = <<>> BY SubSeqEmpty
    <2>2. SubSeq(b, 1, 0) \in S BY <2>1
    <2>3. 0 \in 0..n BY <1>1
    <2> QED BY <2>2, <2>3
  <1>4. ASSUME NEW i \in 0..(n - 1), i \in I PROVE i + 1 \in I
    <2> DEFINE front == SubSeq(b, 1, i)
    <2>1. i \in Nat /\ i + 1 \in 1..n /\ \A k \in 1..i : b[k] \in T BY <1>1
    <2>2. front \in Seq(T) BY <2>1, SubSeqProperties
    <2>3. b[i + 1] \in T BY <1>1, <2>1
    <2>4. SubSeq(b, 1, i + 1) = front \o <<b[i + 1]>>
      <3>1. 1 \in 1..n /\ i + 1 \in 1..n /\ (i + 1) - 1 = i BY <1>1, <2>1
      <3> QED BY <3>1, SubSeqRecursiveSecond DEF n
    <2> HIDE DEF front
    <2>5. Append(front, b[i + 1]) = front \o <<b[i + 1]>> BY <2>2, <2>3, AppendIsConcat
    <2>6. front \in S BY <1>4 DEF front
    <2>7. Append(front, b[i + 1]) \in S BY <2>2, <2>3, <2>6
    <2>8. SubSeq(b, 1, i + 1) \in S BY <2>4, <2>5, <2>7
    <2>9. i + 1 \in 0..n BY <1>1, <2>1
    <2> QED BY <2>8, <2>9
  <1>5. 0..n \subseteq I
    <2> HIDE DEF I
    <2> QED BY <1>1, <1>3, <1>4, UpTo
  <1>6. n \in I
    <2>1. n \in 0..n BY <1>1
    <2> HIDE DEF I
    <2> QED BY <1>5, <2>1
  <1>7. SubSeq(b, 1, n) \in S BY <1>6
  <1> QED BY <1>2, <1>7

-----------------------------------------------------------------------------
(* Scanning.                                                                *)

\* What streams are made of.
Octet == {EOL} \cup UNION {ToSet(s) : s \in Streams}
Octets == Seq(Octet)
ScanState == [lines : Seq(Octets), line : Octets]

LEMMA ScannedIs ==
    ASSUME NEW s \in ScanState, NEW c \in Octet
    PROVE  Scanned(s, c) \in ScanState
  BY DEF ScanState, Scanned, Octets

\* f is what is scanned of the prefixes of b up to k.
Scans(f, s, b, k) == f[0] = s /\ \A i \in 1..k : f[i] = Scanned(f[i - 1], b[i])

LEMMA ScanSolves ==
    ASSUME NEW s \in ScanState, NEW b \in Octets
    PROVE  \E f : /\ Scan(s, b) = f[Len(b)] /\ Scans(f, s, b, Len(b))
                  /\ \A i \in 0..Len(b) : f[i] \in ScanState
  <1> DEFINE n == Len(b)
             g == [p \in (1..n) \X ScanState |-> Scanned(p[2], b[p[1]])]
             scan == CHOOSE f : f = [i \in 0..n |-> IF i = 0 THEN s ELSE Scanned(f[i - 1], b[i])]
  <1>1. n \in Nat /\ \A i \in 1..n : b[i] \in Octet BY DEF Octets
  <1>2. Scan(s, b) = scan[n] BY Zenon DEF Scan
  <1> HIDE DEF n
  <1>3. Stepping(g, n, ScanState) BY <1>1, ScannedIs DEF Stepping
  <1>4. \A i \in 1..n : \A x \in ScanState : g[<<i, x>>] = Scanned(x, b[i]) OBVIOUS
  <1> HIDE DEF g
  <1>5. PICK h : Stepped(h, g, n, ScanState, s) BY <1>1, <1>3, Recursion
  <1>6. h = [i \in 0..n |-> IF i = 0 THEN s ELSE Scanned(h[i - 1], b[i])]
    <2>1. h \in [0..n -> ScanState] BY <1>5 DEF Stepped
    <2>2. ASSUME NEW i \in 0..n PROVE h[i] = IF i = 0 THEN s ELSE Scanned(h[i - 1], b[i])
      <3>1. CASE i = 0 BY <1>5, <3>1 DEF Stepped
      <3>2. CASE i # 0
        <4>1. i \in 1..n /\ i - 1 \in 0..n BY <1>1, <3>2
        <4>2. h[i - 1] \in ScanState BY <2>1, <4>1
        <4>3. h[i] = g[<<i, h[i - 1]>>] BY <1>5, <4>1 DEF Stepped
        <4> QED BY <1>4, <3>2, <4>1, <4>2, <4>3
      <3> QED BY <3>1, <3>2
    <2> QED BY <2>1, <2>2
  <1>7. scan = [i \in 0..n |-> IF i = 0 THEN s ELSE Scanned(scan[i - 1], b[i])]
    BY <1>6, Zenon
  <1> HIDE DEF scan
  <1>8. Scans(scan, s, b, n)
    <2>1. \A i \in 0..n : scan[i] = IF i = 0 THEN s ELSE Scanned(scan[i - 1], b[i]) BY <1>7
    <2>2. 0 \in 0..n /\ \A i \in 1..n : i \in 0..n /\ i # 0 BY <1>1
    <2> QED BY <2>1, <2>2, Zenon DEF Scans
  <1>9. \A i \in 0..n : scan[i] \in ScanState
    <2> DEFINE S == {i \in 0..n : scan[i] \in ScanState}
    <2>1. 0 \in S BY <1>1, <1>8 DEF Scans
    <2>2. ASSUME NEW i \in 0..(n - 1), i \in S PROVE i + 1 \in S
      <3>1. i + 1 \in 1..n /\ (i + 1) - 1 = i /\ i + 1 \in 0..n BY <1>1
      <3>2. scan[i + 1] = Scanned(scan[i], b[i + 1]) BY <1>8, <3>1 DEF Scans
      <3> QED BY <1>1, <2>2, <3>1, <3>2, ScannedIs
    <2> HIDE DEF S
    <2>3. 0..n \subseteq S BY <1>1, <2>1, <2>2, UpTo
    <2> QED BY <2>3 DEF S
  <1> QED BY <1>2, <1>8, <1>9 DEF n

LEMMA ScansAgree ==
    ASSUME NEW k \in Nat, NEW s, NEW b, NEW d, \A i \in 1..k : b[i] = d[i],
           NEW f, Scans(f, s, b, k), NEW g, Scans(g, s, d, k)
    PROVE  f[k] = g[k]
  <1> DEFINE S == {i \in 0..k : f[i] = g[i]}
  <1>1. 0 \in S BY DEF Scans
  <1>2. ASSUME NEW i \in 0..(k - 1), i \in S PROVE i + 1 \in S
    <2>1. i + 1 \in 0..k /\ i + 1 \in 1..k /\ (i + 1) - 1 = i OBVIOUS
    <2>2. f[i + 1] = Scanned(f[i], b[i + 1]) /\ g[i + 1] = Scanned(g[i], d[i + 1])
      BY <2>1 DEF Scans
    <2>3. b[i + 1] = d[i + 1] BY <2>1
    <2> QED BY <1>2, <2>1, <2>2, <2>3
  <1>3. 0..k \subseteq S
    <2> HIDE DEF S
    <2> QED BY <1>1, <1>2, UpTo
  <1> QED BY <1>3

LEMMA ScanEmpty ==
    ASSUME NEW s \in ScanState
    PROVE  Scan(s, <<>>) = s
  <1>1. <<>> \in Octets /\ Len(<<>>) = 0 BY DEF Octets
  <1> QED BY <1>1, ScanSolves DEF Scans

LEMMA ScanType ==
    ASSUME NEW s \in ScanState, NEW b \in Octets
    PROVE  Scan(s, b) \in ScanState
  <1>1. Len(b) \in 0..Len(b) BY DEF Octets
  <1> QED BY <1>1, ScanSolves

LEMMA ScanAppend ==
    ASSUME NEW s \in ScanState, NEW b \in Octets, NEW c \in Octet
    PROVE  Scan(s, Append(b, c)) = Scanned(Scan(s, b), c)
  <1> DEFINE d == Append(b, c)
             n == Len(b)
  <1>1. n \in Nat /\ d \in Octets /\ Len(d) = n + 1 /\ d[n + 1] = c /\ \A i \in 1..n : b[i] = d[i]
    BY DEF Octets
  <1>2. PICK f : Scan(s, b) = f[n] /\ Scans(f, s, b, n) BY ScanSolves
  <1> HIDE DEF d, n
  <1>3. PICK g : Scan(s, d) = g[n + 1] /\ Scans(g, s, d, n + 1)
    <2>1. PICK g : Scan(s, d) = g[Len(d)] /\ Scans(g, s, d, Len(d)) BY <1>1, ScanSolves
    <2> QED BY <1>1, <2>1
  <1>4. Scans(g, s, d, n)
    <2>1. \A i \in 1..n : i \in 1..(n + 1) BY <1>1
    <2> QED BY <1>3, <2>1 DEF Scans
  <1>5. f[n] = g[n] BY <1>1, <1>2, <1>4, ScansAgree
  <1>6. n + 1 \in 1..(n + 1) /\ (n + 1) - 1 = n BY <1>1
  <1>7. g[n + 1] = Scanned(g[n], c) BY <1>1, <1>3, <1>6 DEF Scans
  <1> QED BY <1>2, <1>3, <1>5, <1>7 DEF d

LEMMA AppendText ==
    ASSUME NEW p \in Octets, NEW x \in Octet
    PROVE  /\ Append(p, x) \in Octets /\ Append(p, x) # <<>> /\ Append(p, x) = p \o <<x>>
           /\ Len(Append(p, x)) = Len(p) + 1 /\ Append(p, x)[Len(p) + 1] = x
           /\ \A i \in 1..Len(p) : Append(p, x)[i] = p[i]
  BY AppendProperties, AppendIsConcat DEF Octets

LEMMA JoinText ==
    ASSUME NEW a \in Octets, NEW b \in Octets
    PROVE  /\ a \o b \in Octets /\ Len(a \o b) = Len(a) + Len(b)
           /\ \A i \in 1..(Len(a) + Len(b)) : (a \o b)[i] = IF i <= Len(a) THEN a[i] ELSE b[i - Len(a)]
           /\ \A c \in Octets : (a \o b) \o c = a \o (b \o c)
           /\ \A x \in Octet : a \o Append(b, x) = Append(a \o b, x)
  <1>1. /\ a \o b \in Octets /\ Len(a \o b) = Len(a) + Len(b)
        /\ \A i \in 1..(Len(a) + Len(b)) : (a \o b)[i] = IF i <= Len(a) THEN a[i] ELSE b[i - Len(a)]
    BY ConcatProperties DEF Octets
  <1>2. \A c \in Octets : (a \o b) \o c = a \o (b \o c) BY ConcatAssociative DEF Octets
  <1>3. ASSUME NEW x \in Octet PROVE a \o Append(b, x) = Append(a \o b, x)
    <2>1. <<x>> \in Octets BY DEF Octets
    <2>2. (a \o b) \o <<x>> = a \o (b \o <<x>>) BY <1>2, <2>1
    <2> QED BY <1>1, <2>2, AppendText
  <1> QED BY <1>1, <1>2, <1>3

LEMMA TextIs ==
    ASSUME NEW a \in Octets
    PROVE  /\ Len(a) \in Nat /\ DOMAIN a = 1..Len(a) /\ \A i \in 1..Len(a) : a[i] \in Octet
           /\ <<>> \in Octets /\ Len(<<>>) = 0 /\ a \o <<>> = a /\ <<>> \o a = a
           /\ a = <<>> <=> Len(a) = 0
  <1>1. Len(a) \in Nat /\ DOMAIN a = 1..Len(a) /\ \A i \in 1..Len(a) : a[i] \in Octet
    BY LenProperties DEF Octets
  <1>2. <<>> \in Octets /\ Len(<<>>) = 0 /\ (a = <<>> <=> Len(a) = 0) BY EmptySeq DEF Octets
  <1>3. a \o <<>> = a /\ <<>> \o a = a BY ConcatEmptySeq DEF Octets
  <1> QED BY <1>1, <1>2, <1>3

LEMMA ScanConcat ==
    ASSUME NEW s \in ScanState, NEW a \in Octets, NEW b \in Octets
    PROVE  Scan(s, a \o b) = Scan(Scan(s, a), b)
  <1> DEFINE S == {p \in Octets : Scan(s, a \o p) = Scan(Scan(s, a), p)}
  <1>1. <<>> \in S
    <2>1. <<>> \in Octets /\ a \o <<>> = a BY ConcatEmptySeq DEF Octets
    <2>2. Scan(Scan(s, a), <<>>) = Scan(s, a) BY ScanType, ScanEmpty
    <2> QED BY <2>1, <2>2
  <1>2. ASSUME NEW p \in Octets, NEW x \in Octet, p \in S PROVE Append(p, x) \in S
    <2>1. Append(p, x) \in Octets /\ a \o p \in Octets BY AppendText, JoinText
    <2>2. a \o Append(p, x) = Append(a \o p, x) BY JoinText
    <2>3. Scan(s, Append(a \o p, x)) = Scanned(Scan(s, a \o p), x) BY <2>1, ScanAppend
    <2>4. Scan(Scan(s, a), Append(p, x)) = Scanned(Scan(Scan(s, a), p), x) BY ScanType, ScanAppend
    <2> QED BY <1>2, <2>1, <2>2, <2>3, <2>4
  <1> HIDE DEF S
  <1>3. Octets \subseteq S BY <1>1, <1>2, BySteps DEF Octets
  <1> QED BY <1>3 DEF S

\* Bytes that end no line are added to the line.
NoEOL(text) == \A i \in DOMAIN text : text[i] # EOL
OnlyEOL(text) == \A i \in DOMAIN text : text[i] = EOL

\* Any number of ends of line is one.
LEMMA ScanEOLs ==
    ASSUME NEW s \in ScanState, NEW e \in Octets, OnlyEOL(e)
    PROVE  Scan(s, e) = IF e = <<>> THEN s ELSE Scanned(s, EOL)
  <1> DEFINE S == {p \in Octets : OnlyEOL(p) => Scan(s, p) = IF p = <<>> THEN s ELSE Scanned(s, EOL)}
  <1>1. <<>> \in S
    <2>1. <<>> \in Octets BY DEF Octets
    <2> QED BY <2>1, ScanEmpty
  <1>2. ASSUME NEW p \in Octets, NEW x \in Octet, p \in S PROVE Append(p, x) \in S
    <2> DEFINE q == Append(p, x)
    <2>1. q \in Octets /\ q # <<>> BY AppendText
    <2>2. SUFFICES ASSUME OnlyEOL(q) PROVE Scan(s, q) = Scanned(s, EOL) BY <2>1
    <2>3. OnlyEOL(p) /\ x = EOL
      <3>1. DOMAIN p = 1..Len(p) /\ Len(p) \in Nat /\ Len(q) = Len(p) + 1 /\ DOMAIN q = 1..(Len(p) + 1)
        BY AppendProperties DEF Octets
      <3>2. q[Len(p) + 1] = x /\ \A i \in 1..Len(p) : q[i] = p[i] BY AppendText
      <3>3. Len(p) + 1 \in 1..(Len(p) + 1) /\ \A i \in 1..Len(p) : i \in 1..(Len(p) + 1) BY <3>1
      <3> HIDE DEF q
      <3> QED BY <2>2, <3>1, <3>2, <3>3 DEF OnlyEOL
    <2>4. Scan(s, q) = Scanned(Scan(s, p), EOL) BY <2>3, ScanAppend
    <2>5. Scanned(Scanned(s, EOL), EOL) = Scanned(s, EOL) BY DEF Scanned
    <2> HIDE DEF q
    <2>6. CASE p = <<>> BY <1>2, <2>3, <2>4, <2>6
    <2>7. CASE p # <<>> BY <1>2, <2>3, <2>4, <2>5, <2>7
    <2> QED BY <2>6, <2>7
  <1> HIDE DEF S
  <1>3. Octets \subseteq S BY <1>1, <1>2, BySteps DEF Octets
  <1> QED BY <1>3 DEF S

-----------------------------------------------------------------------------
(* Joining.                                                                 *)

Texts == Seq(Octets)

\* f joins the first of the texts t, up to k.
Glues(f, t, k) == f[0] = <<>> /\ \A i \in 1..k : f[i] = f[i - 1] \o t[i]

LEMMA GluesAgree ==
    ASSUME NEW k \in Nat, NEW t, NEW u, \A i \in 1..k : t[i] = u[i],
           NEW f, Glues(f, t, k), NEW g, Glues(g, u, k)
    PROVE  f[k] = g[k]
  <1> DEFINE S == {i \in 0..k : f[i] = g[i]}
  <1>1. 0 \in S BY DEF Glues
  <1>2. ASSUME NEW i \in 0..(k - 1), i \in S PROVE i + 1 \in S
    <2>1. i + 1 \in 0..k /\ i + 1 \in 1..k /\ (i + 1) - 1 = i OBVIOUS
    <2>2. f[i + 1] = f[i] \o t[i + 1] /\ g[i + 1] = g[i] \o u[i + 1] BY <2>1 DEF Glues
    <2>3. t[i + 1] = u[i + 1] BY <2>1
    <2> QED BY <1>2, <2>1, <2>2, <2>3
  <1>3. 0..k \subseteq S
    <2> HIDE DEF S
    <2> QED BY <1>1, <1>2, UpTo
  <1> QED BY <1>3

LEMMA FlattenGlues ==
    ASSUME NEW t \in Texts
    PROVE  \E f : FlattenSeq(t) = f[Len(t)] /\ Glues(f, t, Len(t)) /\ f[Len(t)] \in Octets
  <1> DEFINE n == Len(t)
             g == [p \in (1..n) \X Octets |-> p[2] \o t[p[1]]]
             flatten == CHOOSE f : f = [i \in 1..n |-> IF i = 1 THEN t[i] ELSE f[i - 1] \o t[i]]
  <1>1. n \in Nat /\ (n = 0 => t = <<>>) /\ \A i \in 1..n : t[i] \in Octets BY DEF Texts
  <1>2. FlattenSeq(t) = IF n = 0 THEN t ELSE flatten[n] BY Zenon DEF FlattenSeq
  <1> HIDE DEF n
  <1>3. Stepping(g, n, Octets) BY <1>1, JoinText DEF Stepping
  <1>4. \A i \in 1..n : \A x \in Octets : g[<<i, x>>] = x \o t[i] OBVIOUS
  <1>5. <<>> \in Octets BY TextIs DEF Octets
  <1> HIDE DEF g
  <1>6. PICK h : Stepped(h, g, n, Octets, <<>>) BY <1>1, <1>3, <1>5, Recursion
  <1>7. h[0] = <<>> /\ \A i \in 0..n : h[i] \in Octets BY <1>6 DEF Stepped
  <1>8. Glues(h, t, n)
    <2>1. ASSUME NEW i \in 1..n PROVE h[i] = h[i - 1] \o t[i]
      <3>1. i - 1 \in 0..n BY <1>1
      <3>2. h[i] = g[<<i, h[i - 1]>>] BY <1>6 DEF Stepped
      <3> QED BY <1>4, <1>7, <3>1, <3>2
    <2> QED BY <1>7, <2>1 DEF Glues
  <1>9. CASE n = 0 BY <1>1, <1>2, <1>7, <1>8, <1>9 DEF n
  <1>10. CASE n # 0
    <2> DEFINE r == [i \in 1..n |-> h[i]]
    <2>1. \A i \in 1..n : r[i] = IF i = 1 THEN t[i] ELSE r[i - 1] \o t[i]
      <3> SUFFICES ASSUME NEW i \in 1..n PROVE r[i] = IF i = 1 THEN t[i] ELSE r[i - 1] \o t[i] OBVIOUS
      <3>1. h[i] = h[i - 1] \o t[i] BY <1>8 DEF Glues
      <3>2. CASE i = 1
        <4>1. h[0] \o t[i] = t[i] BY <1>1, <1>7, TextIs
        <4>2. i - 1 = 0 /\ r[i] = h[i] BY <3>2
        <4>3. h[i] = t[i] BY <3>1, <4>1, <4>2
        <4> QED BY <3>2, <4>2, <4>3
      <3>3. CASE i # 1
        <4>1. i - 1 \in 1..n BY <1>1, <3>3
        <4> QED BY <3>1, <3>3, <4>1
      <3> QED BY <3>2, <3>3
    <2>2. r = [i \in 1..n |-> IF i = 1 THEN t[i] ELSE r[i - 1] \o t[i]] BY <2>1, Zenon
    <2> HIDE DEF r
    <2>3. flatten = [i \in 1..n |-> IF i = 1 THEN t[i] ELSE flatten[i - 1] \o t[i]] BY <2>2, Zenon
    <2> HIDE DEF flatten
    <2> DEFINE s == [i \in 0..n |-> IF i = 0 THEN <<>> ELSE flatten[i]]
    <2>4. Glues(s, t, n)
      <3>1. s[0] = <<>> BY <1>1
      <3>2. ASSUME NEW i \in 1..n PROVE s[i] = s[i - 1] \o t[i]
        <4>1. i \in 0..n /\ i - 1 \in 0..n /\ i # 0 BY <1>1
        <4>2. s[i] = flatten[i] BY <4>1
        <4>3. flatten[i] = IF i = 1 THEN t[i] ELSE flatten[i - 1] \o t[i] BY <2>3
        <4>4. CASE i = 1
          <5>1. s[i - 1] = <<>> BY <4>1, <4>4
          <5>2. <<>> \o t[i] = t[i] BY <1>1, TextIs
          <5> QED BY <4>2, <4>3, <4>4, <5>1, <5>2
        <4>5. CASE i # 1
          <5>1. i - 1 # 0 BY <4>5
          <5>2. s[i - 1] = flatten[i - 1] BY <4>1, <5>1
          <5> QED BY <4>2, <4>3, <4>5, <5>2
        <4> QED BY <4>4, <4>5
      <3> QED BY <3>1, <3>2 DEF Glues
    <2>5. s[n] = flatten[n] BY <1>1, <1>10
    <2> HIDE DEF s
    <2>6. s[n] = h[n] BY <1>1, <1>8, <2>4, GluesAgree
    <2>7. n \in 0..n BY <1>1
    <2>8. FlattenSeq(t) = h[n] /\ h[n] \in Octets BY <1>2, <1>7, <1>10, <2>5, <2>6, <2>7
    <2> QED BY <1>8, <2>8 DEF n
  <1> QED BY <1>9, <1>10

LEMMA FlattenType == ASSUME NEW t \in Texts PROVE FlattenSeq(t) \in Octets
  BY FlattenGlues

LEMMA FlattenEmpty == FlattenSeq(<<>>) = <<>>
  BY DEF FlattenSeq

LEMMA FlattenAppend ==
    ASSUME NEW t \in Texts, NEW x \in Octets
    PROVE  FlattenSeq(Append(t, x)) = FlattenSeq(t) \o x
  <1> DEFINE u == Append(t, x)
             n == Len(t)
  <1>1. n \in Nat /\ u \in Texts /\ Len(u) = n + 1 /\ u[n + 1] = x /\ \A i \in 1..n : t[i] = u[i]
    BY AppendProperties DEF Texts
  <1>2. PICK f : FlattenSeq(t) = f[n] /\ Glues(f, t, n) BY FlattenGlues
  <1> HIDE DEF u, n
  <1>3. PICK g : FlattenSeq(u) = g[n + 1] /\ Glues(g, u, n + 1)
    <2>1. PICK g : FlattenSeq(u) = g[Len(u)] /\ Glues(g, u, Len(u)) BY <1>1, FlattenGlues
    <2> QED BY <1>1, <2>1
  <1>4. Glues(g, u, n)
    <2>1. \A i \in 1..n : i \in 1..(n + 1) BY <1>1
    <2> QED BY <1>3, <2>1 DEF Glues
  <1>5. f[n] = g[n] BY <1>1, <1>2, <1>4, GluesAgree
  <1>6. n + 1 \in 1..(n + 1) /\ (n + 1) - 1 = n BY <1>1
  <1>7. g[n + 1] = g[n] \o x BY <1>1, <1>3, <1>6 DEF Glues
  <1> QED BY <1>2, <1>3, <1>5, <1>7 DEF u

LEMMA FlattenFirst ==
    ASSUME NEW t \in Texts, t # <<>>
    PROVE  FlattenSeq(t) = t[1] \o FlattenSeq(Tail(t))
  <1> DEFINE Begins(p) == p # <<>> => FlattenSeq(p) = p[1] \o FlattenSeq(Tail(p))
             S == {p \in Texts : Begins(p)}
  <1>1. <<>> \in S BY DEF Texts
  <1>2. ASSUME NEW p \in Texts, NEW x \in Octets, p \in S PROVE Append(p, x) \in S
    <2> DEFINE q == Append(p, x)
    <2>1. q \in Texts /\ FlattenSeq(q) = FlattenSeq(p) \o x /\ FlattenSeq(p) \in Octets
      BY AppendProperties, FlattenAppend, FlattenType DEF Texts
    <2>2. CASE p = <<>>
      <3>1. q[1] = x /\ Tail(q) = <<>> BY <2>2, HeadTailAppend DEF Texts
      <3>2. FlattenSeq(q) = x /\ x \o <<>> = x BY <2>1, <2>2, FlattenEmpty, TextIs
      <3> QED BY <2>1, <3>1, <3>2, FlattenEmpty
    <2>3. CASE p # <<>>
      <3>1. Len(p) \in Nat \ {0} /\ p[1] \in Octets /\ Tail(p) \in Texts
        BY <2>3, EmptySeq, HeadTailProperties DEF Texts
      <3>2. q[1] = p[1] /\ Tail(q) = Append(Tail(p), x)
        <4>1. 1 \in 1..Len(p) BY <3>1
        <4> QED BY <2>3, <4>1, HeadTailAppend, AppendProperties DEF Texts
      <3>3. FlattenSeq(Tail(q)) = FlattenSeq(Tail(p)) \o x BY <3>1, <3>2, FlattenAppend
      <3>4. FlattenSeq(p) = p[1] \o FlattenSeq(Tail(p)) BY <1>2, <2>3
      <3>5. (p[1] \o FlattenSeq(Tail(p))) \o x = p[1] \o (FlattenSeq(Tail(p)) \o x)
        BY <3>1, FlattenType, JoinText
      <3> QED BY <2>1, <3>2, <3>3, <3>4, <3>5
    <2> QED BY <2>2, <2>3
  <1> HIDE DEF S
  <1>3. Texts \subseteq S BY <1>1, <1>2, BySteps DEF Texts
  <1> QED BY <1>3 DEF S
-----------------------------------------------------------------------------
(* The buffers.                                                             *)

Buffer == [buf : Octets, terminated : BOOLEAN, raw : BOOLEAN]

Pieces(q) == [i \in DOMAIN q |-> Piece(q[i])]
Flat(q) == FlattenSeq(Pieces(q))

LEMMA EOLOctet == EOL \in Octet /\ <<EOL>> \in Octets
  <1>1. EOL \in Octet BY DEF Octet
  <1> QED BY <1>1 DEF Octets

LEMMA PieceIs ==
    ASSUME NEW l \in Buffer
    PROVE  Piece(l) = (IF l.terminated THEN l.buf \o <<EOL>> ELSE l.buf) /\ Piece(l) \in Octets
  <1>1. l.buf \in Octets /\ l.terminated \in BOOLEAN BY DEF Buffer
  <1>2. l.buf \o <<>> = l.buf BY <1>1, TextIs
  <1>3. l.buf \o <<EOL>> \in Octets BY <1>1, EOLOctet, JoinText
  <1>4. CASE l.terminated BY <1>3, <1>4 DEF Piece
  <1>5. CASE ~l.terminated BY <1>1, <1>2, <1>5 DEF Piece
  <1> QED BY <1>4, <1>5

LEMMA PiecesType == ASSUME NEW q \in Seq(Buffer) PROVE Pieces(q) \in Texts /\ Len(Pieces(q)) = Len(q)
  <1>1. Len(q) \in Nat /\ DOMAIN q = 1..Len(q) BY LenProperties
  <1>2. \A i \in 1..Len(q) : Piece(q[i]) \in Octets BY PieceIs
  <1> HIDE DEF Piece
  <1> QED BY <1>1, <1>2 DEF Pieces, Texts

LEMMA FlatType == ASSUME NEW q \in Seq(Buffer) PROVE Flat(q) \in Octets
  BY PiecesType, FlattenType DEF Flat

LEMMA FlatEmpty == Flat(<<>>) = <<>>
  <1>1. Pieces(<<>>) = <<>> BY DEF Pieces
  <1> QED BY <1>1, FlattenEmpty DEF Flat

LEMMA FlatAppend ==
    ASSUME NEW q \in Seq(Buffer), NEW l \in Buffer
    PROVE  Flat(Append(q, l)) = Flat(q) \o Piece(l)
  <1> DEFINE p == Pieces(Append(q, l))
             r == Append(Pieces(q), Piece(l))
  <1>1. Append(q, l) \in Seq(Buffer) /\ Len(Append(q, l)) = Len(q) + 1 /\ Len(q) \in Nat
        /\ Append(q, l)[Len(q) + 1] = l /\ \A i \in 1..Len(q) : Append(q, l)[i] = q[i]
    BY AppendProperties
  <1>2. p \in Texts /\ Len(p) = Len(q) + 1 BY <1>1, PiecesType
  <1>3. Pieces(q) \in Texts /\ Len(Pieces(q)) = Len(q) /\ Piece(l) \in Octets BY PiecesType, PieceIs
  <1>4. r \in Texts /\ Len(r) = Len(q) + 1 /\ r[Len(q) + 1] = Piece(l)
        /\ \A i \in 1..Len(q) : r[i] = Pieces(q)[i]
    BY <1>3, AppendProperties DEF Texts
  <1>5. ASSUME NEW i \in 1..(Len(q) + 1) PROVE p[i] = r[i]
    <2>1. DOMAIN Append(q, l) = 1..(Len(q) + 1) BY <1>1, LenProperties
    <2>2. p[i] = Piece(Append(q, l)[i]) BY <2>1 DEF Pieces
    <2>3. CASE i = Len(q) + 1 BY <1>1, <1>4, <2>2, <2>3
    <2>4. CASE i # Len(q) + 1
      <3>1. i \in 1..Len(q) /\ DOMAIN q = 1..Len(q) BY <1>1, <2>4, LenProperties
      <3>2. Pieces(q)[i] = Piece(q[i]) BY <3>1 DEF Pieces
      <3> QED BY <1>1, <1>4, <2>2, <3>1, <3>2
    <2> QED BY <2>3, <2>4
  <1> HIDE DEF p, r
  <1>6. p = r BY <1>2, <1>4, <1>5, SeqEqual DEF Texts
  <1> QED BY <1>3, <1>6, FlattenAppend DEF Flat, p, r

LEMMA FlatFirst ==
    ASSUME NEW q \in Seq(Buffer), q # <<>>
    PROVE  Flat(q) = Piece(q[1]) \o Flat(Tail(q))
  <1> DEFINE p == Pieces(q)
             r == Pieces(Tail(q))
             n == Len(q)
  <1>1. n \in Nat \ {0} /\ DOMAIN q = 1..n BY EmptySeq, LenProperties
  <1>2. Tail(q) \in Seq(Buffer) /\ Len(Tail(q)) = n - 1 /\ \A i \in 1..(n - 1) : Tail(q)[i] = q[i + 1]
    BY HeadTailProperties
  <1>3. DOMAIN Tail(q) = 1..(n - 1) BY <1>2, LenProperties
  <1>4. p \in Texts /\ Len(p) = n /\ \A i \in 1..n : p[i] = Piece(q[i]) BY <1>1, PiecesType DEF Pieces
  <1>5. r \in Texts /\ Len(r) = n - 1 BY <1>2, PiecesType
  <1>6. \A i \in 1..(n - 1) : r[i] = Piece(q[i + 1]) BY <1>2, <1>3 DEF Pieces
  <1> HIDE DEF p, r, n
  <1>7. p # <<>> BY <1>1, <1>4, EmptySeq
  <1>8. Tail(p) \in Texts /\ Len(Tail(p)) = n - 1 /\ \A i \in 1..(n - 1) : Tail(p)[i] = p[i + 1]
    BY <1>4, <1>7, HeadTailProperties DEF Texts
  <1>9. ASSUME NEW i \in 1..(n - 1) PROVE r[i] = Tail(p)[i]
    <2>1. i + 1 \in 1..n BY <1>1
    <2> QED BY <1>4, <1>6, <1>8, <2>1
  <1>10. r = Tail(p) BY <1>5, <1>8, <1>9, SeqEqual DEF Texts
  <1>11. 1 \in 1..n BY <1>1
  <1>12. FlattenSeq(p) = p[1] \o FlattenSeq(r) BY <1>4, <1>7, <1>10, FlattenFirst
  <1> QED BY <1>4, <1>11, <1>12 DEF Flat, p, r

\* The first and the last of some places in a text.
LEMMA FirstPlace ==
    ASSUME NEW n \in Nat, NEW S, S \subseteq 1..n, S # {}
    PROVE  Min(S) \in S /\ \A i \in S : Min(S) <= i
  <1>1. PICK x \in S : \A y \in S : ~(<<y, x>> \in OpToRel(<, Nat))
    <2>1. S \subseteq Nat OBVIOUS
    <2> QED BY <2>1, NatLessThanWellFounded, WFMin
  <1>2. ASSUME NEW y \in S PROVE x =< y
    <2>1. SUFFICES ASSUME y < x PROVE FALSE OBVIOUS
    <2>2. <<y, x>> \in Nat \X Nat OBVIOUS
    <2>3. <<y, x>>[1] < <<y, x>>[2] BY <2>1
    <2>4. <<y, x>> \in OpToRel(<, Nat) BY <2>2, <2>3, Zenon DEF OpToRel
    <2> QED BY <1>1, <2>4
  <1>3. \E z \in S : \A y \in S : z =< y BY <1>2
  <1> QED BY <1>3 DEF Min

LEMMA LastPlace ==
    ASSUME NEW n \in Nat, NEW S, S \subseteq 0..n, S # {}
    PROVE  Max(S) \in S /\ \A i \in S : i <= Max(S)
  <1> DEFINE T == {j \in 1..(n + 1) : (n + 1) - j \in S}
  <1>0. \A y \in S : y \in 0..n OBVIOUS
  <1>1. T \subseteq 1..(n + 1) /\ T # {}
    <2>1. PICK y \in S : TRUE OBVIOUS
    <2>2. (n + 1) - y \in 1..(n + 1) /\ (n + 1) - ((n + 1) - y) = y BY <1>0
    <2>3. (n + 1) - y \in T BY <2>2
    <2> QED BY <2>3
  <1>2. PICK m \in T : \A j \in T : m <= j
    <2> HIDE DEF T
    <2>1. n + 1 \in Nat OBVIOUS
    <2> QED BY <1>1, <2>1, FirstPlace
  <1> DEFINE z == (n + 1) - m
  <1>3. z \in S /\ m \in 1..(n + 1) BY <1>2
  <1>4. ASSUME NEW y \in S PROVE z >= y
    <2>1. (n + 1) - y \in 1..(n + 1) /\ (n + 1) - ((n + 1) - y) = y BY <1>0
    <2>2. (n + 1) - y \in T BY <2>1
    <2>3. m <= (n + 1) - y BY <1>2, <2>2
    <2> QED BY <1>0, <1>3, <2>3
  <1>5. \E x \in S : \A y \in S : x >= y BY <1>4
  <1>6. Max(S) \in S /\ \A y \in S : Max(S) >= y BY <1>5 DEF Max
  <1> HIDE DEF T
  <1>7. \A y \in S : y \in Int BY <1>0
  <1>8. Max(S) \in Int BY <1>6, <1>7
  <1> QED BY <1>6, <1>7, <1>8

-----------------------------------------------------------------------------
(* Texts that are scanned alike.                                            *)

Alike(a, b) == \A s \in ScanState : Scan(s, a) = Scan(s, b)

LEMMA StreamText == \A s \in Streams : s \in Octets
  <1> SUFFICES ASSUME NEW s \in Streams PROVE s \in Octets OBVIOUS
  <1>1. s \in Seq(ToSet(s)) BY SizesPositive
  <1>2. ToSet(s) \subseteq Octet BY DEF Octet
  <1> QED BY <1>1, <1>2, SeqMonotonic DEF Octets

LEMMA AlikeJoin ==
    ASSUME NEW a \in Octets, NEW b \in Octets, NEW c \in Octets, NEW d \in Octets,
           Alike(a, b), Alike(c, d)
    PROVE  Alike(a \o c, b \o d)
  BY ScanConcat, ScanType DEF Alike

LEMMA AlikeFirst ==
    ASSUME NEW a \in Octets, NEW b \in Octets, NEW c \in Octets, Alike(a, b)
    PROVE  Alike(a \o c, b \o c)
  BY ScanConcat, ScanType DEF Alike

LEMMA AlikeLast ==
    ASSUME NEW a \in Octets, NEW b \in Octets, NEW c \in Octets, Alike(a, b)
    PROVE  Alike(c \o a, c \o b)
  BY ScanConcat, ScanType DEF Alike

LEMMA AlikeEOLs ==
    ASSUME NEW e \in Octets, NEW f \in Octets, OnlyEOL(e), OnlyEOL(f), e # <<>>, f # <<>>
    PROVE  Alike(e, f)
  BY ScanEOLs DEF Alike

LEMMA JoinEOLs ==
    ASSUME NEW e \in Octets, NEW f \in Octets, OnlyEOL(e), OnlyEOL(f)
    PROVE  OnlyEOL(e \o f) /\ (e # <<>> => e \o f # <<>>) /\ (f # <<>> => e \o f # <<>>)
  <1>1. DOMAIN (e \o f) = 1..(Len(e) + Len(f)) BY JoinText, TextIs
  <1>2. /\ Len(e) \in Nat /\ DOMAIN e = 1..Len(e) /\ Len(f) \in Nat /\ DOMAIN f = 1..Len(f)
        /\ (e = <<>> <=> Len(e) = 0) /\ (f = <<>> <=> Len(f) = 0)
    BY TextIs
  <1>3. e \o f \in Octets /\ Len(e \o f) = Len(e) + Len(f)
        /\ (e \o f = <<>> <=> Len(e \o f) = 0)
    BY JoinText, TextIs
  <1>4. ASSUME NEW i \in 1..(Len(e) + Len(f)) PROVE (e \o f)[i] = EOL
    <2>1. (e \o f)[i] = IF i <= Len(e) THEN e[i] ELSE f[i - Len(e)] BY JoinText
    <2>2. CASE i <= Len(e) 
      <3>1. i \in 1..Len(e) BY <1>2, <2>2
      <3> QED BY <1>2, <2>1, <2>2, <3>1 DEF OnlyEOL
    <2>3. CASE ~(i <= Len(e))
      <3>1. i - Len(e) \in 1..Len(f) BY <1>2, <2>3
      <3> QED BY <1>2, <2>1, <2>3, <3>1 DEF OnlyEOL
    <2> QED BY <2>2, <2>3
  <1> QED BY <1>1, <1>2, <1>3, <1>4 DEF OnlyEOL

-----------------------------------------------------------------------------
(* rb_linebuf_copy().                                                       *)

\* The first p bytes of the k that are copied are text, the others are ends
\* of line, if it is not that the data end with the text.
Cut(d, p, k) ==
    /\ k \in 1..Len(d) /\ p \in 0..k
    /\ \A i \in 1..p : d[i] # EOL
    /\ \A i \in (p + 1)..k : d[i] = EOL
    /\ p = k => k = Len(d)

LEMMA SkipCut ==
    ASSUME NEW d \in Octets, d # <<>>
    PROVE  \E p : Cut(d, p, rb_linebuf_skip_crlf(d))
  <1> DEFINE n == Len(d)
             I == {i \in 1..n : IsEOL(d[i])}
             eol == SelectInSeq(d, IsEOL)
             after == {i \in eol..n : d[i] # EOL}
             k == rb_linebuf_skip_crlf(d)
  <1>1. n \in Nat \ {0} BY TextIs
  <1>2. eol = IF I # {} THEN Min(I) ELSE 0 BY Zenon DEF SelectInSeq
  <1>3. k = IF eol = 0 \/ after = {} THEN n ELSE Min(after) - 1 BY DEF rb_linebuf_skip_crlf
  <1> HIDE DEF n, eol, k
  <1>4. CASE I = {}
    <2>1. k = n BY <1>2, <1>3, <1>4
    <2>2. \A i \in 1..n : d[i] # EOL BY <1>4 DEF IsEOL
    <2>3. Cut(d, n, k) BY <1>1, <2>1, <2>2 DEF Cut, n
    <2> QED BY <2>3 DEF k
  <1>5. CASE I # {}
    <2>1. eol \in I /\ \A i \in I : eol <= i
      <3>1. I \subseteq 1..n OBVIOUS
      <3> HIDE DEF I
      <3> QED BY <1>1, <1>2, <1>5, <3>1, FirstPlace
    <2>2. eol \in 1..n /\ d[eol] = EOL BY <2>1 DEF IsEOL
    <2>3. \A i \in 1..(eol - 1) : d[i] # EOL
      <3> SUFFICES ASSUME NEW i \in 1..(eol - 1), d[i] = EOL PROVE FALSE OBVIOUS
      <3>1. i \in 1..n /\ ~(eol <= i) BY <1>1, <2>2
      <3>2. i \in I BY <3>1 DEF IsEOL
      <3> QED BY <2>1, <3>1, <3>2
    <2>4. CASE after = {}
      <3>1. k = n BY <1>3, <2>4
      <3>2. \A i \in eol..n : d[i] = EOL BY <2>4
      <3>3. eol - 1 \in 0..n /\ (eol - 1) + 1 = eol /\ eol - 1 # n BY <1>1, <2>2
      <3>4. Cut(d, eol - 1, k) BY <1>1, <2>3, <3>1, <3>2, <3>3 DEF Cut, n
      <3> QED BY <3>4 DEF k
    <2>5. CASE after # {}
      <3>1. after \subseteq 1..n BY <1>1, <2>2
      <3>2. Min(after) \in after /\ \A i \in after : Min(after) <= i
        <4> HIDE DEF after
        <4> QED BY <1>1, <2>5, <3>1, FirstPlace
      <3>3. k = Min(after) - 1 BY <1>3, <2>2, <2>5
      <3>4. k + 1 \in eol..n /\ d[k + 1] # EOL BY <2>2, <3>2, <3>3
      <3>5. k + 1 # eol BY <2>2, <3>4
      <3>6. k \in Int /\ eol <= k /\ k < n BY <1>1, <2>2, <3>1, <3>2, <3>3, <3>4, <3>5
      <3>7. \A i \in eol..k : d[i] = EOL
        <4> SUFFICES ASSUME NEW i \in eol..k, d[i] # EOL PROVE FALSE OBVIOUS
        <4>1. i \in eol..n /\ i < k + 1 BY <1>1, <2>2, <3>6
        <4>2. Min(after) <= i BY <3>2, <4>1
        <4>3. Min(after) \in Int BY <3>1, <3>2
        <4> QED BY <3>3, <4>1, <4>2, <4>3
      <3>8. eol - 1 \in 0..k /\ k \in 1..n /\ (eol - 1) + 1 = eol /\ eol - 1 # k BY <1>1, <2>2, <3>6
      <3>9. Cut(d, eol - 1, k) BY <2>3, <3>7, <3>8 DEF Cut, n
      <3> QED BY <3>9 DEF k
    <2> QED BY <2>4, <2>5
  <1> QED BY <1>4, <1>5

Regroups(a, b, c) == (a \o b) \o c = a \o (b \o c)

LEMMA JoinThree == ASSUME NEW a \in Octets, NEW b \in Octets, NEW c \in Octets PROVE Regroups(a, b, c)
  BY ConcatAssociative DEF Octets, Regroups

LEMMA PartText ==
    ASSUME NEW d \in Octets, NEW i \in Nat \ {0}, NEW j \in 0..Len(d)
    PROVE  /\ SubSeq(d, i, j) \in Octets
           /\ Len(SubSeq(d, i, j)) = IF i <= j THEN (j - i) + 1 ELSE 0
           /\ \A x \in 1..((j - i) + 1) : SubSeq(d, i, j)[x] = d[(i + x) - 1]
  <1>1. Len(d) \in Nat /\ \A x \in 1..Len(d) : d[x] \in Octet BY TextIs
  <1>2. \A x \in i..j : d[x] \in Octet BY <1>1
  <1>3. i \in Int /\ j \in Int BY <1>1
  <1>4. /\ SubSeq(d, i, j) \in Seq(Octet)
        /\ Len(SubSeq(d, i, j)) = IF i <= j THEN j - i + 1 ELSE 0
        /\ \A x \in 1..j - i + 1 : SubSeq(d, i, j)[x] = d[i + x - 1]
    BY <1>2, <1>3, SubSeqProperties
  <1> QED BY <1>4 DEF Octets

LEMMA JoinParts ==
    ASSUME NEW d \in Octets, NEW i \in 1..(Len(d) + 1), NEW k \in (i - 1)..Len(d), NEW j \in k..Len(d)
    PROVE  SubSeq(d, i, k) \o SubSeq(d, k + 1, j) = SubSeq(d, i, j)
  BY ConcatAdjacentSubSeq DEF Octets

LEMMA JoinedPlace ==
    ASSUME NEW a \in Octets, NEW b \in Octets, NEW i \in DOMAIN (a \o b)
    PROVE  \/ i \in DOMAIN a /\ (a \o b)[i] = a[i]
           \/ i > Len(a) /\ i - Len(a) \in DOMAIN b /\ (a \o b)[i] = b[i - Len(a)]
  <1>1. /\ Len(a) \in Nat /\ DOMAIN a = 1..Len(a) /\ Len(b) \in Nat /\ DOMAIN b = 1..Len(b) BY TextIs
  <1>2. DOMAIN (a \o b) = 1..(Len(a) + Len(b)) BY JoinText, TextIs
  <1>3. (a \o b)[i] = IF i <= Len(a) THEN a[i] ELSE b[i - Len(a)] BY <1>2, JoinText
  <1>4. CASE i <= Len(a) BY <1>1, <1>2, <1>3, <1>4
  <1>5. CASE ~(i <= Len(a)) BY <1>1, <1>2, <1>3, <1>5
  <1> QED BY <1>4, <1>5

LEMMA JoinNoEOL ==
    ASSUME NEW a \in Octets, NEW b \in Octets, NoEOL(a), NoEOL(b)
    PROVE  NoEOL(a \o b)
  <1> SUFFICES ASSUME NEW i \in DOMAIN (a \o b) PROVE (a \o b)[i] # EOL BY DEF NoEOL
  <1> QED BY JoinedPlace DEF NoEOL

\* A line and the ends of line after it.
LEMMA LineAndEnds ==
    ASSUME NEW a \in Octets, NEW e \in Octets, NoEOL(a), OnlyEOL(e)
    PROVE  OneLine(a \o e) /\ ChopEnd(a \o e) = a
  <1> DEFINE x == a \o e
             K == {0} \cup {i \in DOMAIN x : x[i] # EOL}
             n == Len(a)
  <1>1. n \in Nat /\ DOMAIN a = 1..n /\ DOMAIN x = 1..(n + Len(e)) /\ Len(e) \in Nat BY JoinText, TextIs
  <1>2. \A i \in DOMAIN x : (i \in 1..n /\ x[i] = a[i] /\ x[i] # EOL) \/ (i > n /\ x[i] = EOL)
    BY <1>1, JoinedPlace DEF NoEOL, OnlyEOL
  <1>3. OneLine(x)
    <2> HIDE DEF x
    <2> SUFFICES ASSUME NEW i \in DOMAIN x, NEW j \in DOMAIN x, i < j, x[i] = EOL PROVE x[j] = EOL
      BY DEF OneLine
    <2>1. i > n BY <1>2
    <2>2. ~(j \in 1..n) BY <1>1, <2>1
    <2> QED BY <1>2, <2>2
  <1>4. K = 0..n
    <2>1. \A i \in 1..n : i \in DOMAIN x BY <1>1
    <2>2. \A i \in 1..n : x[i] # EOL BY <1>1, <1>2, <2>1
    <2> HIDE DEF x
    <2>3. \A i \in K : i \in 0..n BY <1>1, <1>2
    <2>4. \A i \in 0..n : i = 0 \/ i \in 1..n BY <1>1
    <2> QED BY <2>1, <2>2, <2>3, <2>4
  <1>5. Max(K) = n
    <2>1. Max(0..n) \in 0..n /\ \A i \in 0..n : i <= Max(0..n)
      <3> DEFINE R == 0..n
      <3>1. R \subseteq 0..n /\ R # {} BY <1>1
      <3> HIDE DEF R
      <3>2. Max(R) \in R /\ \A i \in R : i <= Max(R) BY <1>1, <3>1, LastPlace
      <3> QED BY <3>2 DEF R
    <2>2. n \in 0..n BY <1>1
    <2> HIDE DEF K
    <2> QED BY <1>1, <1>4, <2>1, <2>2
  <1>6. ChopEnd(x) = SubSeq(x, 1, n) BY <1>5, Zenon DEF ChopEnd
  <1>7. SubSeq(x, 1, n) = a
    <2>1. x \in Octets /\ Len(x) = n + Len(e) BY JoinText
    <2> DEFINE y == SubSeq(x, 1, n)
    <2>2. n \in 0..Len(x) BY <1>1, <2>1
    <2>3. y \in Octets /\ Len(y) = (IF 1 <= n THEN (n - 1) + 1 ELSE 0)
          /\ \A i \in 1..((n - 1) + 1) : y[i] = x[(1 + i) - 1]
      <3> HIDE DEF x
      <3> QED BY <2>1, <2>2, PartText
    <2>4. Len(y) = n BY <1>1, <2>3
    <2>5. ASSUME NEW i \in 1..n PROVE y[i] = a[i]
      <3>1. i \in 1..((n - 1) + 1) /\ (1 + i) - 1 = i /\ i \in DOMAIN x /\ ~(i > n) BY <1>1
      <3> QED BY <1>2, <2>3, <3>1
    <2> HIDE DEF y
    <2> QED BY <2>3, <2>4, <2>5, SeqEqual DEF Octets, n
  <1> QED BY <1>3, <1>6, <1>7

\* What is copied leaves what is scanned as it is, if an end of line comes
\* before the buffer is full.
CopyOK(line, d, c) ==
    /\ c.line \in Buffer /\ c.clen \in 0..Len(d)
    /\ OneLine(c.line.buf) /\ Len(c.line.buf) < BUF_DATA_SIZE
    /\ Alike(line.buf \o d, Piece(c.line) \o SubSeq(d, c.clen + 1, Len(d)))
    /\ ~c.line.terminated => c.clen = Len(d) /\ c.line.buf = line.buf \o d /\ NoEOL(c.line.buf)
    /\ line.buf = <<>> => c.clen >= 1

Room(line) == (BUF_DATA_SIZE - Len(line.buf)) - 1

\* The place of the first of its ends is within the room.
FitsIn(line, d) ==
    rb_linebuf_skip_crlf(d) > Room(line) => \E j \in 1..(Room(line) + 1) : d[j] = EOL

LEMMA CopyIs ==
    ASSUME NEW line, ~line.terminated, NEW d, NEW raw
    PROVE  LET k == rb_linebuf_skip_crlf(d)
               n == IF k > Room(line) THEN Room(line) ELSE k
               text == line.buf \o SubSeq(d, 1, n)
           IN  rb_linebuf_copy(line, d, raw) =
                  [line |-> [buf |-> IF raw THEN text ELSE ChopEnd(text),
                             terminated |-> k > Room(line) \/ Last(text) = EOL, raw |-> raw],
                   clen |-> IF raw /\ k > Room(line) THEN Room(line) ELSE k]
  BY DEF rb_linebuf_copy, Room

\* The data, cut at p, k and c, and scanned.
LEMMA CutAlike ==
    ASSUME NEW d \in Octets, NEW p, NEW k, Cut(d, p, k), NEW n \in p..k, NEW c \in n..k,
           NEW f \in Octets, OnlyEOL(f), NEW a \in Octets, p < k
    PROVE  Alike((a \o SubSeq(d, 1, p)) \o SubSeq(d, p + 1, Len(d)),
                 (((a \o SubSeq(d, 1, p)) \o f) \o <<EOL>>) \o SubSeq(d, c + 1, Len(d)))
  <1> DEFINE b == a \o SubSeq(d, 1, p)
             e == SubSeq(d, p + 1, k)
             g == SubSeq(d, c + 1, k)
             t == SubSeq(d, k + 1, Len(d))
             N == <<EOL>>
  <1>1. Len(d) \in Nat /\ p \in Nat /\ k \in 1..Len(d) /\ p \in 0..k /\ c \in Nat /\ c <= k /\ p <= c
    BY TextIs DEF Cut
  <1>2. SubSeq(d, 1, p) \in Octets /\ e \in Octets /\ g \in Octets /\ t \in Octets
    <2>1. p \in 0..Len(d) /\ k \in 0..Len(d) /\ Len(d) \in 0..Len(d) BY <1>1
    <2>2. 1 \in Nat \ {0} /\ p + 1 \in Nat \ {0} /\ c + 1 \in Nat \ {0} /\ k + 1 \in Nat \ {0} BY <1>1
    <2> QED BY <2>1, <2>2, PartText
  <1>3. b \in Octets BY <1>2, JoinText
  <1>4. SubSeq(d, p + 1, Len(d)) = e \o t
    <2>1. p + 1 \in 1..(Len(d) + 1) /\ k \in ((p + 1) - 1)..Len(d) /\ Len(d) \in k..Len(d) BY <1>1
    <2> QED BY <2>1, JoinParts
  <1>5. SubSeq(d, c + 1, Len(d)) = g \o t
    <2>1. c + 1 \in 1..(Len(d) + 1) /\ k \in ((c + 1) - 1)..Len(d) /\ Len(d) \in k..Len(d) BY <1>1
    <2> QED BY <2>1, JoinParts
  <1>6. OnlyEOL(e) /\ e # <<>>
    <2>1. k \in 0..Len(d) /\ p + 1 \in Nat \ {0} BY <1>1
    <2>2. Len(e) = (IF p + 1 <= k THEN (k - (p + 1)) + 1 ELSE 0)
          /\ \A x \in 1..((k - (p + 1)) + 1) : e[x] = d[((p + 1) + x) - 1]
      BY <2>1, PartText
    <2>3. Len(e) = k - p /\ (k - (p + 1)) + 1 = k - p BY <1>1, <2>2
    <2>4. DOMAIN e = 1..(k - p) /\ e # <<>>
      <3> HIDE DEF e
      <3> QED BY <1>1, <1>2, <2>3, TextIs
    <2>5. ASSUME NEW x \in 1..(k - p) PROVE e[x] = EOL
      <3>1. ((p + 1) + x) - 1 \in (p + 1)..k BY <1>1
      <3> QED BY <2>2, <2>3, <3>1 DEF Cut
    <2> QED BY <2>4, <2>5 DEF OnlyEOL
  <1>7. OnlyEOL(g)
    <2>1. k \in 0..Len(d) /\ c + 1 \in Nat \ {0} BY <1>1
    <2>2. Len(g) = (IF c + 1 <= k THEN (k - (c + 1)) + 1 ELSE 0)
          /\ \A x \in 1..((k - (c + 1)) + 1) : g[x] = d[((c + 1) + x) - 1]
      BY <2>1, PartText
    <2>3. Len(g) = k - c /\ (k - (c + 1)) + 1 = k - c BY <1>1, <2>2
    <2>4. DOMAIN g = 1..(k - c)
      <3> HIDE DEF g
      <3> QED BY <1>1, <1>2, <2>3, TextIs
    <2>5. ASSUME NEW x \in 1..(k - c) PROVE g[x] = EOL
      <3>1. ((c + 1) + x) - 1 \in (p + 1)..k BY <1>1
      <3> QED BY <2>2, <2>3, <3>1 DEF Cut
    <2> QED BY <2>4, <2>5 DEF OnlyEOL
  <1>8. N \in Octets /\ OnlyEOL(N) /\ N # <<>> BY EOLOctet DEF OnlyEOL
  <1> HIDE DEF b, e, g, t, N
  <1>9. N \o g \in Octets /\ OnlyEOL(N \o g) /\ N \o g # <<>> BY <1>2, <1>7, <1>8, JoinText, JoinEOLs
  <1>10. f \o (N \o g) \in Octets /\ OnlyEOL(f \o (N \o g)) /\ f \o (N \o g) # <<>>
    BY <1>9, JoinText, JoinEOLs
  <1>11. Alike(e, f \o (N \o g)) BY <1>2, <1>6, <1>10, AlikeEOLs
  <1>12. Alike(e \o t, (f \o (N \o g)) \o t) BY <1>2, <1>10, <1>11, AlikeFirst
  <1>13. Alike(b \o (e \o t), b \o ((f \o (N \o g)) \o t))
    <2>1. e \o t \in Octets /\ (f \o (N \o g)) \o t \in Octets BY <1>2, <1>10, JoinText
    <2> QED BY <1>3, <1>12, <2>1, AlikeLast
  <1>14. ((b \o f) \o N) \o (g \o t) = b \o ((f \o (N \o g)) \o t)
    <2>1. b \o f \in Octets /\ g \o t \in Octets /\ N \o (g \o t) \in Octets BY <1>2, <1>3, <1>8, JoinText
    <2>2. Regroups(b \o f, N, g \o t) BY <1>8, <2>1, JoinThree
    <2>3. Regroups(b, f, N \o (g \o t)) BY <1>3, <2>1, JoinThree
    <2>4. Regroups(N, g, t) BY <1>2, <1>8, JoinThree
    <2>5. Regroups(f, N \o g, t) BY <1>2, <1>9, JoinThree
    <2> QED BY <2>2, <2>3, <2>4, <2>5 DEF Regroups
  <1> QED BY <1>4, <1>5, <1>13, <1>14 DEF b, N

LEMMA Copied ==
    ASSUME NEW line \in Buffer, ~line.terminated, NoEOL(line.buf), Len(line.buf) < BUF_DATA_SIZE,
           NEW d \in Octets, d # <<>>, NEW raw \in BOOLEAN, FitsIn(line, d)
    PROVE  CopyOK(line, d, rb_linebuf_copy(line, d, raw))
  <1> DEFINE k == rb_linebuf_skip_crlf(d)
             room == Room(line)
             n == IF k > room THEN room ELSE k
             text == line.buf \o SubSeq(d, 1, n)
             buf == IF raw THEN text ELSE ChopEnd(text)
             term == k > room \/ Last(text) = EOL
             clen == IF raw /\ k > room THEN room ELSE k
             c == rb_linebuf_copy(line, d, raw)
  <1>1. /\ c.line.buf = buf /\ c.line.terminated = term /\ c.line.raw = raw /\ c.clen = clen
        /\ c.line = [buf |-> buf, terminated |-> term, raw |-> raw]
    <2>1. c = [line |-> [buf |-> buf, terminated |-> term, raw |-> raw], clen |-> clen] BY CopyIs
    <2> HIDE DEF c, buf, term, clen
    <2> QED BY <2>1
  <1>2. line.buf \in Octets /\ Len(line.buf) \in Nat /\ Len(d) \in Nat \ {0} BY TextIs DEF Buffer
  <1>30. room = (BUF_DATA_SIZE - Len(line.buf)) - 1 /\ BUF_DATA_SIZE \in Nat \ {0, 1}
    BY SizesPositive DEF Room
  <1>3. room \in Nat BY <1>2, <1>30
  <1>4. PICK p : Cut(d, p, k) BY SkipCut
  <1>5. k > room => \E j \in 1..(room + 1) : d[j] = EOL BY DEF FitsIn
  <1> HIDE DEF k, room, c
  <1>6. k \in 1..Len(d) /\ p \in 0..k BY <1>4 DEF Cut
  <1>7. k > room => p <= room
    <2> SUFFICES ASSUME k > room PROVE p <= room OBVIOUS
    <2>1. PICK j \in 1..(room + 1) : d[j] = EOL BY <1>5
    <2>2. ~(j \in 1..p) BY <1>4, <2>1 DEF Cut
    <2>3. p \in Nat /\ j \in Nat \ {0} /\ j <= room + 1 BY <1>3, <1>6, <2>1
    <2>4. p < j BY <2>2, <2>3
    <2> QED BY <1>3, <2>3, <2>4
  <1>8. n \in p..k /\ clen \in n..k /\ n \in 0..Len(d) /\ n <= room
    <2>1. p \in Nat /\ k \in Nat /\ p <= k /\ k <= Len(d) BY <1>2, <1>6
    <2> QED BY <1>2, <1>3, <1>7, <2>1
  <1>9. p = k => ~(k > room)
    <2> SUFFICES ASSUME p = k, k > room PROVE FALSE OBVIOUS
    <2>1. p <= room BY <1>7
    <2>2. p \in Nat BY <1>6
    <2> QED BY <1>3, <2>1, <2>2
  <1> DEFINE r == SubSeq(d, 1, p)
             e == SubSeq(d, p + 1, n)
             a == line.buf \o r
             s == SubSeq(d, p + 1, Len(d))
  <1>10. r \in Octets /\ Len(r) = p /\ NoEOL(r)
    <2>1. p \in 0..Len(d) BY <1>2, <1>6
    <2>2. r \in Octets /\ Len(r) = (IF 1 <= p THEN (p - 1) + 1 ELSE 0)
          /\ \A x \in 1..((p - 1) + 1) : r[x] = d[(1 + x) - 1] BY <2>1, PartText
    <2>3. Len(r) = p /\ (p - 1) + 1 = p BY <1>6, <2>2
    <2>4. DOMAIN r = 1..p
      <3> HIDE DEF r
      <3> QED BY <2>2, <2>3, TextIs
    <2>5. ASSUME NEW x \in 1..p PROVE r[x] # EOL
      <3>1. (1 + x) - 1 = x BY <1>6
      <3> QED BY <1>4, <2>2, <2>3, <3>1 DEF Cut
    <2> QED BY <2>2, <2>3, <2>4, <2>5 DEF NoEOL
  <1>11. e \in Octets /\ Len(e) = n - p /\ OnlyEOL(e) /\ (n = p => e = <<>>)
    <2>1. p + 1 \in Nat \ {0} BY <1>6
    <2>2. e \in Octets /\ Len(e) = (IF p + 1 <= n THEN (n - (p + 1)) + 1 ELSE 0)
          /\ \A x \in 1..((n - (p + 1)) + 1) : e[x] = d[((p + 1) + x) - 1] BY <1>8, <2>1, PartText
    <2> HIDE DEF n
    <2>3. Len(e) = n - p /\ (n - (p + 1)) + 1 = n - p BY <1>6, <1>8, <2>2
    <2>4. DOMAIN e = 1..(n - p) /\ (n = p => e = <<>>)
      <3> HIDE DEF e
      <3> QED BY <1>6, <1>8, <2>2, <2>3, TextIs
    <2>5. ASSUME NEW x \in 1..(n - p) PROVE e[x] = EOL
      <3>1. ((p + 1) + x) - 1 \in (p + 1)..k BY <1>6, <1>8
      <3> QED BY <1>4, <2>2, <2>3, <3>1 DEF Cut
    <2> QED BY <2>2, <2>3, <2>4, <2>5 DEF OnlyEOL
  <1>12. s \in Octets
    <2>1. p + 1 \in Nat \ {0} /\ Len(d) \in 0..Len(d) BY <1>2, <1>6
    <2> QED BY <2>1, PartText
  <1>13. SubSeq(d, 1, n) = r \o e
    <2>1. 1 \in 1..(Len(d) + 1) /\ p \in (1 - 1)..Len(d) /\ n \in p..Len(d) BY <1>2, <1>6, <1>8
    <2> HIDE DEF n
    <2> QED BY <2>1, JoinParts
  <1>14. d = r \o s
    <2>1. 1 \in 1..(Len(d) + 1) /\ p \in (1 - 1)..Len(d) /\ Len(d) \in p..Len(d) BY <1>2, <1>6
    <2>2. r \o s = SubSeq(d, 1, Len(d)) BY <2>1, JoinParts
    <2> QED BY <2>2, SubSeqFull DEF Octets
  <1> HIDE DEF r, e, s, n, clen
  <1>15. a \in Octets /\ Len(a) = Len(line.buf) + p /\ NoEOL(a) BY <1>2, <1>10, JoinText, JoinNoEOL
  <1>16. text = a \o e
    <2>1. line.buf \in Octets /\ r \in Octets /\ e \in Octets BY <1>2, <1>10, <1>11
    <2>2. Regroups(line.buf, r, e) BY <2>1, JoinThree
    <2> QED BY <1>13, <2>2 DEF Regroups
  <1>17. line.buf \o d = a \o s
    <2>1. Regroups(line.buf, r, s) BY <1>2, <1>10, <1>12, JoinThree
    <2> QED BY <1>14, <2>1 DEF Regroups
  <1> HIDE DEF a, text
  <1>18. ChopEnd(text) = a BY <1>11, <1>15, <1>16, LineAndEnds
  <1> DEFINE f == IF raw THEN e ELSE <<>>
  <1>19. f \in Octets /\ OnlyEOL(f) /\ Len(f) <= n - p /\ (n = p => f = <<>>)
    <2>1. <<>> \in Octets /\ OnlyEOL(<<>>) /\ Len(<<>>) = 0 BY <1>15, TextIs DEF OnlyEOL
    <2>2. 0 <= n - p BY <1>6, <1>8
    <2>3. CASE raw BY <1>6, <1>8, <1>11, <2>3
    <2>4. CASE ~raw BY <2>1, <2>2, <2>4
    <2> QED BY <2>3, <2>4
  <1>20. buf = a \o f
    <2>1. a \o <<>> = a BY <1>15, TextIs
    <2> QED BY <1>16, <1>18, <2>1
  <1> HIDE DEF buf, f
  <1>21. term <=> p < k
    <2>1. ASSUME p < k PROVE term
      <3>1. CASE k > room BY <3>1
      <3>2. CASE ~(k > room)
        <4>1. n = k /\ Len(e) = k - p /\ Len(e) \in Nat \ {0} BY <1>6, <1>11, <2>1, <3>2 DEF n
        <4>2. Len(text) = Len(a) + Len(e) /\ Len(a) \in Nat BY <1>11, <1>15, <1>16, JoinText, TextIs
        <4>3. Len(text) \in 1..(Len(a) + Len(e)) /\ ~(Len(text) <= Len(a)) /\ Len(text) - Len(a) = Len(e)
          BY <4>1, <4>2
        <4>4. text[Len(text)] = e[Len(e)]
          <5>1. \A i \in 1..(Len(a) + Len(e)) : text[i] = IF i <= Len(a) THEN a[i] ELSE e[i - Len(a)]
            BY <1>11, <1>15, <1>16, JoinText
          <5>2. text[Len(text)] = IF Len(text) <= Len(a) THEN a[Len(text)] ELSE e[Len(text) - Len(a)]
            BY <4>3, <5>1
          <5> QED BY <4>3, <5>2
        <4>5. Len(e) \in DOMAIN e BY <1>11, <4>1, TextIs
        <4>6. e[Len(e)] = EOL BY <1>11, <4>5 DEF OnlyEOL
        <4> QED BY <4>4, <4>6 DEF Last
      <3> QED BY <3>1, <3>2
    <2>2. ASSUME ~(p < k) PROVE ~term
      <3>1. p = k /\ ~(k > room) BY <1>6, <1>9, <2>2
      <3>2. n = p BY <3>1 DEF n
      <3>3. text = a BY <1>11, <1>15, <1>16, <3>2, TextIs
      <3>4. Len(a) \in DOMAIN a
        <4>1. Len(a) \in Nat \ {0} BY <1>2, <1>6, <1>15, <3>1
        <4> QED BY <1>15, <4>1, TextIs
      <3>5. Last(text) # EOL BY <1>15, <3>3, <3>4 DEF Last, NoEOL
      <3> QED BY <3>1, <3>5
    <2> QED BY <2>1, <2>2
  <1> HIDE DEF term
  <1>22. buf \in Octets /\ OneLine(buf) /\ Len(buf) < BUF_DATA_SIZE
    <2>1. buf \in Octets /\ OneLine(buf) BY <1>15, <1>19, <1>20, JoinText, LineAndEnds
    <2>2. Len(buf) = Len(a) + Len(f) /\ Len(f) \in Nat BY <1>15, <1>19, <1>20, JoinText, TextIs
    <2>3. Len(buf) <= Len(line.buf) + room
      <3>1. p \in Nat /\ n \in Nat /\ p <= n BY <1>6, <1>8
      <3>2. Len(f) <= n - p /\ Len(a) = Len(line.buf) + p /\ n <= room BY <1>8, <1>15, <1>19
      <3> QED BY <1>2, <1>3, <2>2, <3>1, <3>2
    <2>4. Len(buf) \in Nat BY <2>1, TextIs
    <2> QED BY <1>2, <1>3, <1>30, <2>1, <2>3, <2>4
  <1>23. term \in BOOLEAN BY DEF term
  <1>24. c.line \in Buffer BY <1>1, <1>22, <1>23 DEF Buffer
  <1>25. clen \in 0..Len(d) BY <1>2, <1>6, <1>8
  <1>26. line.buf = <<>> => clen >= 1
    <2> SUFFICES ASSUME line.buf = <<>> PROVE clen >= 1 OBVIOUS
    <2>1. Len(line.buf) = 0 BY <1>2, TextIs
    <2>2. room >= 1 BY <1>30, <2>1
    <2> QED BY <1>3, <1>6, <2>2 DEF clen
  <1>27. Piece(c.line) = IF term THEN buf \o <<EOL>> ELSE buf BY <1>1, <1>24, PieceIs
  <1>28. CASE p < k
    <2>1. Alike(a \o s, ((a \o f) \o <<EOL>>) \o SubSeq(d, clen + 1, Len(d)))
      BY <1>2, <1>4, <1>8, <1>19, <1>28, CutAlike DEF a, r, s
    <2>2. Alike(line.buf \o d, Piece(c.line) \o SubSeq(d, c.clen + 1, Len(d)))
      BY <1>1, <1>17, <1>20, <1>21, <1>27, <1>28, <2>1
    <2> QED BY <1>1, <1>21, <1>22, <1>24, <1>25, <1>26, <1>28, <2>2 DEF CopyOK, c
  <1>29. CASE ~(p < k)
    <2>1. p = k /\ ~(k > room) BY <1>6, <1>9, <1>29
    <2>2. k = Len(d) BY <1>4, <2>1 DEF Cut
    <2>3. clen = Len(d) /\ n = p BY <2>1, <2>2 DEF clen, n
    <2>4. f = <<>> /\ s = <<>>
      <3>1. f = <<>> BY <1>19, <2>3
      <3>2. Len(d) < p + 1 /\ Len(d) \in Int /\ p + 1 \in Int BY <1>2, <2>1, <2>2
      <3> QED BY <3>1, <3>2, SubSeqEmpty DEF s
    <2>5. buf = a /\ line.buf \o d = a BY <1>15, <1>17, <1>20, <2>4, TextIs
    <2>6. ~term BY <1>21, <1>29
    <2>7. SubSeq(d, c.clen + 1, Len(d)) = <<>>
      <3>1. Len(d) < Len(d) + 1 /\ Len(d) \in Int /\ Len(d) + 1 \in Int BY <1>2
      <3> QED BY <1>1, <2>3, <3>1, SubSeqEmpty
    <2>8. Piece(c.line) \o <<>> = a BY <1>15, <1>27, <2>5, <2>6, TextIs
    <2>9. Alike(line.buf \o d, Piece(c.line) \o SubSeq(d, c.clen + 1, Len(d)))
      BY <2>5, <2>7, <2>8 DEF Alike
    <2> QED BY <1>1, <1>15, <1>22, <1>24, <1>25, <1>26, <2>3, <2>5, <2>6, <2>9 DEF CopyOK, c
  <1> QED BY <1>28, <1>29

-----------------------------------------------------------------------------
(* rb_linebuf_parse().                                                      *)

\* The buffer b of an unfinished line has what was read last.
Unfinished(b, x, at) == NoEOL(b) /\ Len(b) <= at /\ b = SubSeq(x, (at - Len(b)) + 1, at)

LineOK(line) == OneLine(line.buf) /\ Len(line.buf) < BUF_DATA_SIZE

Finished(q) == q \in Seq(Buffer) /\ \A i \in 1..Len(q) : LineOK(q[i]) /\ q[i].terminated

\* The buffers, when at bytes of x were read: only the last is unfinished.
BuffersOK(q, x, at) ==
    /\ q \in Seq(Buffer)
    /\ \A i \in 1..Len(q) : /\ LineOK(q[i])
                            /\ i # Len(q) => q[i].terminated
                            /\ ~q[i].terminated => Unfinished(q[i].buf, x, at)

LEMMA FinishedOK == ASSUME NEW q, Finished(q), NEW x, NEW at PROVE BuffersOK(q, x, at)
  BY DEF Finished, BuffersOK

LEMMA AppendOK ==
    ASSUME NEW q, Finished(q), NEW l \in Buffer, LineOK(l), NEW x, NEW at,
           ~l.terminated => Unfinished(l.buf, x, at)
    PROVE  BuffersOK(Append(q, l), x, at) /\ (l.terminated => Finished(Append(q, l)))
  <1> DEFINE r == Append(q, l)
  <1>1. q \in Seq(Buffer) /\ Len(q) \in Nat BY DEF Finished
  <1>2. r \in Seq(Buffer) /\ Len(r) = Len(q) + 1 /\ r[Len(q) + 1] = l /\ \A i \in 1..Len(q) : r[i] = q[i]
    BY <1>1, AppendProperties
  <1> HIDE DEF r
  <1>3. \A i \in 1..Len(r) : i = Len(r) \/ i \in 1..Len(q) BY <1>1, <1>2
  <1>4. r[Len(r)] = l BY <1>2
  <1>5. \A i \in 1..Len(q) : LineOK(r[i]) /\ r[i].terminated BY <1>2 DEF Finished
  <1>6. BuffersOK(r, x, at) BY <1>2, <1>3, <1>4, <1>5 DEF BuffersOK
  <1>7. l.terminated => Finished(r) BY <1>2, <1>3, <1>4, <1>5 DEF Finished
  <1> QED BY <1>6, <1>7 DEF r

\* No line is longer than a buffer.
LEMMA FitsAt ==
    ASSUME LinesFit, NEW x \in Streams, NEW at \in Nat, NEW r \in Nat \ {0}, at + r <= Len(x),
           NEW line \in Buffer, LineOK(line), Unfinished(line.buf, x, at)
    PROVE  FitsIn(line, SubSeq(x, at + 1, at + r))
  <1> DEFINE d == SubSeq(x, at + 1, at + r)
             n == Len(line.buf)
             room == Room(line)
             i == (at - n) + 1
  <1>1. x \in Octets /\ Len(x) \in Nat /\ DOMAIN x = 1..Len(x) BY StreamText, TextIs
  <1>2. line.buf \in Octets /\ n \in Nat /\ n <= at /\ DOMAIN line.buf = 1..n
    BY TextIs DEF Buffer, Unfinished
  <1>3. BUF_DATA_SIZE \in Nat /\ n < BUF_DATA_SIZE /\ room = (BUF_DATA_SIZE - n) - 1
    BY SizesPositive DEF Room, LineOK
  <1>4. room \in Nat BY <1>2, <1>3
  <1>5. d \in Octets /\ Len(d) = r /\ \A y \in 1..r : d[y] = x[at + y]
    <2>1. at + 1 \in Nat \ {0} /\ at + r \in 0..Len(x) BY <1>1
    <2>2. d \in Octets /\ Len(d) = (IF at + 1 <= at + r THEN ((at + r) - (at + 1)) + 1 ELSE 0)
          /\ \A y \in 1..(((at + r) - (at + 1)) + 1) : d[y] = x[((at + 1) + y) - 1]
      BY <1>1, <2>1, PartText
    <2>3. at + 1 <= at + r /\ ((at + r) - (at + 1)) + 1 = r /\ \A y \in 1..r : ((at + 1) + y) - 1 = at + y
      OBVIOUS
    <2> HIDE DEF d
    <2> QED BY <2>2, <2>3
  <1> HIDE DEF d, room
  <1>6. SUFFICES ASSUME rb_linebuf_skip_crlf(d) > room PROVE \E j \in 1..(room + 1) : d[j] = EOL
    BY DEF FitsIn, d, room
  <1>7. room + 1 <= r
    <2>1. d # <<>> BY <1>5, TextIs
    <2>2. PICK p : Cut(d, p, rb_linebuf_skip_crlf(d)) BY <1>5, <2>1, SkipCut
    <2>3. rb_linebuf_skip_crlf(d) \in 1..r BY <1>5, <2>2 DEF Cut
    <2> QED BY <1>4, <1>6, <2>3
  <1>8. i \in 1..Len(x) /\ i + BUF_DATA_SIZE - 1 = (at + room) + 1 BY <1>1, <1>2, <1>3
  <1>9. i + BUF_DATA_SIZE - 1 <= Len(x)
    <2>1. (at + room) + 1 <= at + r BY <1>4, <1>7
    <2>2. (at + room) + 1 <= Len(x) BY <1>1, <1>4, <2>1
    <2> HIDE DEF i
    <2> QED BY <1>8, <2>2
  <1>10. PICK j \in i..(i + BUF_DATA_SIZE - 1) : x[j] = EOL
    BY <1>1, <1>8, <1>9 DEF LinesFit
  <1>14. j \in Nat /\ i <= j /\ j <= (at + room) + 1
    <2>1. i \in Nat BY <1>8
    <2>2. j \in i..((at + room) + 1) BY <1>8, <1>10
    <2> HIDE DEF i
    <2> QED BY <1>4, <2>1, <2>2
  <1>11. ~(j <= at)
    <2> SUFFICES ASSUME j <= at PROVE FALSE OBVIOUS
    <2> DEFINE y == (j - i) + 1
    <2>1. y \in 1..n /\ ((at - n) + 1 + y) - 1 = j
      <3>1. (at - n) + 1 <= j BY <1>14
      <3> HIDE DEF n
      <3> QED BY <1>2, <1>14, <3>1
    <2>2. i \in Nat \ {0} /\ at \in 0..Len(x) /\ (at - i) + 1 = n BY <1>1, <1>2, <1>8
    <2>3. \A z \in 1..((at - i) + 1) : SubSeq(x, i, at)[z] = x[(i + z) - 1] BY <1>1, <2>2, PartText
    <2>4. SubSeq(x, i, at)[y] = x[j] BY <2>1, <2>2, <2>3
    <2>5. line.buf[y] = EOL BY <1>10, <2>4 DEF Unfinished
    <2> QED BY <1>2, <2>1, <2>5 DEF Unfinished, NoEOL
  <1>12. j - at \in 1..(room + 1) /\ at + (j - at) = j BY <1>4, <1>11, <1>14
  <1>13. d[j - at] = EOL
    <2>1. j - at \in 1..r BY <1>4, <1>7, <1>12
    <2>2. d[j - at] = x[at + (j - at)] BY <1>5, <2>1
    <2> QED BY <1>10, <1>12, <2>2
  <1> QED BY <1>12, <1>13

LEMMA PartIs ==
    ASSUME NEW x \in Octets, NEW at \in Nat, NEW r \in Nat, at + r <= Len(x)
    PROVE  /\ SubSeq(x, at + 1, at + r) \in Octets /\ Len(SubSeq(x, at + 1, at + r)) = r
           /\ \A y \in 1..r : SubSeq(x, at + 1, at + r)[y] = x[at + y]
  <1> DEFINE d == SubSeq(x, at + 1, at + r)
  <1>1. Len(x) \in Nat BY TextIs
  <1>2. at + 1 \in Nat \ {0} /\ at + r \in 0..Len(x) BY <1>1
  <1>3. d \in Octets /\ Len(d) = (IF at + 1 <= at + r THEN ((at + r) - (at + 1)) + 1 ELSE 0)
        /\ \A y \in 1..(((at + r) - (at + 1)) + 1) : d[y] = x[((at + 1) + y) - 1]
    BY <1>2, PartText
  <1>4. ((at + r) - (at + 1)) + 1 = r /\ \A y \in 1..r : ((at + 1) + y) - 1 = at + y
    OBVIOUS
  <1>5. (IF at + 1 <= at + r THEN ((at + r) - (at + 1)) + 1 ELSE 0) = r OBVIOUS
  <1> HIDE DEF d
  <1>6. Len(d) = r BY <1>3, <1>5
  <1>7. \A y \in 1..r : d[y] = x[at + y] BY <1>3, <1>4
  <1> QED BY <1>3, <1>6, <1>7 DEF d

\* The rest of a part.
LEMMA PartOfPart ==
    ASSUME NEW x \in Octets, NEW at \in Nat, NEW r \in Nat, at + r <= Len(x), NEW k \in 0..r
    PROVE  SubSeq(SubSeq(x, at + 1, at + r), k + 1, r) = SubSeq(x, (at + k) + 1, at + r)
  <1> DEFINE d == SubSeq(x, at + 1, at + r)
             a == SubSeq(d, k + 1, r)
             b == SubSeq(x, (at + k) + 1, at + r)
  <1>1. d \in Octets /\ Len(d) = r /\ \A y \in 1..r : d[y] = x[at + y] BY PartIs
  <1> HIDE DEF d
  <1>2. k \in Nat /\ r - k \in Nat /\ k + (r - k) = r /\ (at + k) + (r - k) = at + r /\ at + k \in Nat OBVIOUS
  <1>3. a \in Octets /\ Len(a) = r - k /\ \A y \in 1..(r - k) : a[y] = d[k + y]
    <2>1. k + (r - k) <= Len(d) BY <1>1, <1>2
    <2>2. LET z == SubSeq(d, k + 1, k + (r - k))
          IN  z \in Octets /\ Len(z) = r - k /\ \A y \in 1..(r - k) : z[y] = d[k + y]
      BY <1>1, <1>2, <2>1, PartIs
    <2> QED BY <1>2, <2>2
  <1>4. b \in Octets /\ Len(b) = r - k /\ \A y \in 1..(r - k) : b[y] = x[(at + k) + y]
    <2>1. (at + k) + (r - k) <= Len(x) BY <1>2
    <2>2. LET z == SubSeq(x, (at + k) + 1, (at + k) + (r - k))
          IN  z \in Octets /\ Len(z) = r - k /\ \A y \in 1..(r - k) : z[y] = x[(at + k) + y]
      BY <1>2, <2>1, PartIs
    <2> QED BY <1>2, <2>2
  <1>5. ASSUME NEW y \in 1..(r - k) PROVE a[y] = b[y]
    <2>1. k + y \in 1..r /\ at + (k + y) = (at + k) + y BY <1>2
    <2> QED BY <1>1, <1>3, <1>4, <2>1
  <1> HIDE DEF a, b
  <1>6. a = b BY <1>3, <1>4, <1>5, SeqEqual DEF Octets
  <1> QED BY <1>6 DEF a, b, d

\* One more line is begun or gone on with, behind finished ones.
GoesOn(q, line, x, at, r, raw) ==
    LET d == SubSeq(x, at + 1, at + r)
        c == rb_linebuf_copy(line, d, raw)
        p == Append(q, c.line)
    IN  /\ c.clen \in 0..r
        /\ p \in Seq(Buffer) /\ BuffersOK(p, x, at + c.clen)
        /\ Finished(p) \/ c.clen = r
        /\ line.buf = <<>> => c.clen >= 1
        /\ Alike(Flat(p) \o SubSeq(x, (at + c.clen) + 1, at + r), Flat(q) \o (line.buf \o d))

LEMMA CopyStep ==
    ASSUME LinesFit, NEW x \in Streams, NEW at \in Nat, NEW r \in Nat \ {0}, at + r <= Len(x),
           NEW q, Finished(q), NEW line \in Buffer, ~line.terminated, LineOK(line),
           Unfinished(line.buf, x, at), NEW raw \in BOOLEAN
    PROVE  GoesOn(q, line, x, at, r, raw)
  <1> DEFINE d == SubSeq(x, at + 1, at + r)
             c == rb_linebuf_copy(line, d, raw)
             p == Append(q, c.line)
             rest == SubSeq(d, c.clen + 1, r)
  <1>1. x \in Octets /\ Len(x) \in Nat BY StreamText, TextIs
  <1>2. d \in Octets /\ Len(d) = r /\ d # <<>>
    <2>1. d \in Octets /\ Len(d) = r BY <1>1, PartIs
    <2> QED BY <2>1, TextIs
  <1>3. line.buf \in Octets /\ NoEOL(line.buf) /\ Len(line.buf) < BUF_DATA_SIZE
        /\ Len(line.buf) \in Nat /\ Len(line.buf) <= at
    BY TextIs DEF Buffer, Unfinished, LineOK
  <1>4. FitsIn(line, d) BY FitsAt
  <1> HIDE DEF d
  <1>5. CopyOK(line, d, c) BY <1>2, <1>3, <1>4, Copied
  <1> HIDE DEF c
  <1>6. c.line \in Buffer /\ c.clen \in 0..r /\ LineOK(c.line) /\ (line.buf = <<>> => c.clen >= 1)
        /\ Alike(line.buf \o d, Piece(c.line) \o rest)
    BY <1>2, <1>5 DEF CopyOK, LineOK
  <1>7. ~c.line.terminated => c.clen = r /\ c.line.buf = line.buf \o d /\ NoEOL(c.line.buf)
    BY <1>2, <1>5 DEF CopyOK
  <1>8. ASSUME ~c.line.terminated PROVE Unfinished(c.line.buf, x, at + c.clen)
    <2> DEFINE n == Len(line.buf)
    <2>1. c.clen = r /\ c.line.buf = line.buf \o d /\ NoEOL(c.line.buf) BY <1>7, <1>8
    <2>2. Len(c.line.buf) = n + r
      <3>1. Len(line.buf \o d) = Len(line.buf) + Len(d) BY <1>2, <1>3, JoinText
      <3> QED BY <1>2, <2>1, <3>1
    <2>3. ((at + r) - (n + r)) + 1 = (at - n) + 1 /\ n + r <= at + r BY <1>3
    <2>4. line.buf = SubSeq(x, (at - n) + 1, at) BY DEF Unfinished
    <2>5. SubSeq(x, (at - n) + 1, at) \o SubSeq(x, at + 1, at + r) = SubSeq(x, (at - n) + 1, at + r)
      <3>1. (at - n) + 1 \in 1..(Len(x) + 1) /\ at \in (((at - n) + 1) - 1)..Len(x) /\ at + r \in at..Len(x)
        <4>1. n \in Nat /\ n <= at BY <1>3
        <4> HIDE DEF n
        <4> QED BY <1>1, <4>1
      <3> HIDE DEF n
      <3> QED BY <1>1, <3>1, JoinParts
    <2>6. c.line.buf = SubSeq(x, (at - n) + 1, at + r) BY <2>1, <2>4, <2>5 DEF d
    <2> HIDE DEF n
    <2> QED BY <2>1, <2>2, <2>3, <2>6 DEF Unfinished
  <1>9. BuffersOK(p, x, at + c.clen) /\ (c.line.terminated => Finished(p)) BY <1>6, <1>8, AppendOK
  <1>10. rest = SubSeq(x, (at + c.clen) + 1, at + r) BY <1>1, <1>6, PartOfPart DEF d
  <1>11. rest \in Octets
    <2>1. c.clen + 1 \in Nat \ {0} /\ r \in 0..Len(d) BY <1>2, <1>6
    <2> QED BY <1>2, <2>1, PartText
  <1> HIDE DEF rest
  <1>12. Flat(p) = Flat(q) \o Piece(c.line) /\ Flat(q) \in Octets /\ Piece(c.line) \in Octets
    BY <1>6, FlatAppend, FlatType, PieceIs DEF Finished
  <1>13. Alike(Flat(p) \o rest, Flat(q) \o (line.buf \o d))
    <2>1. line.buf \o d \in Octets /\ Piece(c.line) \o rest \in Octets BY <1>2, <1>3, <1>11, <1>12, JoinText
    <2>2. Alike(Flat(q) \o (line.buf \o d), Flat(q) \o (Piece(c.line) \o rest))
      BY <1>6, <1>12, <2>1, AlikeLast
    <2>3. Regroups(Flat(q), Piece(c.line), rest) BY <1>11, <1>12, JoinThree
    <2>4. Flat(p) \o rest = Flat(q) \o (Piece(c.line) \o rest) BY <1>12, <2>3 DEF Regroups
    <2> QED BY <2>2, <2>4 DEF Alike
  <1>14. p \in Seq(Buffer) BY <1>9 DEF BuffersOK
  <1> QED BY <1>6, <1>7, <1>9, <1>10, <1>13, <1>14 DEF GoesOn, c, d

\* The loop: what is left of the r bytes after at goes into new lines.
Round(s, d, raw) ==
    LET c == rb_linebuf_copy(rb_linebuf_new_line, SubSeq(d, s.n + 1, Len(d)), raw)
    IN  IF s.n = Len(d) THEN s ELSE [q |-> Append(s.q, c.line), n |-> s.n + c.clen]

First(q, d, raw) ==
    LET first == IF q = <<>> THEN [line |-> rb_linebuf_new_line, clen |-> 0]
                 ELSE rb_linebuf_copy(Last(q), d, raw)
    IN  [q |-> IF q = <<>> THEN q ELSE Append(Front(q), first.line), n |-> first.clen]

LEMMA ParseIs ==
    ASSUME NEW q, NEW d, NEW raw
    PROVE  LET cut == CHOOSE f : f = [i \in 0..Len(d) |->
                         IF i = 0 THEN First(q, d, raw) ELSE Round(f[i - 1], d, raw)]
           IN  rb_linebuf_parse(q, d, raw) = cut[Len(d)].q
  BY Zenon DEF rb_linebuf_parse, First, Round

\* The states of the loop.
Halfway(q, x, at, r) ==
    {s \in [q : Seq(Buffer), n : 0..r] :
       /\ BuffersOK(s.q, x, at + s.n)
       /\ Finished(s.q) \/ s.n = r
       /\ Alike(Flat(s.q) \o SubSeq(x, (at + s.n) + 1, at + r), Flat(q) \o SubSeq(x, at + 1, at + r))}

LEMMA HalfwayIs ==
    ASSUME NEW q, NEW x, NEW at, NEW r, NEW p \in Seq(Buffer), NEW n \in 0..r,
           BuffersOK(p, x, at + n), Finished(p) \/ n = r,
           Alike(Flat(p) \o SubSeq(x, (at + n) + 1, at + r), Flat(q) \o SubSeq(x, at + 1, at + r))
    PROVE  [q |-> p, n |-> n] \in Halfway(q, x, at, r)
  BY DEF Halfway

LEMMA AlikeTwice ==
    ASSUME NEW a, NEW b, NEW c, Alike(a, b), Alike(b, c)
    PROVE  Alike(a, c)
  BY DEF Alike

LEMMA NewLine ==
    /\ rb_linebuf_new_line \in Buffer /\ ~rb_linebuf_new_line.terminated
    /\ rb_linebuf_new_line.buf = <<>> /\ LineOK(rb_linebuf_new_line)
    /\ \A x \in Octets : \A at \in Nat : Unfinished(<<>>, x, at)
  <1>1. <<>> \in Octets /\ Len(<<>>) = 0 /\ OneLine(<<>>) /\ NoEOL(<<>>)
    BY DEF Octets, OneLine, NoEOL
  <1>2. BUF_DATA_SIZE \in Nat /\ 0 < BUF_DATA_SIZE BY SizesPositive
  <1>3. ASSUME NEW x \in Octets, NEW at \in Nat PROVE Unfinished(<<>>, x, at)
    <2>1. (at - 0) + 1 = at + 1 /\ at < at + 1 /\ at \in Int /\ at + 1 \in Int /\ 0 <= at OBVIOUS
    <2>2. SubSeq(x, at + 1, at) = <<>> BY <2>1, SubSeqEmpty
    <2> QED BY <1>1, <2>1, <2>2 DEF Unfinished
  <1> QED BY <1>1, <1>2, <1>3 DEF rb_linebuf_new_line, Buffer, LineOK

LEMMA RoundOK ==
    ASSUME LinesFit, NEW x \in Streams, NEW at \in Nat, NEW r \in Nat \ {0}, at + r <= Len(x),
           NEW q, NEW raw \in BOOLEAN, NEW s \in Halfway(q, x, at, r)
    PROVE  LET t == Round(s, SubSeq(x, at + 1, at + r), raw)
           IN  /\ t \in Halfway(q, x, at, r)
               /\ IF s.n = r THEN t.n = r ELSE t.n > s.n
  <1> DEFINE d == SubSeq(x, at + 1, at + r)
             e == SubSeq(d, s.n + 1, r)
             new == rb_linebuf_new_line
             c == rb_linebuf_copy(new, e, raw)
             t == Round(s, d, raw)
             k == at + s.n
             m == r - s.n
             p == Append(s.q, c.line)
  <1>1. x \in Octets BY StreamText
  <1>2. d \in Octets /\ Len(d) = r BY <1>1, PartIs
  <1>3. s.q \in Seq(Buffer) /\ s.n \in 0..r /\ BuffersOK(s.q, x, at + s.n) /\ (Finished(s.q) \/ s.n = r)
        /\ Alike(Flat(s.q) \o SubSeq(x, (at + s.n) + 1, at + r), Flat(q) \o d)
    BY DEF Halfway
  <1>4. t = IF s.n = r THEN s ELSE [q |-> p, n |-> s.n + c.clen] BY <1>2 DEF Round
  <1>5. CASE s.n = r BY <1>4, <1>5
  <1>6. CASE s.n # r
    <2>1. k \in Nat /\ m \in Nat \ {0} /\ k + m = at + r /\ s.n \in Nat /\ m <= r BY <1>3, <1>6
    <2>2. e = SubSeq(x, k + 1, k + m)
      <3>1. r \in Nat OBVIOUS
      <3>2. e = SubSeq(x, (at + s.n) + 1, at + r) BY <1>1, <1>3, <3>1, PartOfPart
      <3> QED BY <2>1, <3>2
    <2>14. k + m <= Len(x) BY <2>1
    <2> HIDE DEF k, m, d, new
    <2>3. new \in Buffer /\ ~new.terminated /\ new.buf = <<>> /\ LineOK(new) /\ Unfinished(new.buf, x, k)
      BY <1>1, <2>1, NewLine DEF new
    <2>4. Finished(s.q) BY <1>3, <1>6
    <2> HIDE DEF e
    <2>5. /\ c.clen \in 0..m
          /\ p \in Seq(Buffer) /\ BuffersOK(p, x, k + c.clen)
          /\ Finished(p) \/ c.clen = m
          /\ c.clen >= 1
          /\ Alike(Flat(p) \o SubSeq(x, (k + c.clen) + 1, k + m), Flat(s.q) \o (new.buf \o e))
      <3> DEFINE D == SubSeq(x, k + 1, k + m)
                 C == rb_linebuf_copy(new, D, raw)
                 P == Append(s.q, C.line)
      <3>1. /\ C.clen \in 0..m
            /\ P \in Seq(Buffer) /\ BuffersOK(P, x, k + C.clen)
            /\ Finished(P) \/ C.clen = m
            /\ new.buf = <<>> => C.clen >= 1
            /\ Alike(Flat(P) \o SubSeq(x, (k + C.clen) + 1, k + m), Flat(s.q) \o (new.buf \o D))
        <4>1. GoesOn(s.q, new, x, k, m, raw) BY <2>1, <2>3, <2>4, <2>14, CopyStep
        <4> QED BY <4>1 DEF GoesOn
      <3>2. D = e BY <2>2
      <3>3. C = c /\ P = p BY <3>2
      <3> HIDE DEF D, C, P, c, p
      <3> QED BY <2>3, <3>1, <3>2, <3>3
    <2> HIDE DEF c, p
    <2> DEFINE n == s.n + c.clen
    <2>6. n \in 0..r /\ k + c.clen = at + n /\ n > s.n /\ (c.clen = m => n = r)
      <3>1. c.clen \in Nat /\ c.clen <= m /\ c.clen >= 1 BY <2>1, <2>5
      <3>2. s.n \in Nat /\ k = at + s.n /\ m = r - s.n BY <2>1 DEF k, m
      <3> DEFINE w == c.clen
                 y == s.n
      <3> HIDE DEF w, y
      <3>3. y + w \in 0..r /\ (at + y) + w = at + (y + w) /\ y + w > y /\ (w = r - y => y + w = r)
        BY <3>1, <3>2 DEF w, y
      <3> QED BY <3>2, <3>3 DEF w, y
    <2> HIDE DEF n
    <2>7. new.buf \o e = SubSeq(x, k + 1, at + r)
      <3>2. e \in Octets BY <1>1, <2>1, <2>2, <2>14, PartIs
      <3> QED BY <2>1, <2>2, <2>3, <3>2, TextIs
    <2>8. Alike(Flat(p) \o SubSeq(x, (at + n) + 1, at + r), Flat(s.q) \o SubSeq(x, k + 1, at + r))
      BY <2>1, <2>5, <2>6, <2>7
    <2>9. Alike(Flat(p) \o SubSeq(x, (at + n) + 1, at + r), Flat(q) \o d)
      BY <1>3, <2>8, AlikeTwice DEF k
    <2>10. BuffersOK(p, x, at + n) /\ (Finished(p) \/ n = r) /\ p \in Seq(Buffer) BY <2>5, <2>6
    <2>11. [q |-> p, n |-> n] \in Halfway(q, x, at, r) BY <2>6, <2>9, <2>10, HalfwayIs DEF d
    <2>12. t = [q |-> p, n |-> n] BY <1>4, <1>6 DEF n
    <2>13. t.n = n BY <2>12
    <2> HIDE DEF t
    <2> QED BY <1>6, <2>6, <2>11, <2>12, <2>13 DEF t, d
  <1> QED BY <1>5, <1>6

LEMMA LastOff ==
    ASSUME NEW x, NEW at, NEW q, BuffersOK(q, x, at), q # <<>>
    PROVE  /\ Len(q) \in Nat \ {0} /\ Last(q) \in Buffer /\ LineOK(Last(q))
           /\ ~Last(q).terminated => Unfinished(Last(q).buf, x, at)
           /\ Finished(Front(q)) /\ q = Append(Front(q), Last(q))
  <1> DEFINE n == Len(q)
             f == Front(q)
  <1>1. q \in Seq(Buffer) /\ n \in Nat \ {0} BY EmptySeq DEF BuffersOK
  <1>2. n \in 1..n /\ \A i \in 1..n : q[i] \in Buffer BY <1>1
  <1>3. q[n] \in Buffer /\ LineOK(q[n]) /\ (~q[n].terminated => Unfinished(q[n].buf, x, at))
    BY <1>2 DEF BuffersOK
  <1>4. f = SubSeq(q, 1, n - 1) BY DEF Front
  <1> HIDE DEF n, f
  <1>5. f \in Seq(Buffer) /\ Len(f) = n - 1 /\ \A i \in 1..(n - 1) : f[i] = q[i]
    <2>1. 1 \in Int /\ n - 1 \in Int /\ \A i \in 1..(n - 1) : q[i] \in Buffer BY <1>1, <1>2
    <2>2. /\ f \in Seq(Buffer) /\ Len(f) = IF 1 <= n - 1 THEN (n - 1) - 1 + 1 ELSE 0
          /\ \A i \in 1..((n - 1) - 1 + 1) : f[i] = q[1 + i - 1]
      BY <1>4, <2>1, SubSeqProperties
    <2>3. (n - 1) - 1 + 1 = n - 1 /\ \A i \in 1..(n - 1) : 1 + i - 1 = i BY <1>1
    <2>4. Len(f) = n - 1 BY <1>1, <2>2, <2>3
    <2>5. \A i \in 1..(n - 1) : f[i] = q[i] BY <2>2, <2>3
    <2> QED BY <2>2, <2>4, <2>5
  <1>6. Finished(f)
    <2>1. ASSUME NEW i \in 1..Len(f) PROVE LineOK(f[i]) /\ f[i].terminated
      <3>1. i \in 1..n /\ i # n /\ i \in 1..(n - 1) BY <1>1, <1>5
      <3>2. LineOK(q[i]) /\ q[i].terminated BY <3>1 DEF BuffersOK, n
      <3> QED BY <1>5, <3>1, <3>2
    <2> QED BY <1>5, <2>1 DEF Finished
  <1>7. q = Append(f, q[n])
    <2>1. n \in 1..Len(q) /\ 1 \in 1..Len(q) /\ n \in 1..Len(q) BY <1>1 DEF n
    <2>2. SubSeq(q, 1, n) = SubSeq(q, 1, n - 1) \o <<q[n]>> BY <1>1, <2>1, SubSeqRecursiveSecond
    <2>3. SubSeq(q, 1, n) = q BY <1>1, SubSeqFull DEF n
    <2>4. Append(f, q[n]) = f \o <<q[n]>> BY <1>3, <1>5, AppendIsConcat
    <2> QED BY <1>4, <2>2, <2>3, <2>4
  <1> QED BY <1>1, <1>3, <1>6, <1>7 DEF Last, n, f

LEMMA StartOK ==
    ASSUME LinesFit, NEW x \in Streams, NEW at \in Nat, NEW r \in Nat \ {0}, at + r <= Len(x),
           NEW q, BuffersOK(q, x, at), NEW raw \in BOOLEAN
    PROVE  First(q, SubSeq(x, at + 1, at + r), raw) \in Halfway(q, x, at, r)
  <1> DEFINE d == SubSeq(x, at + 1, at + r)
             c == rb_linebuf_copy(Last(q), d, raw)
             f == Front(q)
             l == Last(q)
             p == Append(f, c.line)
             s == First(q, d, raw)
  <1>1. x \in Octets BY StreamText
  <1>2. d \in Octets /\ Len(d) = r BY <1>1, PartIs
  <1>3. 0 \in 0..r /\ at + 0 = at OBVIOUS
  <1>4. CASE q = <<>>
    <2>1. s = [q |-> q, n |-> 0] BY <1>4 DEF First
    <2>2. q \in Seq(Buffer) /\ Finished(q) BY <1>4, EmptySeq DEF Finished
    <2>3. Alike(Flat(q) \o d, Flat(q) \o d) BY DEF Alike
    <2>4. [q |-> q, n |-> 0] \in Halfway(q, x, at, r) BY <1>3, <2>2, <2>3, HalfwayIs
    <2> QED BY <2>1, <2>4
  <1>5. CASE q # <<>>
    <2>1. s = [q |-> p, n |-> c.clen] BY <1>5 DEF First
    <2>2. l \in Buffer /\ LineOK(l) /\ (~l.terminated => Unfinished(l.buf, x, at))
          /\ Finished(f) /\ q = Append(f, l)
      BY <1>5, LastOff
    <2>3. l.terminated \in BOOLEAN /\ f \in Seq(Buffer) BY <2>2 DEF Buffer, Finished
    <2>4. Flat(q) = Flat(f) \o Piece(l) /\ Flat(f) \in Octets BY <2>2, <2>3, FlatAppend, FlatType
    <2> HIDE DEF d, l, f
    <2>5. CASE l.terminated
      <3> DEFINE m == [l EXCEPT !.raw = raw]
      <3>1. c = [line |-> m, clen |-> 0] BY <2>5 DEF rb_linebuf_copy, l
      <3>2. m = [buf |-> l.buf, terminated |-> l.terminated, raw |-> raw] BY <2>2 DEF Buffer
      <3>3. m \in Buffer /\ m.buf = l.buf /\ m.terminated = l.terminated BY <2>2, <3>2 DEF Buffer
      <3> HIDE DEF m
      <3>4. c.line = m /\ c.clen = 0 BY <3>1
      <3> HIDE DEF c
      <3>5. LineOK(m) /\ Piece(m) = Piece(l) BY <2>2, <3>3 DEF LineOK, Piece
      <3>6. BuffersOK(p, x, at + 0) /\ Finished(p) BY <2>2, <2>5, <3>3, <3>4, <3>5, AppendOK
      <3>7. p \in Seq(Buffer) BY <3>6 DEF Finished
      <3>8. Flat(p) = Flat(q) BY <2>3, <2>4, <3>3, <3>4, <3>5, FlatAppend
      <3>9. Alike(Flat(p) \o SubSeq(x, (at + 0) + 1, at + r), Flat(q) \o d) BY <1>3, <3>8 DEF Alike, d
      <3> HIDE DEF p
      <3>10. [q |-> p, n |-> 0] \in Halfway(q, x, at, r) BY <1>3, <3>6, <3>7, <3>9, HalfwayIs DEF d
      <3> QED BY <2>1, <3>4, <3>10 DEF d
    <2>6. CASE ~l.terminated
      <3>1. GoesOn(f, l, x, at, r, raw) BY <2>2, <2>6, CopyStep
      <3>2. /\ c.clen \in 0..r
            /\ p \in Seq(Buffer) /\ BuffersOK(p, x, at + c.clen)
            /\ Finished(p) \/ c.clen = r
            /\ Alike(Flat(p) \o SubSeq(x, (at + c.clen) + 1, at + r), Flat(f) \o (l.buf \o d))
        BY <3>1 DEF GoesOn, d, l
      <3> HIDE DEF c, p
      <3>3. Flat(f) \o (l.buf \o d) = Flat(q) \o d
        <4>1. Piece(l) = l.buf /\ l.buf \in Octets BY <2>2, <2>6, PieceIs DEF Buffer
        <4>2. Regroups(Flat(f), l.buf, d) BY <1>2, <2>4, <4>1, JoinThree
        <4> QED BY <2>4, <4>1, <4>2 DEF Regroups
      <3>4. Alike(Flat(p) \o SubSeq(x, (at + c.clen) + 1, at + r), Flat(q) \o SubSeq(x, at + 1, at + r))
        BY <3>2, <3>3 DEF d
      <3>5. [q |-> p, n |-> c.clen] \in Halfway(q, x, at, r) BY <3>2, <3>4, HalfwayIs
      <3> QED BY <2>1, <3>5 DEF d
    <2> QED BY <2>3, <2>5, <2>6
  <1> QED BY <1>4, <1>5

\* What was read is in the buffers.
LEMMA Parsed ==
    ASSUME LinesFit, NEW x \in Streams, NEW at \in Nat, NEW r \in Nat \ {0}, at + r <= Len(x),
           NEW q, BuffersOK(q, x, at), NEW raw \in BOOLEAN
    PROVE  LET p == rb_linebuf_parse(q, SubSeq(x, at + 1, at + r), raw)
           IN  BuffersOK(p, x, at + r) /\ Alike(Flat(p), Flat(q) \o SubSeq(x, at + 1, at + r))
  <1> DEFINE d == SubSeq(x, at + 1, at + r)
             D == Halfway(q, x, at, r)
             start == First(q, d, raw)
             cut == CHOOSE f : f = [i \in 0..r |-> IF i = 0 THEN start ELSE Round(f[i - 1], d, raw)]
             g == [y \in (1..r) \X D |-> Round(y[2], d, raw)]
             p == rb_linebuf_parse(q, d, raw)
  <1>1. x \in Octets /\ d \in Octets /\ Len(d) = r BY StreamText, PartIs
  <1>2. start \in D BY StartOK
  <1>3. \A s \in D : Round(s, d, raw) \in D /\ IF s.n = r THEN Round(s, d, raw).n = r ELSE Round(s, d, raw).n > s.n
    BY RoundOK
  <1>4. p = cut[r].q
    <2>1. p = (CHOOSE f : f = [i \in 0..Len(d) |-> IF i = 0 THEN First(q, d, raw)
                                                ELSE Round(f[i - 1], d, raw)])[Len(d)].q
      BY ParseIs
    <2> QED BY <1>1, <2>1
  <1>5. r \in Nat OBVIOUS
  <1> HIDE DEF d, D, start, p
  <1>6. Stepping(g, r, D) BY <1>3 DEF Stepping
  <1>7. \A i \in 1..r : \A s \in D : g[<<i, s>>] = Round(s, d, raw) OBVIOUS
  <1> HIDE DEF g
  <1>8. PICK h : Stepped(h, g, r, D, start) BY <1>2, <1>5, <1>6, Recursion
  <1>9. h = [i \in 0..r |-> IF i = 0 THEN start ELSE Round(h[i - 1], d, raw)]
    <2>1. h \in [0..r -> D] BY <1>8 DEF Stepped
    <2>2. ASSUME NEW i \in 0..r PROVE h[i] = IF i = 0 THEN start ELSE Round(h[i - 1], d, raw)
      <3>1. CASE i = 0 BY <1>8, <3>1 DEF Stepped
      <3>2. CASE i # 0
        <4>1. i \in 1..r /\ i - 1 \in 0..r BY <1>5, <3>2
        <4>2. h[i - 1] \in D BY <2>1, <4>1
        <4>3. h[i] = g[<<i, h[i - 1]>>] BY <1>8, <4>1 DEF Stepped
        <4> QED BY <1>7, <3>2, <4>1, <4>2, <4>3
      <3> QED BY <3>1, <3>2
    <2> QED BY <2>1, <2>2
  <1>10. cut = [i \in 0..r |-> IF i = 0 THEN start ELSE Round(cut[i - 1], d, raw)] BY <1>9, Zenon
  <1> HIDE DEF cut
  <1>11. \A i \in 0..r : cut[i] \in D /\ (cut[i].n = r \/ cut[i].n >= i)
    <2> DEFINE S == {i \in 0..r : cut[i] \in D /\ (cut[i].n = r \/ cut[i].n >= i)}
    <2>1. 0 \in S
      <3>1. 0 \in 0..r /\ cut[0] = start BY <1>5, <1>10
      <3>2. start.n \in 0..r BY <1>2 DEF D, Halfway
      <3>3. start.n >= 0 BY <1>5, <3>2
      <3> QED BY <1>2, <3>1, <3>3
    <2>2. ASSUME NEW i \in 0..(r - 1), i \in S PROVE i + 1 \in S
      <3>1. i + 1 \in 0..r /\ i + 1 # 0 /\ (i + 1) - 1 = i /\ i \in Nat BY <1>5
      <3>2. cut[i + 1] = Round(cut[i], d, raw) BY <1>10, <3>1
      <3>3. cut[i] \in D /\ (cut[i].n = r \/ cut[i].n >= i) BY <2>2
      <3>4. cut[i + 1] \in D /\ IF cut[i].n = r THEN cut[i + 1].n = r ELSE cut[i + 1].n > cut[i].n
        BY <1>3, <3>2, <3>3
      <3>5. cut[i].n \in Nat /\ cut[i + 1].n \in Nat BY <3>3, <3>4 DEF D, Halfway
      <3>6. cut[i + 1].n = r \/ cut[i + 1].n >= i + 1 BY <3>1, <3>3, <3>4, <3>5
      <3> QED BY <3>1, <3>4, <3>6
    <2> HIDE DEF S
    <2>3. 0..r \subseteq S BY <1>5, <2>1, <2>2, UpTo
    <2> QED BY <2>3 DEF S
  <1>12. cut[r] \in D /\ cut[r].n = r
    <2>1. r \in 0..r BY <1>5
    <2>2. cut[r] \in D /\ (cut[r].n = r \/ cut[r].n >= r) BY <1>11, <2>1
    <2>3. cut[r].n \in 0..r BY <2>2 DEF D, Halfway
    <2> QED BY <1>5, <2>2, <2>3
  <1>13. BuffersOK(p, x, at + r) /\ Alike(Flat(p) \o SubSeq(x, (at + r) + 1, at + r), Flat(q) \o d)
         /\ p \in Seq(Buffer)
    BY <1>4, <1>12 DEF D, Halfway, d
  <1>14. SubSeq(x, (at + r) + 1, at + r) = <<>>
    <2>1. at + r < (at + r) + 1 /\ at + r \in Int /\ (at + r) + 1 \in Int BY <1>5
    <2> QED BY <2>1, SubSeqEmpty
  <1>15. Flat(p) \o <<>> = Flat(p) BY <1>13, FlatType, TextIs
  <1>16. Alike(Flat(p), Flat(q) \o d) BY <1>13, <1>14, <1>15
  <1> QED BY <1>13, <1>16 DEF p, d

-----------------------------------------------------------------------------
(* rb_linebuf_get().                                                        *)

\* A line is text and then ends of line.
LEMMA LineSplit ==
    ASSUME NEW b \in Octets, OneLine(b)
    PROVE  \E a, e \in Octets : NoEOL(a) /\ OnlyEOL(e) /\ b = a \o e
  <1> DEFINE n == Len(b)
             I == {i \in 1..n : b[i] = EOL}
  <1>1. n \in Nat /\ DOMAIN b = 1..n /\ <<>> \in Octets /\ b \o <<>> = b BY TextIs
  <1> HIDE DEF n
  <1>2. CASE I = {}
    <2>1. NoEOL(b) BY <1>1, <1>2 DEF NoEOL
    <2>2. OnlyEOL(<<>>) BY DEF OnlyEOL
    <2> QED BY <1>1, <2>1, <2>2
  <1>3. CASE I # {}
    <2> DEFINE m == Min(I)
               a == SubSeq(b, 1, m - 1)
               e == SubSeq(b, (m - 1) + 1, n)
    <2>1. m \in I /\ \A i \in I : m <= i
      <3>1. I \subseteq 1..n OBVIOUS
      <3> HIDE DEF I
      <3> QED BY <1>1, <1>3, <3>1, FirstPlace
    <2>2. m \in 1..n /\ b[m] = EOL BY <2>1
    <2>3. \A i \in 1..(m - 1) : b[i] # EOL
      <3> SUFFICES ASSUME NEW i \in 1..(m - 1), b[i] = EOL PROVE FALSE OBVIOUS
      <3> HIDE DEF m
      <3>1. i \in 1..n /\ ~(m <= i) BY <1>1, <2>2
      <3>2. i \in I BY <3>1
      <3> QED BY <2>1, <3>1, <3>2
    <2> HIDE DEF m, I
    <2>4. a \o e = b
      <3>1. 1 \in 1..(Len(b) + 1) /\ m - 1 \in (1 - 1)..Len(b) /\ n \in (m - 1)..Len(b)
        BY <1>1, <2>2 DEF n
      <3>2. a \o e = SubSeq(b, 1, n) BY <3>1, JoinParts
      <3> QED BY <3>2, SubSeqFull DEF Octets, n
    <2>5. a \in Octets /\ NoEOL(a)
      <3>1. m - 1 \in 0..Len(b) BY <1>1, <2>2 DEF n
      <3>2. a \in Octets /\ Len(a) = (IF 1 <= m - 1 THEN ((m - 1) - 1) + 1 ELSE 0)
            /\ \A y \in 1..(((m - 1) - 1) + 1) : a[y] = b[(1 + y) - 1] BY <3>1, PartText
      <3>3. ((m - 1) - 1) + 1 = m - 1 /\ \A y \in 1..(m - 1) : (1 + y) - 1 = y BY <1>1, <2>2
      <3>4. Len(a) = m - 1 BY <1>1, <2>2, <3>2, <3>3
      <3> HIDE DEF a
      <3>5. DOMAIN a = 1..(m - 1) BY <3>2, <3>4, TextIs
      <3>6. \A y \in 1..(m - 1) : a[y] = b[y] BY <3>2, <3>3
      <3> QED BY <2>3, <3>2, <3>5, <3>6 DEF NoEOL
    <2>6. e \in Octets /\ OnlyEOL(e)
      <3>1. (m - 1) + 1 \in Nat \ {0} /\ n \in 0..Len(b) /\ (m - 1) + 1 = m BY <1>1, <2>2 DEF n
      <3>2. e \in Octets /\ Len(e) = (IF (m - 1) + 1 <= n THEN (n - ((m - 1) + 1)) + 1 ELSE 0)
            /\ \A y \in 1..((n - ((m - 1) + 1)) + 1) : e[y] = b[(((m - 1) + 1) + y) - 1] BY <3>1, PartText
      <3>3. Len(e) = (n - m) + 1 /\ \A y \in 1..((n - m) + 1) : e[y] = b[(m + y) - 1]
        BY <1>1, <2>2, <3>1, <3>2
      <3> HIDE DEF e
      <3>4. DOMAIN e = 1..((n - m) + 1) BY <3>2, <3>3, TextIs
      <3>5. ASSUME NEW y \in 1..((n - m) + 1) PROVE b[(m + y) - 1] = EOL
        <4>1. (m + y) - 1 \in 1..n /\ ((m + y) - 1 = m \/ m < (m + y) - 1) BY <1>1, <2>2
        <4> QED BY <1>1, <2>2, <4>1 DEF OneLine
      <3> QED BY <3>2, <3>3, <3>4, <3>5 DEF OnlyEOL
    <2> HIDE DEF a, e
    <2> QED BY <2>4, <2>5, <2>6
  <1> QED BY <1>2, <1>3

LEMMA ChopIs ==
    ASSUME NEW a \in Octets, NEW e \in Octets, NoEOL(a), OnlyEOL(e)
    PROVE  Chop(a \o e) = a
  <1> DEFINE K == {Len(a) + 1} \cup {i \in DOMAIN a : a[i] # EOL}
             n == Len(a)
  <1>1. n \in Nat /\ DOMAIN a = 1..n BY TextIs
  <1>2. ChopEnd(a \o e) = a BY LineAndEnds
  <1>3. Chop(a \o e) = SubSeq(a, Min(K), n) BY <1>2, Zenon DEF Chop
  <1>4. Min(K) = 1
    <2>1. n + 1 \in Nat /\ K \subseteq 1..(n + 1) /\ K # {} BY <1>1
    <2>2. 1 \in K
      <3>1. CASE n = 0 BY <3>1
      <3>2. CASE n # 0
        <4>1. 1 \in DOMAIN a BY <1>1, <3>2
        <4> QED BY <4>1 DEF NoEOL
      <3> QED BY <3>1, <3>2
    <2> HIDE DEF K
    <2>3. Min(K) \in K /\ \A i \in K : Min(K) <= i BY <2>1, FirstPlace
    <2>4. Min(K) \in 1..(n + 1) /\ Min(K) <= 1 BY <2>1, <2>2, <2>3
    <2> HIDE DEF n
    <2> QED BY <1>1, <2>4
  <1>5. SubSeq(a, 1, n) = a BY SubSeqFull DEF Octets
  <1> HIDE DEF K, n
  <1> QED BY <1>3, <1>4, <1>5

\* The text of a line, and what is scanned of it.
TextOf(line) == IF line.raw THEN Chop(line.buf) ELSE line.buf

LEMMA TextAlike ==
    ASSUME NEW l \in Buffer, LineOK(l), l.terminated
    PROVE  /\ TextOf(l) \in Octets /\ OneLine(TextOf(l)) /\ Append(TextOf(l), EOL) \in Octets
           /\ Alike(Append(TextOf(l), EOL), Piece(l))
           /\ TextOf(l) = <<>> => OnlyEOL(Piece(l)) /\ Piece(l) # <<>>
  <1> DEFINE N == <<EOL>>
  <1>1. l.buf \in Octets /\ OneLine(l.buf) /\ l.raw \in BOOLEAN BY DEF Buffer, LineOK
  <1>2. Piece(l) = l.buf \o N BY PieceIs
  <1>3. PICK a, e \in Octets : NoEOL(a) /\ OnlyEOL(e) /\ l.buf = a \o e BY <1>1, LineSplit
  <1>4. N \in Octets /\ OnlyEOL(N) /\ N # <<>> /\ EOL \in Octet BY EOLOctet DEF OnlyEOL
  <1>5. <<>> \in Octets /\ OnlyEOL(<<>>) /\ a \o <<>> = a /\ <<>> \o e = e BY <1>3, TextIs DEF OnlyEOL
  <1>6. OneLine(a) BY <1>3, <1>5, LineAndEnds
  <1>7. Chop(l.buf) = a BY <1>3, ChopIs
  <1>8. Append(a, EOL) = a \o N /\ Append(l.buf, EOL) = l.buf \o N BY <1>1, <1>3, <1>4, AppendText
  <1> HIDE DEF N
  <1>9. a \o N \in Octets /\ l.buf \o N \in Octets BY <1>1, <1>3, <1>4, JoinText
  <1>10. e \o N \in Octets /\ OnlyEOL(e \o N) /\ e \o N # <<>> BY <1>3, <1>4, JoinText, JoinEOLs
  <1>11. CASE l.raw
    <2>1. TextOf(l) = a BY <1>7, <1>11 DEF TextOf
    <2>2. Alike(N, e \o N) BY <1>4, <1>10, AlikeEOLs
    <2>3. Alike(a \o N, a \o (e \o N)) BY <1>3, <1>4, <1>10, <2>2, AlikeLast
    <2>4. Regroups(a, e, N) BY <1>3, <1>4, JoinThree
    <2>5. Alike(a \o N, Piece(l)) BY <1>2, <1>3, <2>3, <2>4 DEF Regroups
    <2>6. a = <<>> => OnlyEOL(Piece(l)) /\ Piece(l) # <<>> BY <1>2, <1>3, <1>5, <1>10
    <2> QED BY <1>3, <1>6, <1>8, <1>9, <2>1, <2>5, <2>6
  <1>12. CASE ~l.raw
    <2>1. TextOf(l) = l.buf BY <1>12 DEF TextOf
    <2>2. Alike(l.buf \o N, l.buf \o N) BY DEF Alike
    <2>3. l.buf = <<>> => l.buf \o N = N BY <1>4, TextIs
    <2> QED BY <1>1, <1>2, <1>4, <1>8, <1>9, <2>1, <2>2, <2>3
  <1> QED BY <1>1, <1>11, <1>12

-----------------------------------------------------------------------------
(* LinesWhole.                                                              *)

Unread == [lines |-> <<>>, line |-> <<>>]

Ended(t) == [i \in DOMAIN t |-> Append(t[i], EOL)]
GivenOf(t) == FlattenSeq(Ended(t))

\* What was given to parse(), then what is in the buffers, then what was not
\* read yet, is scanned like the stream.
Sent(ps, q, x, at) ==
    Scan(Unread, GivenOf(ps) \o (Flat(q) \o SubSeq(x, at + 1, Len(x)))) = Scan(Unread, x)

RecvInv ==
    /\ stream \in Streams /\ pos \in 0..Len(stream)
    /\ BuffersOK(recvq, stream, pos)
    /\ parsed \in Texts /\ \A i \in DOMAIN parsed : OneLine(parsed[i])
    /\ kind # "dead" => Sent(parsed, recvq, stream, pos)

LEMMA UnreadScans == Unread \in ScanState
  BY DEF Unread, ScanState, Octets

LEMMA EndedType == ASSUME NEW t \in Texts PROVE Ended(t) \in Texts /\ Len(Ended(t)) = Len(t)
  <1>1. Len(t) \in Nat /\ DOMAIN t = 1..Len(t) BY LenProperties DEF Texts
  <1>2. \A i \in 1..Len(t) : t[i] \in Octets BY DEF Texts
  <1>3. \A i \in 1..Len(t) : Append(t[i], EOL) \in Octets BY <1>2, EOLOctet, AppendText
  <1> QED BY <1>1, <1>3 DEF Ended, Texts

LEMMA GivenType == ASSUME NEW t \in Texts PROVE GivenOf(t) \in Octets
  BY EndedType, FlattenType DEF GivenOf

LEMMA GivenEmpty == GivenOf(<<>>) = <<>>
  <1>1. Ended(<<>>) = <<>> BY DEF Ended
  <1> QED BY <1>1, FlattenEmpty DEF GivenOf

LEMMA GivenAppend ==
    ASSUME NEW t \in Texts, NEW x \in Octets
    PROVE  GivenOf(Append(t, x)) = GivenOf(t) \o Append(x, EOL)
  <1> DEFINE p == Ended(Append(t, x))
             r == Append(Ended(t), Append(x, EOL))
             n == Len(t)
  <1>1. Append(t, x) \in Texts /\ Len(Append(t, x)) = n + 1 /\ n \in Nat
        /\ Append(t, x)[n + 1] = x /\ \A i \in 1..n : Append(t, x)[i] = t[i]
    BY AppendProperties DEF Texts
  <1>2. p \in Texts /\ Len(p) = n + 1 BY <1>1, EndedType
  <1>3. Ended(t) \in Texts /\ Len(Ended(t)) = n /\ Append(x, EOL) \in Octets BY EndedType, EOLOctet, AppendText
  <1>4. r \in Texts /\ Len(r) = n + 1 /\ r[n + 1] = Append(x, EOL) /\ \A i \in 1..n : r[i] = Ended(t)[i]
    BY <1>3, AppendProperties DEF Texts
  <1>5. ASSUME NEW i \in 1..(n + 1) PROVE p[i] = r[i]
    <2>1. DOMAIN Append(t, x) = 1..(n + 1) BY <1>1, LenProperties DEF Texts
    <2>2. p[i] = Append(Append(t, x)[i], EOL) BY <2>1 DEF Ended
    <2>3. CASE i = n + 1 BY <1>1, <1>4, <2>2, <2>3
    <2>4. CASE i # n + 1
      <3>1. i \in 1..n /\ DOMAIN t = 1..n BY <1>1, <2>4, LenProperties DEF Texts
      <3>2. Ended(t)[i] = Append(t[i], EOL) BY <3>1 DEF Ended
      <3> QED BY <1>1, <1>4, <2>2, <3>1, <3>2
    <2> QED BY <2>3, <2>4
  <1> HIDE DEF p, r
  <1>6. p = r BY <1>2, <1>4, <1>5, SeqEqual DEF Texts
  <1> QED BY <1>3, <1>6, FlattenAppend DEF GivenOf, p, r

\* Whole lines were given.
LEMMA GivenClosed ==
    ASSUME NEW t \in Texts
    PROVE  Scan(Unread, GivenOf(t)).line = <<>>
  <1>1. CASE t = <<>> BY <1>1, GivenEmpty, UnreadScans, ScanEmpty DEF Unread
  <1>2. CASE t # <<>>
    <2>1. PICK s \in Texts, x \in Octets : t = Append(s, x) BY <1>2, SequenceEmptyOrAppend DEF Texts
    <2>2. GivenOf(t) = Append(GivenOf(s) \o x, EOL) /\ GivenOf(s) \o x \in Octets
      <3>1. GivenOf(t) = GivenOf(s) \o Append(x, EOL) /\ GivenOf(s) \in Octets
        BY <2>1, GivenAppend, GivenType
      <3>2. GivenOf(s) \o Append(x, EOL) = Append(GivenOf(s) \o x, EOL)
        BY <3>1, EOLOctet, JoinText
      <3> QED BY <3>1, <3>2, JoinText
    <2>3. Scan(Unread, GivenOf(t)) = Scanned(Scan(Unread, GivenOf(s) \o x), EOL)
      BY <2>2, UnreadScans, EOLOctet, ScanAppend
    <2> QED BY <2>3 DEF Scanned
  <1> QED BY <1>1, <1>2

LEMMA RestText ==
    ASSUME NEW x \in Octets, NEW at \in 0..Len(x)
    PROVE  SubSeq(x, at + 1, Len(x)) \in Octets
  <1>1. at + 1 \in Nat \ {0} /\ Len(x) \in 0..Len(x) BY TextIs
  <1> QED BY <1>1, PartText

\* The first line is taken from the buffers.
LEMMA TailOK ==
    ASSUME NEW q, NEW x, NEW at, BuffersOK(q, x, at), q # <<>>
    PROVE  q[1] \in Buffer /\ LineOK(q[1]) /\ BuffersOK(Tail(q), x, at)
  <1> DEFINE n == Len(q)
             t == Tail(q)
  <1>1. q \in Seq(Buffer) /\ n \in Nat \ {0} BY EmptySeq DEF BuffersOK
  <1>2. t \in Seq(Buffer) /\ Len(t) = n - 1 /\ \A i \in 1..(n - 1) : t[i] = q[i + 1]
    BY <1>1, HeadTailProperties
  <1> HIDE DEF t
  <1>3. 1 \in 1..n BY <1>1
  <1>4. ASSUME NEW i \in 1..Len(t)
        PROVE  LineOK(t[i]) /\ (i # Len(t) => t[i].terminated) /\ (~t[i].terminated => Unfinished(t[i].buf, x, at))
    <2>1. i \in 1..(n - 1) /\ i + 1 \in 1..n /\ (i # Len(t) => i + 1 # n) BY <1>1, <1>2
    <2> QED BY <1>2, <2>1 DEF BuffersOK
  <1>5. BuffersOK(t, x, at) BY <1>2, <1>4 DEF BuffersOK
  <1>6. q[1] \in Buffer BY <1>1, <1>3
  <1>7. LineOK(q[1]) BY <1>3 DEF BuffersOK
  <1> QED BY <1>5, <1>6, <1>7 DEF t

LEMMA TakeSent ==
    ASSUME NEW x \in Octets, NEW at \in 0..Len(x), NEW ps \in Texts, NEW q, BuffersOK(q, x, at),
           q # <<>>, q[1].terminated
    PROVE  LET t == TextOf(q[1]) IN
           /\ t \in Octets /\ OneLine(t)
           /\ Sent(ps, q, x, at) => Sent(Append(ps, t), Tail(q), x, at)
           /\ t = <<>> /\ Sent(ps, q, x, at) => Sent(ps, Tail(q), x, at)
  <1> DEFINE l == q[1]
             t == TextOf(l)
             T == Append(t, EOL)
             P == Piece(l)
             G == GivenOf(ps)
             Q == Flat(Tail(q))
             R == SubSeq(x, at + 1, Len(x))
             QR == Q \o R
  <1>1. l \in Buffer /\ LineOK(l) /\ BuffersOK(Tail(q), x, at) /\ q \in Seq(Buffer) /\ Tail(q) \in Seq(Buffer)
    BY TailOK DEF BuffersOK
  <1>2. t \in Octets /\ OneLine(t) /\ T \in Octets /\ Alike(T, P) /\ P \in Octets
        /\ (t = <<>> => OnlyEOL(P) /\ P # <<>>)
    BY <1>1, TextAlike, PieceIs
  <1>3. G \in Octets /\ Q \in Octets /\ R \in Octets BY <1>1, GivenType, FlatType, RestText
  <1>4. Flat(q) = P \o Q BY <1>1, FlatFirst
  <1>5. GivenOf(Append(ps, t)) = G \o T BY <1>2, GivenAppend
  <1> HIDE DEF l, t, T, P, G, Q, R
  <1>6. QR \in Octets BY <1>3, JoinText
  <1>7. Flat(q) \o R = P \o QR
    <2>1. Regroups(P, Q, R) BY <1>2, <1>3, JoinThree
    <2> QED BY <1>4, <2>1 DEF Regroups
  <1> HIDE DEF QR
  <1>8. Scan(Unread, G \o (P \o QR)) = Scan(Scan(Scan(Unread, G), P), QR)
    <2>1. P \o QR \in Octets /\ Scan(Unread, G) \in ScanState BY <1>2, <1>3, <1>6, JoinText, UnreadScans, ScanType
    <2>2. Scan(Unread, G \o (P \o QR)) = Scan(Scan(Unread, G), P \o QR) BY <1>3, <2>1, UnreadScans, ScanConcat
    <2>3. Scan(Scan(Unread, G), P \o QR) = Scan(Scan(Scan(Unread, G), P), QR) BY <1>2, <1>6, <2>1, ScanConcat
    <2> QED BY <2>2, <2>3
  <1>9. Scan(Unread, (G \o T) \o QR) = Scan(Scan(Scan(Unread, G), T), QR)
    <2>1. G \o T \in Octets BY <1>2, <1>3, JoinText
    <2>2. Scan(Unread, (G \o T) \o QR) = Scan(Scan(Unread, G \o T), QR) BY <1>6, <2>1, UnreadScans, ScanConcat
    <2>3. Scan(Unread, G \o T) = Scan(Scan(Unread, G), T) BY <1>2, <1>3, UnreadScans, ScanConcat
    <2> QED BY <2>2, <2>3
  <1>10. Scan(Scan(Unread, G), T) = Scan(Scan(Unread, G), P)
    <2>1. Scan(Unread, G) \in ScanState BY <1>3, UnreadScans, ScanType
    <2> QED BY <1>2, <2>1 DEF Alike
  <1>11. Sent(ps, q, x, at) => Sent(Append(ps, t), Tail(q), x, at)
    BY <1>5, <1>7, <1>8, <1>9, <1>10 DEF Sent, G, Q, R, QR
  <1>12. ASSUME t = <<>> PROVE Scan(Unread, G \o (P \o QR)) = Scan(Unread, G \o QR)
    <2> DEFINE X == Scan(Unread, G)
    <2>1. X \in ScanState /\ X.line = <<>> BY <1>3, UnreadScans, ScanType, GivenClosed DEF G
    <2>2. Scan(Unread, G \o QR) = Scan(X, QR) BY <1>3, <1>6, UnreadScans, ScanConcat
    <2> HIDE DEF X
    <2>3. Scan(X, P) = Scanned(X, EOL) BY <1>2, <1>12, <2>1, ScanEOLs
    <2>4. Scanned(X, EOL) = X BY <2>1 DEF Scanned
    <2> QED BY <1>8, <2>2, <2>3, <2>4 DEF X
  <1>13. t = <<>> /\ Sent(ps, q, x, at) => Sent(ps, Tail(q), x, at)
    BY <1>7, <1>12 DEF Sent, G, Q, R, QR
  <1> QED BY <1>2, <1>11, <1>13 DEF t, l

LEMMA ReadSent ==
    ASSUME LinesFit, NEW x \in Streams, NEW at \in 0..Len(x), NEW n \in Nat \ {0}, at + n <= Len(x),
           NEW ps \in Texts, NEW q, BuffersOK(q, x, at), NEW raw \in BOOLEAN
    PROVE  LET p == rb_linebuf_parse(q, SubSeq(x, at + 1, at + n), raw)
           IN  BuffersOK(p, x, at + n) /\ (Sent(ps, q, x, at) => Sent(ps, p, x, at + n))
  <1> DEFINE d == SubSeq(x, at + 1, at + n)
             p == rb_linebuf_parse(q, d, raw)
             G == GivenOf(ps)
             Q == Flat(q)
             B == Flat(p)
             R == SubSeq(x, (at + n) + 1, Len(x))
  <1>1. x \in Octets /\ Len(x) \in Nat /\ at \in Nat BY StreamText, TextIs
  <1>2. BuffersOK(p, x, at + n) /\ Alike(B, Q \o d) BY <1>1, Parsed
  <1>3. SubSeq(x, at + 1, Len(x)) = d \o R
    <2>1. at + 1 \in 1..(Len(x) + 1) /\ at + n \in ((at + 1) - 1)..Len(x) /\ Len(x) \in (at + n)..Len(x) BY <1>1
    <2> QED BY <1>1, <2>1, JoinParts
  <1>4. d \in Octets BY <1>1, PartIs
  <1>5. R \in Octets
    <2>1. at + n \in 0..Len(x) BY <1>1
    <2> QED BY <1>1, <2>1, RestText
  <1>6. G \in Octets /\ Q \in Octets /\ B \in Octets BY <1>2, GivenType, FlatType DEF BuffersOK
  <1> HIDE DEF d, p, G, Q, B, R
  <1>7. Q \o d \in Octets BY <1>4, <1>6, JoinText
  <1>8. Alike(B \o R, (Q \o d) \o R) BY <1>2, <1>5, <1>6, <1>7, AlikeFirst
  <1>9. B \o R \in Octets /\ (Q \o d) \o R \in Octets BY <1>5, <1>6, <1>7, JoinText
  <1>10. Alike(G \o (B \o R), G \o ((Q \o d) \o R)) BY <1>6, <1>8, <1>9, AlikeLast
  <1>11. Regroups(Q, d, R) BY <1>4, <1>5, <1>6, JoinThree
  <1>12. Scan(Unread, G \o (B \o R)) = Scan(Unread, G \o (Q \o (d \o R)))
    BY <1>10, <1>11, UnreadScans DEF Alike, Regroups
  <1> QED BY <1>2, <1>3, <1>12 DEF Sent, G, Q, B, R, p, d
-----------------------------------------------------------------------------
(* Steps.                                                                   *)

\* Buffers and history stay, or the connection exits.
LEMMA OthersKeep ==
    ASSUME RecvInv, UNCHANGED <<stream, pos, parsed>>,
           (recvq' = recvq /\ kind' = kind) \/ (recvq' = <<>> /\ kind' = "dead")
    PROVE  RecvInv'
  <1>1. CASE recvq' = recvq /\ kind' = kind BY <1>1 DEF RecvInv
  <1>2. CASE recvq' = <<>> /\ kind' = "dead"
    <2>1. Finished(<<>>) BY EmptySeq DEF Finished
    <2>2. BuffersOK(recvq', stream', pos') BY <1>2, <2>1, FinishedOK
    <2> QED BY <1>2, <2>2 DEF RecvInv
  <1> QED BY <1>1, <1>2

LEMMA RecvType == RecvInv => stream \in Octets /\ pos \in 0..Len(stream)
  BY StreamText DEF RecvInv

LEMMA NoLineKeeps ==
    ASSUME RecvInv, UNCHANGED <<stream, pos>>, NoLine
    PROVE  RecvInv'
  <1>1. CASE ~Complete BY <1>1, OthersKeep DEF NoLine
  <1>2. CASE Complete
    <2>1. recvq # <<>> /\ recvq[1].terminated /\ TextOf(recvq[1]) = <<>> /\ recvq' = Tail(recvq)
          /\ kind' = kind /\ parsed' = parsed
      BY <1>2 DEF NoLine, Complete, Text, TextOf
    <2>2. BuffersOK(Tail(recvq), stream, pos) BY <2>1, TailOK DEF RecvInv
    <2>3. Sent(parsed, recvq, stream, pos) => Sent(parsed, Tail(recvq), stream, pos)
      BY <2>1, TakeSent, RecvType DEF RecvInv
    <2> QED BY <2>1, <2>2, <2>3 DEF RecvInv
  <1> QED BY <1>1, <1>2

LEMMA DopacketKeeps ==
    ASSUME RecvInv, UNCHANGED <<stream, pos>>, client_dopacket
    PROVE  RecvInv'
  <1> DEFINE t == TextOf(recvq[1])
  <1>1. recvq # <<>> /\ recvq[1].terminated /\ recvq' = Tail(recvq) /\ parsed' = Append(parsed, t)
    BY DEF client_dopacket, Complete, Text, TextOf
  <1>2. kind' # "dead" => kind # "dead" BY DEF client_dopacket, Becomes
  <1>3. BuffersOK(Tail(recvq), stream, pos) BY <1>1, TailOK DEF RecvInv
  <1>4. t \in Octets /\ OneLine(t)
        /\ (Sent(parsed, recvq, stream, pos) => Sent(Append(parsed, t), Tail(recvq), stream, pos))
    BY <1>1, TakeSent, RecvType DEF RecvInv
  <1> HIDE DEF t
  <1>5. Append(parsed, t) \in Texts /\ \A i \in DOMAIN Append(parsed, t) : OneLine(Append(parsed, t)[i])
    <2>1. parsed \in Texts /\ \A i \in 1..Len(parsed) : OneLine(parsed[i]) BY LenProperties DEF RecvInv, Texts
    <2>2. /\ Append(parsed, t) \in Texts /\ Len(parsed) \in Nat /\ Len(Append(parsed, t)) = Len(parsed) + 1
          /\ Append(parsed, t)[Len(parsed) + 1] = t
          /\ \A i \in 1..Len(parsed) : Append(parsed, t)[i] = parsed[i]
      BY <1>4, <2>1, AppendProperties DEF Texts
    <2>3. DOMAIN Append(parsed, t) = 1..(Len(parsed) + 1) BY <2>2, LenProperties DEF Texts
    <2>4. \A i \in 1..(Len(parsed) + 1) : i = Len(parsed) + 1 \/ i \in 1..Len(parsed) BY <2>2
    <2> QED BY <1>4, <2>1, <2>2, <2>3, <2>4
  <1> QED BY <1>1, <1>2, <1>3, <1>4, <1>5 DEF RecvInv

LEMMA ReadKeeps ==
    ASSUME LinesFit, RecvInv, NEW n \in 1..READBUF_SIZE, read_packet(n)
    PROVE  RecvInv'
  <1> DEFINE p == rb_linebuf_parse(recvq, SubSeq(stream, pos + 1, pos + n), binary')
  <1>1. n \in Nat \ {0} /\ pos + n <= Len(stream) /\ pos' = pos + n /\ stream' = stream
        /\ kind' = kind /\ parsed' = parsed
    <2>1. n \in Nat \ {0} BY SizesPositive
    <2> QED BY <2>1 DEF read_packet
  <1>2. binary' \in BOOLEAN /\ recvq' = p BY DEF read_packet
  <1>3. BuffersOK(p, stream, pos + n)
        /\ (Sent(parsed, recvq, stream, pos) => Sent(parsed, p, stream, pos + n))
    BY <1>1, <1>2, ReadSent DEF RecvInv
  <1>4. pos + n \in 0..Len(stream)
    <2>1. Len(stream) \in Nat /\ pos \in Nat BY RecvType, TextIs
    <2> QED BY <1>1, <2>1
  <1> HIDE DEF p
  <1> QED BY <1>1, <1>2, <1>3, <1>4 DEF RecvInv

LEMMA RecvNextKeeps == ASSUME LinesFit, RecvInv, [RecvNext]_recvVars PROVE RecvInv'
  <1>1. CASE parse_unknown
    <2>1. UNCHANGED <<stream, pos>> BY <1>1 DEF parse_unknown
    <2>2. Stop \/ NoLine \/ client_dopacket BY <1>1 DEF parse_unknown
    <2>3. Stop => UNCHANGED <<recvq, kind, parsed>> BY DEF Stop
    <2> QED BY <2>1, <2>2, <2>3, OthersKeep, NoLineKeeps, DopacketKeeps
  <1>2. CASE parse_server
    <2>1. UNCHANGED <<stream, pos>> BY <1>2 DEF parse_server
    <2>2. NoLine \/ client_dopacket BY <1>2 DEF parse_server
    <2> QED BY <2>1, <2>2, NoLineKeeps, DopacketKeeps
  <1>3. CASE parse_client
    <2>1. UNCHANGED <<stream, pos>> BY <1>3 DEF parse_client
    <2>2. Stop \/ NoLine \/ client_dopacket BY <1>3 DEF parse_client
    <2>3. Stop => UNCHANGED <<recvq, kind, parsed>> BY DEF Stop
    <2> QED BY <2>1, <2>2, <2>3, OthersKeep, NoLineKeeps, DopacketKeeps
  <1>4. CASE parse_nothing BY <1>4, OthersKeep DEF parse_nothing, Stop
  <1>5. CASE read_parsed BY <1>5, OthersKeep DEF read_parsed
  <1>6. CASE recalc_parsed BY <1>6, OthersKeep DEF recalc_parsed
  <1>7. CASE \E n \in 1..READBUF_SIZE : read_packet(n) BY <1>7, ReadKeeps
  <1>8. CASE read_error BY <1>8, OthersKeep DEF read_error
  <1>9. CASE flood_recalc BY <1>9, OthersKeep DEF flood_recalc
  <1>10. CASE UNCHANGED recvVars BY <1>10, OthersKeep DEF recvVars
  <1> QED BY <1>1, <1>2, <1>3, <1>4, <1>5, <1>6, <1>7, <1>8, <1>9, <1>10 DEF RecvNext, RecvStep

LEMMA RecvBegins == ASSUME RecvInit PROVE RecvInv
  <1>1. stream \in Streams /\ pos = 0 /\ recvq = <<>> /\ parsed = <<>> BY DEF RecvInit
  <1>2. stream \in Octets /\ Len(stream) \in Nat BY <1>1, StreamText, TextIs
  <1>3. Finished(<<>>) BY EmptySeq DEF Finished
  <1>4. BuffersOK(recvq, stream, pos) BY <1>1, <1>3, FinishedOK
  <1>5. SubSeq(stream, pos + 1, Len(stream)) = stream
    <2>1. SubSeq(stream, 1, Len(stream)) = stream BY <1>2, SubSeqFull DEF Octets
    <2> QED BY <1>1, <2>1
  <1>6. Sent(parsed, recvq, stream, pos)
    <2>1. <<>> \o stream = stream BY <1>2, TextIs
    <2> QED BY <1>1, <1>5, <2>1, GivenEmpty, FlatEmpty DEF Sent
  <1>7. parsed \in Texts /\ DOMAIN parsed = {} BY <1>1, EmptySeq DEF Texts
  <1> QED BY <1>1, <1>2, <1>4, <1>6, <1>7 DEF RecvInv

LEMMA RecvInvWhole == ASSUME RecvInv PROVE LinesWhole
  <1> DEFINE b == GivenOf(parsed) \o (Flat(recvq) \o SubSeq(stream, pos + 1, Len(stream)))
  <1>1. SUFFICES ASSUME kind # "dead"
                 PROVE  (\A i \in DOMAIN parsed : OneLine(parsed[i])) /\ LinesOf(b) = LinesOf(stream)
    BY DEF LinesWhole, Given, Queued, GivenOf, Flat, Ended, Pieces
  <1>2. Scan(Unread, b) = Scan(Unread, stream) BY <1>1 DEF RecvInv, Sent
  <1>3. stream \in Octets /\ b \in Octets
    <2>1. stream \in Octets /\ pos \in 0..Len(stream) BY RecvType
    <2>2. SubSeq(stream, pos + 1, Len(stream)) \in Octets BY <2>1, RestText
    <2>3. GivenOf(parsed) \in Octets /\ Flat(recvq) \in Octets BY GivenType, FlatType DEF RecvInv, BuffersOK
    <2> QED BY <2>1, <2>2, <2>3, JoinText
  <1> HIDE DEF b
  <1>4. \A t \in Octets : LinesOf(t) = Scanned(Scan(Unread, t), EOL).lines
    BY UnreadScans, EOLOctet, ScanAppend DEF LinesOf, Unread
  <1>5. LinesOf(b) = LinesOf(stream) BY <1>2, <1>3, <1>4
  <1> QED BY <1>5 DEF RecvInv

\* However reads cut the stream, and whichever way of copying was in force when
\* each piece came, the lines given to parse() and the ones still to come are
\* the lines that were sent, if each fits a line buffer (rb_linebuf_parse(),
\* rb_linebuf_get(), read_packet(), parse_client_queued()).
THEOREM LinesAlwaysWhole == ASSUME LinesFit PROVE RecvSpec => []LinesWhole
  <1>1. RecvInit => RecvInv BY RecvBegins
  <1>2. RecvInv /\ [RecvNext]_recvVars => RecvInv' BY RecvNextKeeps
  <1>3. RecvInv => LinesWhole BY RecvInvWhole
  <1> QED BY <1>1, <1>2, <1>3, PTL DEF RecvSpec

=============================================================================
