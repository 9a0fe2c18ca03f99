--------------------------- MODULE ChannelTSProofs ---------------------------
(* Proofs about ChannelTS: types, that a channel exists exactly while it has   *)
(* members and that its member lists are sound, and that the channel TS of a   *)
(* server never rises.                                                         *)
(*                                                                             *)
(* A handler takes the state of a server to an effect, so there is a lemma for *)
(* each handler that its effect is good (EffectOK), and one step that carries  *)
(* good effects to the next state.                                             *)
EXTENDS ChannelTS, ListsProofs, FiniteSetTheorems, TLAPS

-----------------------------------------------------------------------------
(* The inductive invariant.                                                  *)

Stamps == 1..MaxTS

\* The memberships of a channel: also true inside a handler, when a channel is
\* made and has no member yet.
MembershipsOK(c) ==
    /\ c \in Channel
    /\ Distinct(c.op)
    /\ Ops(c) \cap c.noop = {}
    /\ c.voice \subseteq Members(c) /\ c.deop \subseteq Members(c)
    /\ c.deop \cap Ops(c) = {}

\* The channel of a server that knows the users us, between handlers.
ChannelOK(c, us) ==
    /\ MembershipsOK(c)
    /\ c.live <=> Members(c) # {}
    /\ c.live => c.ts \in Stamps
    /\ Members(c) \subseteq us

\* A description on its way has a TS of a clock and names nobody twice: else it
\* would put him on a member list twice where it arrives.
GoodMsg ==
    {m \in Msg : /\ m.cmd \in {"JOIN", "SJOIN"} => m.ts \in Stamps
                 /\ m.cmd = "SJOIN" => Distinct(m.op) /\ ToSet(m.op) \cap m.noop = {}}

EffectOK(s, e) ==
    /\ ChannelOK(e.ch, e.known)
    /\ e.known \in SUBSET Users
    /\ e.out \in Seq(GoodMsg)
    /\ chan[s].live /\ e.ch.live => e.ch.ts <= chan[s].ts

TablesOK ==
    /\ chan \in [Servers -> Channel]
    /\ known \in [Servers -> SUBSET Users]
    /\ peers \in [Servers -> SUBSET Servers]
    /\ queue \in [Servers -> [Servers -> Seq(GoodMsg)]]
    /\ \A s \in Servers : ChannelOK(chan[s], known[s])

CountersOK ==
    /\ clock \in [Servers -> Stamps]
    /\ grants \in SUBSET (({"o"} \cup BanLists) \X Users \X Stamps)
    /\ used \in [Kinds -> Nat]

IInv == TablesOK /\ CountersOK

-----------------------------------------------------------------------------
(* Channels and messages.                                                    *)

\* Operators are the elements of a list.
LEMMA OpsAre == ASSUME NEW c PROVE Ops(c) = ToSet(c.op)
  BY DEF Ops, Range, ToSet

\* The types of the parts of a channel.
LEMMA ChannelParts ==
    ASSUME NEW c \in Channel
    PROVE  /\ c.live \in BOOLEAN /\ c.ts \in Nat /\ c.mode \in Modes
           /\ c.op \in Seq(Users) /\ c.noop \in SUBSET Users
           /\ c.voice \in SUBSET Users /\ c.deop \in SUBSET Users
           /\ c.list \in [BanLists -> SUBSET Users]
  BY DEF Channel

\* Populate changes the memberships only, Settle the settings only.
LEMMA PopulateParts ==
    ASSUME NEW c \in Channel, NEW op \in Seq(Users), NEW noop \in SUBSET Users,
           NEW voice \in SUBSET Users, NEW deop \in SUBSET Users
    PROVE  LET d == Populate(c, op, noop, voice, deop) IN
           /\ d \in Channel /\ d.live = c.live /\ d.ts = c.ts /\ d.mode = c.mode
           /\ d.op = op /\ d.noop = noop /\ d.voice = voice /\ d.deop = deop
           /\ d.list = c.list
  BY DEF Populate, Channel

LEMMA SettleParts ==
    ASSUME NEW c \in Channel, NEW ts \in Nat, NEW mode \in Modes,
           NEW list \in [BanLists -> SUBSET Users]
    PROVE  LET d == Settle(c, ts, mode, list) IN
           /\ d \in Channel /\ d.live = c.live /\ d.ts = ts /\ d.mode = mode
           /\ d.op = c.op /\ d.noop = c.noop /\ d.voice = c.voice /\ d.deop = c.deop
           /\ d.list = list
           /\ Ops(d) = Ops(c) /\ Members(d) = Members(c)
           /\ MembershipsOK(c) => MembershipsOK(d)
  BY DEF Settle, Channel, Ops, Members, MembershipsOK

LEMMA NoChannelParts ==
    /\ NoModes \in Modes
    /\ NoChannel \in Channel /\ ~NoChannel.live /\ NoChannel.op = <<>> /\ NoChannel.noop = {}
    /\ NoChannel.voice = {} /\ NoChannel.deop = {} /\ Members(NoChannel) = {}
    /\ NoChannel.ts = 0 /\ NoChannel.mode = NoModes
    /\ NoChannel.list \in [BanLists -> SUBSET Users]
    /\ MembershipsOK(NoChannel)
  <1>1. NoModes \in Modes BY DEF NoModes, Modes
  <1>2. <<>> \in Seq(Users) /\ Distinct(<<>>) /\ ToSet(<<>>) = {} BY DEF Distinct, ToSet
  <1>3. NoChannel \in Channel BY <1>1, <1>2 DEF NoChannel, Channel
  <1>4. /\ ~NoChannel.live /\ NoChannel.op = <<>> /\ NoChannel.noop = {}
        /\ NoChannel.voice = {} /\ NoChannel.deop = {} /\ NoChannel.ts = 0
        /\ NoChannel.mode = NoModes
        /\ NoChannel.list \in [BanLists -> SUBSET Users]
    BY DEF NoChannel
  <1>5. Ops(NoChannel) = {} BY <1>2, <1>4, OpsAre
  <1> QED BY <1>1, <1>2, <1>3, <1>4, <1>5 DEF Members, MembershipsOK

\* What a message of each kind carries.
LEMMA MsgParts ==
    ASSUME NEW m \in GoodMsg
    PROVE  /\ m \in Msg
           /\ m.cmd \in {"SERVER", "UID", "QUIT", "PART", "JOIN0", "SQUIT", "SJOIN", "JOIN",
                         "BMASK", "TMODE", "KICK"}
           /\ m.cmd \in {"UID", "QUIT", "PART", "JOIN0", "JOIN", "TMODE", "KICK"} => m.u \in Users
           /\ m.cmd = "KICK" => m.who \in Users
           /\ m.cmd = "SQUIT" => m.sid \in Servers
           /\ m.cmd = "JOIN" => m.ts \in Stamps
           /\ m.cmd = "BMASK" => m.ts \in Nat /\ m.letter \in BanLists /\ m.masks \in SUBSET Users
           /\ m.cmd = "TMODE" => m.ts \in Nat /\ m.change \in Change
           /\ m.cmd = "SJOIN" => /\ m.ts \in Stamps /\ m.zero \in BOOLEAN /\ m.mode \in Modes
                                 /\ m.op \in Seq(Users) /\ Distinct(m.op)
                                 /\ m.noop \in SUBSET Users /\ m.voice \in SUBSET Users
                                 /\ ToSet(m.op) \cap m.noop = {}
  BY DEF GoodMsg, Msg

\* The messages that handlers send.
LEMMA Sent ==
    /\ [cmd |-> "SERVER"] \in GoodMsg
    /\ \A u \in Users : \A cmd \in {"UID", "QUIT", "PART", "JOIN0"} : Word(cmd, u) \in GoodMsg
    /\ \A t \in Servers : SQUIT(t) \in GoodMsg
    /\ \A u \in Users, ts \in Stamps : JOIN(u, ts) \in GoodMsg
    /\ \A u \in Users, ts \in Nat, x \in Change : TMODE(u, ts, x) \in GoodMsg
    /\ \A u, v \in Users : KICK(u, v) \in GoodMsg
    /\ \A ts \in Nat, l \in BanLists, ms \in SUBSET Users : BMASK(ts, l, ms) \in GoodMsg
  <1>1. [cmd |-> "SERVER"] \in GoodMsg BY DEF GoodMsg, Msg
  <1>2. \A u \in Users : \A cmd \in {"UID", "QUIT", "PART", "JOIN0"} : Word(cmd, u) \in GoodMsg
    BY DEF GoodMsg, Msg, Word
  <1>3. \A t \in Servers : SQUIT(t) \in GoodMsg BY DEF GoodMsg, Msg, SQUIT
  <1>4. \A u \in Users, ts \in Stamps : JOIN(u, ts) \in GoodMsg
    BY ConstAssumption DEF GoodMsg, Msg, JOIN, Stamps
  <1>5. \A u \in Users, ts \in Nat, x \in Change : TMODE(u, ts, x) \in GoodMsg
    BY DEF GoodMsg, Msg, TMODE
  <1>6. \A u, v \in Users : KICK(u, v) \in GoodMsg BY DEF GoodMsg, Msg, KICK
  <1>7. \A ts \in Nat, l \in BanLists, ms \in SUBSET Users : BMASK(ts, l, ms) \in GoodMsg
    BY DEF GoodMsg, Msg, BMASK
  <1> QED BY <1>1, <1>2, <1>3, <1>4, <1>5, <1>6, <1>7

LEMMA SentSJOIN ==
    ASSUME NEW ts \in Stamps, NEW zero \in BOOLEAN, NEW mode \in Modes,
           NEW op \in Seq(Users), NEW noop \in SUBSET Users, NEW voice \in SUBSET Users,
           Distinct(op), ToSet(op) \cap noop = {}
    PROVE  LET m == SJOIN(ts, zero, mode, op, noop, voice) IN
           /\ m \in GoodMsg /\ m.ts = ts /\ m.zero = zero /\ m.mode = mode
           /\ m.op = op /\ m.noop = noop /\ m.voice = voice
  BY ConstAssumption DEF GoodMsg, Msg, SJOIN, Stamps

-----------------------------------------------------------------------------
(* Memberships.                                                              *)

\* A user joins as an operator or as an ordinary member.
LEMMA JoinedAsOp ==
    ASSUME NEW c, MembershipsOK(c), NEW u \in Users, u \notin Members(c)
    PROVE  LET d == Populate(c, <<u>> \o c.op, c.noop, c.voice, c.deop) IN
           /\ MembershipsOK(d) /\ Members(d) = Members(c) \cup {u}
           /\ d.live = c.live /\ d.ts = c.ts /\ d.mode = c.mode /\ d.list = c.list
           /\ d.op = <<u>> \o c.op /\ d.noop = c.noop /\ d.voice = c.voice
  <1> DEFINE op == <<u>> \o c.op
             d == Populate(c, op, c.noop, c.voice, c.deop)
  <1>1. c \in Channel /\ Distinct(c.op) BY DEF MembershipsOK
  <1>2. c.op \in Seq(Users) /\ u \notin ToSet(c.op) BY <1>1, ChannelParts, OpsAre DEF Members
  <1>3. op \in Seq(Users) /\ ToSet(op) = {u} \cup ToSet(c.op) BY <1>2, ConsElements
  <1>4. Distinct(op) BY <1>1, <1>2, ConsDistinct
  <1> HIDE DEF op
  <1>5. /\ d \in Channel /\ d.live = c.live /\ d.ts = c.ts /\ d.mode = c.mode /\ d.list = c.list
        /\ d.op = op /\ d.noop = c.noop /\ d.voice = c.voice /\ d.deop = c.deop
    BY <1>1, <1>3, ChannelParts, PopulateParts
  <1> HIDE DEF d
  <1>6. Ops(d) = {u} \cup Ops(c) BY <1>3, <1>5, OpsAre
  <1>7. Members(d) = Members(c) \cup {u} BY <1>5, <1>6 DEF Members
  <1>8. MembershipsOK(d)
    BY <1>4, <1>5, <1>6, <1>7 DEF MembershipsOK, Members
  <1> QED BY <1>5, <1>7, <1>8 DEF d, op

LEMMA JoinedAsMember ==
    ASSUME NEW c, MembershipsOK(c), NEW u \in Users, u \notin Members(c)
    PROVE  LET d == Populate(c, c.op, c.noop \cup {u}, c.voice, c.deop) IN
           /\ MembershipsOK(d) /\ Members(d) = Members(c) \cup {u}
           /\ d.live = c.live /\ d.ts = c.ts /\ d.mode = c.mode /\ d.list = c.list
  <1> DEFINE noop == c.noop \cup {u}
             d == Populate(c, c.op, noop, c.voice, c.deop)
  <1>1. c \in Channel BY DEF MembershipsOK
  <1>2. noop \in SUBSET Users BY <1>1, ChannelParts
  <1>3. noop = c.noop \cup {u} OBVIOUS
  <1> HIDE DEF noop
  <1>5. /\ d \in Channel /\ d.live = c.live /\ d.ts = c.ts /\ d.mode = c.mode /\ d.list = c.list
        /\ d.op = c.op /\ d.noop = noop /\ d.voice = c.voice /\ d.deop = c.deop
    BY <1>1, <1>2, ChannelParts, PopulateParts
  <1> HIDE DEF d
  <1>6. Ops(d) = Ops(c) BY <1>5 DEF Ops
  <1>7. Members(d) = Members(c) \cup {u} BY <1>3, <1>5, <1>6 DEF Members
  <1>8. MembershipsOK(d)
    BY <1>3, <1>5, <1>6, <1>7 DEF MembershipsOK, Members
  <1> QED BY <1>5, <1>7, <1>8 DEF d, noop

\* Users leave; the last of them takes the channel with him.
LEMMA RemoveUsersOK ==
    ASSUME NEW c, NEW us, ChannelOK(c, us), NEW gone
    PROVE  LET d == remove_users(c, gone) IN
           /\ ChannelOK(d, us \ gone)
           /\ d.live => c.live /\ d.ts = c.ts
  <1> DEFINE op == Without(c.op, gone)
             noop == c.noop \ gone
             voice == c.voice \ gone
             deop == c.deop \ gone
             rest == Populate(c, op, noop, voice, deop)
             d == remove_users(c, gone)
  <1>1. MembershipsOK(c) /\ c \in Channel /\ Distinct(c.op) BY DEF ChannelOK, MembershipsOK
  <1>2. /\ c.op \in Seq(Users) /\ noop \in SUBSET Users /\ voice \in SUBSET Users
        /\ deop \in SUBSET Users
    BY <1>1, ChannelParts
  <1>3. op \in Seq(Users) /\ ToSet(op) = ToSet(c.op) \ gone BY <1>2, WithoutElements
  <1>4. Distinct(op) BY <1>1, <1>2, WithoutDistinct
  <1>5. /\ noop = c.noop \ gone /\ voice = c.voice \ gone /\ deop = c.deop \ gone
        /\ d = IF Members(rest) = {} THEN NoChannel ELSE rest
    BY DEF remove_users
  <1> HIDE DEF op, noop, voice, deop, d
  <1>6. /\ rest \in Channel /\ rest.live = c.live /\ rest.ts = c.ts
        /\ rest.op = op /\ rest.noop = noop /\ rest.voice = voice /\ rest.deop = deop
    BY <1>1, <1>2, <1>3, PopulateParts
  <1> HIDE DEF rest
  <1>7. Ops(rest) = Ops(c) \ gone BY <1>3, <1>6, OpsAre
  <1>8. Members(rest) = Members(c) \ gone BY <1>5, <1>6, <1>7 DEF Members
  <1>9. MembershipsOK(rest)
    BY <1>1, <1>4, <1>5, <1>6, <1>7, <1>8 DEF MembershipsOK
  <1>10. CASE Members(rest) = {}
    <2>1. d = NoChannel BY <1>5, <1>10
    <2> QED BY <2>1, NoChannelParts DEF ChannelOK, d
  <1>11. CASE Members(rest) # {}
    <2>1. d = rest BY <1>5, <1>11
    <2>2. c.live /\ c.ts \in Stamps /\ Members(c) \subseteq us BY <1>8, <1>11 DEF ChannelOK
    <2>3. ChannelOK(d, us \ gone) BY <1>6, <1>8, <1>9, <1>11, <2>1, <2>2 DEF ChannelOK
    <2> QED BY <1>6, <2>1, <2>2, <2>3 DEF d
  <1> QED BY <1>10, <1>11

\* What remove_our_modes() takes away leaves the members and the settings.
LEMMA RemoveOurModesOK ==
    ASSUME NEW c, MembershipsOK(c)
    PROVE  LET d == remove_our_modes(c) IN
           /\ MembershipsOK(d) /\ Members(d) = Members(c)
           /\ d.live = c.live /\ d.ts = c.ts /\ d.mode = c.mode /\ d.list = c.list
  <1> DEFINE quiet == c.voice \ c.noop
             d == remove_our_modes(c)
  <1>1. c \in Channel /\ Distinct(c.op) BY DEF MembershipsOK
  <1>2. /\ c.op \in Seq(Users) /\ c.noop \in SUBSET Users /\ c.deop \in SUBSET Users
        /\ quiet \in SUBSET Users /\ quiet \subseteq c.voice
    BY <1>1, ChannelParts
  <1> HIDE DEF quiet
  <1>3. CASE Cardinality(c.voice \cap c.noop) >= MAXMODEPARAMS \/ c.op = <<>>
    <2>1. d = Populate(c, c.op, c.noop, quiet, c.deop) BY <1>3 DEF remove_our_modes, quiet
    <2> HIDE DEF d
    <2>2. /\ d \in Channel /\ d.live = c.live /\ d.ts = c.ts /\ d.mode = c.mode /\ d.list = c.list
          /\ d.op = c.op /\ d.noop = c.noop /\ d.voice = quiet /\ d.deop = c.deop
      BY <1>1, <1>2, <2>1, PopulateParts
    <2>3. Ops(d) = Ops(c) /\ Members(d) = Members(c) BY <2>2 DEF Ops, Members
    <2>4. MembershipsOK(d) BY <1>2, <2>2, <2>3 DEF MembershipsOK
    <2> QED BY <2>2, <2>3, <2>4 DEF d
  <1>4. CASE ~(Cardinality(c.voice \cap c.noop) >= MAXMODEPARAMS \/ c.op = <<>>)
    <2> DEFINE op == Tail(c.op)
               h == Head(c.op)
               noop == c.noop \cup {h}
               voice == quiet \ {h}
    <2>1. d = Populate(c, op, noop, voice, c.deop) BY <1>4 DEF remove_our_modes, quiet
    <2>2. /\ h \in Users /\ op \in Seq(Users) /\ ToSet(c.op) = {h} \cup ToSet(op)
          /\ Distinct(op) /\ h \notin ToSet(op)
      BY <1>1, <1>2, <1>4, HeadAndTail
    <2> HIDE DEF op, h, d
    <2>3. noop \in SUBSET Users /\ voice \in SUBSET Users BY <1>2, <2>2
    <2>4. noop = c.noop \cup {h} /\ voice \subseteq c.voice BY <1>2
    <2> HIDE DEF noop, voice
    <2>5. /\ d \in Channel /\ d.live = c.live /\ d.ts = c.ts /\ d.mode = c.mode /\ d.list = c.list
          /\ d.op = op /\ d.noop = noop /\ d.voice = voice /\ d.deop = c.deop
      BY <1>1, <1>2, <2>1, <2>2, <2>3, PopulateParts
    <2>6. Ops(c) = {h} \cup Ops(d) /\ h \notin Ops(d) BY <2>2, <2>5, OpsAre
    <2>7. Members(d) = Members(c) BY <2>4, <2>5, <2>6 DEF Members
    <2>8. MembershipsOK(d) BY <2>2, <2>4, <2>5, <2>6, <2>7 DEF MembershipsOK
    <2> QED BY <2>5, <2>7, <2>8 DEF d
  <1> QED BY <1>3, <1>4

\* A channel that is found or made.
LEMMA CreatedOK ==
    ASSUME NEW c, NEW us, ChannelOK(c, us)
    PROVE  LET d == get_or_create_channel(c) IN
           /\ MembershipsOK(d) /\ Members(d) = Members(c) /\ d.live = TRUE
           /\ d.list \in [BanLists -> SUBSET Users]
  <1> DEFINE d == get_or_create_channel(c)
  <1>1. MembershipsOK(c) /\ c \in Channel /\ (~c.live => Members(c) = {})
    BY DEF ChannelOK, MembershipsOK
  <1>2. CASE c.live
    <2>1. d = c BY <1>2 DEF get_or_create_channel
    <2> QED BY <1>1, <1>2, <2>1, ChannelParts
  <1>3. CASE ~c.live
    <2>1. d = [NoChannel EXCEPT !.live = TRUE] BY <1>3 DEF get_or_create_channel
    <2> HIDE DEF d
    <2>2. /\ d \in Channel /\ d.live = TRUE /\ d.op = NoChannel.op
          /\ d.noop = NoChannel.noop /\ d.voice = NoChannel.voice /\ d.deop = NoChannel.deop
      BY <2>1, NoChannelParts DEF Channel
    <2>3. Ops(d) = Ops(NoChannel) /\ Members(d) = Members(NoChannel) BY <2>2 DEF Ops, Members
    <2>4. MembershipsOK(d) BY <2>2, <2>3, NoChannelParts DEF MembershipsOK
    <2> QED BY <1>1, <1>3, <2>2, <2>3, <2>4, ChannelParts, NoChannelParts DEF d
  <1> QED BY <1>2, <1>3

\* The TS rules give a channel that exists, with the members it had and a TS
\* that is not above the one it had.
LEMMA ApplyTSOK ==
    ASSUME NEW c, NEW us, ChannelOK(c, us), NEW ts \in Stamps
    PROVE  LET d == apply_ts(c, ts) IN
           /\ MembershipsOK(d) /\ Members(d) = Members(c)
           /\ d.live = TRUE /\ d.ts \in Stamps
           /\ c.live => d.ts <= c.ts
  <1> DEFINE base == get_or_create_channel(c)
             t == channelts(c, ts)
             new == [base EXCEPT !.ts = t]
             d == apply_ts(c, ts)
  <1>1. MembershipsOK(c) /\ c \in Channel /\ (c.live => c.ts \in Stamps) /\ (~c.live => Members(c) = {})
    BY DEF ChannelOK, MembershipsOK
  <1>2. t \in Stamps /\ (c.live => t <= c.ts)
    <2>1. ts \in Nat /\ ts # 0 /\ (c.live => c.ts \in Nat /\ c.ts # 0)
      BY <1>1, ConstAssumption DEF Stamps
    <2> QED BY <1>1, <2>1 DEF channelts
  <1>3. t \in Nat BY <1>2, ConstAssumption DEF Stamps
  <1> HIDE DEF t
  <1>4. MembershipsOK(base) /\ Members(base) = Members(c) /\ base.live = TRUE BY CreatedOK
  <1> HIDE DEF base
  <1>5. /\ new \in Channel /\ new.live = TRUE /\ new.ts = t /\ new.op = base.op
        /\ new.noop = base.noop /\ new.voice = base.voice /\ new.deop = base.deop
    BY <1>3, <1>4 DEF MembershipsOK, Channel
  <1>6. d = IF keep_our_modes(c, ts) THEN new
            ELSE Settle(remove_our_modes(new), new.ts, NoModes, new.list)
    BY DEF apply_ts, base, t
  <1> HIDE DEF new, d
  <1>7. Ops(new) = Ops(base) /\ Members(new) = Members(c) BY <1>4, <1>5 DEF Ops, Members
  <1>8. MembershipsOK(new) BY <1>4, <1>5, <1>7 DEF MembershipsOK, Members
  <1>9. CASE keep_our_modes(c, ts) BY <1>2, <1>5, <1>6, <1>7, <1>8, <1>9 DEF d
  <1>10. CASE ~keep_our_modes(c, ts)
    <2> DEFINE r == remove_our_modes(new)
    <2>1. /\ MembershipsOK(r) /\ Members(r) = Members(new) /\ r.live = TRUE
      BY <1>5, <1>8, RemoveOurModesOK
    <2>2. d = Settle(r, new.ts, NoModes, new.list) BY <1>6, <1>10
    <2> HIDE DEF r
    <2>3. r \in Channel /\ new.ts \in Nat /\ new.list \in [BanLists -> SUBSET Users]
      BY <1>5, <2>1, ChannelParts DEF MembershipsOK
    <2>4. MembershipsOK(d) /\ Members(d) = Members(r) /\ d.live = r.live /\ d.ts = new.ts
      BY <2>1, <2>2, <2>3, SettleParts, NoChannelParts
    <2> QED BY <1>2, <1>5, <1>7, <2>1, <2>4 DEF d
  <1> QED BY <1>9, <1>10

-----------------------------------------------------------------------------
(* Effects.                                                                  *)

LEMMA Tables ==
    ASSUME TablesOK, NEW s \in Servers
    PROVE  /\ chan[s] \in Channel /\ known[s] \in SUBSET Users /\ peers[s] \in SUBSET Servers
           /\ queue[s] \in [Servers -> Seq(GoodMsg)]
           /\ ChannelOK(chan[s], known[s]) /\ MembershipsOK(chan[s])
           /\ chan[s].live \in BOOLEAN /\ chan[s].ts \in Nat
           /\ chan[s].live => chan[s].ts \in Stamps
  BY ChannelParts DEF TablesOK, ChannelOK, MembershipsOK

LEMMA RelayOK ==
    ASSUME NEW s, NEW e, EffectOK(s, e), NEW m \in GoodMsg
    PROVE  EffectOK(s, Relay(e, m))
  <1> DEFINE f == Relay(e, m)
  <1>1. e.out \in Seq(GoodMsg) BY DEF EffectOK
  <1>2. Append(e.out, m) \in Seq(GoodMsg) BY <1>1
  <1>3. f.ch = e.ch /\ f.known = e.known /\ f.out = Append(e.out, m) BY DEF Relay
  <1> HIDE DEF f
  <1>4. EffectOK(s, f) BY <1>2, <1>3 DEF EffectOK
  <1> QED BY <1>4 DEF f

LEMMA ChangedOK ==
    ASSUME TablesOK, NEW s \in Servers, NEW c, ChannelOK(c, known[s]),
           chan[s].live /\ c.live => c.ts <= chan[s].ts
    PROVE  EffectOK(s, Changed(s, c))
  <1> DEFINE f == Changed(s, c)
  <1>1. <<>> \in Seq(GoodMsg) OBVIOUS
  <1>2. f.ch = c /\ f.known = known[s] /\ f.out = <<>> BY DEF Changed
  <1> HIDE DEF f
  <1>3. EffectOK(s, f) BY <1>1, <1>2, Tables DEF EffectOK
  <1> QED BY <1>3 DEF f

LEMMA HereOK ==
    ASSUME TablesOK, NEW s \in Servers
    PROVE  EffectOK(s, Here(s))
  <1>1. ChannelOK(chan[s], known[s]) /\ chan[s].ts <= chan[s].ts BY Tables
  <1> QED BY <1>1, ChangedOK DEF Here

LEMMA ExitUsersOK ==
    ASSUME TablesOK, NEW s \in Servers, NEW gone
    PROVE  EffectOK(s, exit_users(s, gone))
  <1> DEFINE d == remove_users(chan[s], gone)
             f == exit_users(s, gone)
  <1>1. ChannelOK(d, known[s] \ gone) /\ (d.live => chan[s].live /\ d.ts = chan[s].ts)
    BY Tables, RemoveUsersOK
  <1>2. f.ch = d /\ f.known = known[s] \ gone /\ f.out = <<>> BY DEF exit_users
  <1>3. <<>> \in Seq(GoodMsg) OBVIOUS
  <1> HIDE DEF d, f
  <1>4. EffectOK(s, f) BY <1>1, <1>2, <1>3, Tables DEF EffectOK
  <1> QED BY <1>4 DEF f

\* A member leaves: PART, JOIN 0 and KICK.
LEMMA LeftOK ==
    ASSUME TablesOK, NEW s \in Servers, NEW u
    PROVE  EffectOK(s, Changed(s, remove_user_from_channel(chan[s], u)))
  <1> DEFINE gone == {u}
             d == remove_users(chan[s], gone)
  <1>1. remove_user_from_channel(chan[s], u) = d BY DEF remove_user_from_channel
  <1> HIDE DEF gone
  <1>2. ChannelOK(d, known[s] \ gone) /\ (d.live => chan[s].live /\ d.ts = chan[s].ts)
    BY Tables, RemoveUsersOK
  <1>3. ChannelOK(d, known[s]) BY <1>2 DEF ChannelOK
  <1> HIDE DEF d
  <1>4. chan[s].live /\ d.live => d.ts <= chan[s].ts BY <1>2, Tables
  <1> QED BY <1>1, <1>3, <1>4, ChangedOK

\* A user joins the channel c of s, as it is after the TS rules.
LEMMA JoinOK ==
    ASSUME TablesOK, NEW s \in Servers, NEW n, NEW m \in GoodMsg, m.cmd = "JOIN",
           m.u \in known[s]
    PROVE  EffectOK(s, ms_join(s, n, m))
  <1> DEFINE c == apply_ts(chan[s], m.ts)
             a == Populate(c, c.op, c.noop \cup {m.u}, c.voice, c.deop)
             d == IF m.u \in Members(c) THEN c ELSE add_user_to_channel(c, m.u, FALSE)
  <1>1. m.u \in Users /\ m.ts \in Stamps BY MsgParts
  <1>2. /\ MembershipsOK(c) /\ Members(c) = Members(chan[s]) /\ c.live = TRUE
        /\ c.ts \in Stamps /\ (chan[s].live => c.ts <= chan[s].ts)
    BY <1>1, Tables, ApplyTSOK
  <1>3. ms_join(s, n, m) = Relay(Changed(s, d), JOIN(m.u, d.ts)) BY DEF ms_join
  <1>4. m.u \notin Members(c) => d = a BY DEF add_user_to_channel
  <1>5. m.u \in Members(c) => d = c OBVIOUS
  <1> HIDE DEF c, d
  <1>6. m.u \notin Members(c) =>
           /\ MembershipsOK(a) /\ Members(a) = Members(c) \cup {m.u} /\ a.live = c.live
           /\ a.ts = c.ts
    BY <1>1, <1>2, JoinedAsMember
  <1> HIDE DEF a
  <1>7. /\ MembershipsOK(d) /\ Members(d) = Members(c) \cup {m.u} /\ d.live = TRUE /\ d.ts = c.ts
    BY <1>2, <1>4, <1>5, <1>6
  <1>8. Members(chan[s]) \subseteq known[s] BY Tables DEF ChannelOK
  <1>9. ChannelOK(d, known[s]) BY <1>2, <1>7, <1>8 DEF ChannelOK
  <1>10. EffectOK(s, Changed(s, d)) BY <1>2, <1>7, <1>9, ChangedOK
  <1>11. JOIN(m.u, d.ts) \in GoodMsg BY <1>1, <1>2, <1>7, Sent
  <1> QED BY <1>3, <1>10, <1>11, RelayOK

\* Masks are added to a list.
LEMMA BmaskOK ==
    ASSUME TablesOK, NEW s \in Servers, NEW n, NEW m \in GoodMsg, m.cmd = "BMASK"
    PROVE  EffectOK(s, ms_bmask(s, n, m))
  <1> DEFINE c == chan[s]
             list == [c.list EXCEPT ![m.letter] = @ \cup m.masks]
             d == Settle(c, c.ts, c.mode, list)
  <1>1. m.letter \in BanLists /\ m.masks \in SUBSET Users BY MsgParts
  <1>2. c \in Channel /\ c.ts \in Nat /\ MembershipsOK(c) /\ ChannelOK(c, known[s]) BY Tables
  <1>3. c.list \in [BanLists -> SUBSET Users] /\ c.mode \in Modes BY <1>2, ChannelParts
  <1>4. list \in [BanLists -> SUBSET Users] BY <1>1, <1>3
  <1>5. CASE ~find_channel(s) \/ m.ts > c.ts BY <1>5, HereOK DEF ms_bmask
  <1>6. CASE ~(~find_channel(s) \/ m.ts > c.ts)
    <2>1. ms_bmask(s, n, m) = Relay(Changed(s, d), BMASK(c.ts, m.letter, m.masks))
      BY <1>6 DEF ms_bmask, add_masks
    <2> HIDE DEF list, c
    <2>2. MembershipsOK(d) /\ d.live = c.live /\ d.ts = c.ts /\ Members(d) = Members(c)
      BY <1>2, <1>3, <1>4, SettleParts
    <2> HIDE DEF d
    <2>3. ChannelOK(d, known[s]) BY <1>2, <2>2 DEF ChannelOK
    <2>4. d.ts <= chan[s].ts BY <1>2, <2>2 DEF c
    <2>5. EffectOK(s, Changed(s, d)) BY <2>3, <2>4, ChangedOK
    <2>6. BMASK(c.ts, m.letter, m.masks) \in GoodMsg BY <1>1, <1>2, Sent
    <2> QED BY <2>1, <2>5, <2>6, RelayOK
  <1> QED BY <1>5, <1>6

-----------------------------------------------------------------------------
(* Mode changes.                                                             *)

LEMMA ChangeParts ==
    ASSUME NEW x \in Change
    PROVE  /\ x.dir \in {"+", "-"}
           /\ x.letter \in {"o", "v", "l", "k"} \cup BanLists \cup Flags
           /\ x.letter \in {"o", "v"} \cup BanLists => x.arg \in Users
           /\ x.letter \in {"l", "k"} => x.arg \in Nat
  BY DEF Change, BanLists, Flags

\* An operator is made or unmade.
LEMMA OpChanged ==
    ASSUME NEW c, MembershipsOK(c), NEW u, NEW x \in Change, x.letter = "o"
    PROVE  LET d == chm_op(c, u, x) IN
           /\ MembershipsOK(d) /\ Members(d) = Members(c) /\ d.live = c.live /\ d.ts = c.ts
  <1> DEFINE d == chm_op(c, u, x)
             a == x.arg
  <1>1. /\ c \in Channel /\ Distinct(c.op) /\ Ops(c) \cap c.noop = {} /\ c.op \in Seq(Users)
        /\ c.noop \in SUBSET Users /\ c.voice \in SUBSET Users /\ c.deop \in SUBSET Users
    BY ChannelParts DEF MembershipsOK
  <1>2. a \in Users BY ChangeParts
  <1>3. CASE x.dir = "+" /\ a \in c.noop
    <2> DEFINE op == <<a>> \o c.op
               noop == c.noop \ {a}
               deop == c.deop \ {a}
    <2>1. d = Populate(c, op, noop, c.voice, deop) BY <1>3 DEF chm_op
    <2>2. a \notin ToSet(c.op) BY <1>1, <1>3, OpsAre
    <2>3. op \in Seq(Users) /\ ToSet(op) = {a} \cup ToSet(c.op) BY <1>1, <1>2, ConsElements
    <2>4. Distinct(op) BY <1>1, <1>2, <2>2, ConsDistinct
    <2>5. noop \in SUBSET Users /\ deop \in SUBSET Users BY <1>1
    <2>6. noop = c.noop \ {a} /\ deop = c.deop \ {a} OBVIOUS
    <2> HIDE DEF op, noop, deop, d, a
    <2>7. /\ d \in Channel /\ d.live = c.live /\ d.ts = c.ts
          /\ d.op = op /\ d.noop = noop /\ d.voice = c.voice /\ d.deop = deop
      BY <1>1, <2>1, <2>3, <2>5, PopulateParts
    <2>8. Ops(d) = {a} \cup Ops(c) BY <2>3, <2>7, OpsAre
    <2>9. Members(d) = Members(c) BY <1>3, <2>6, <2>7, <2>8 DEF Members
    <2>10. MembershipsOK(d) BY <2>4, <2>6, <2>7, <2>8, <2>9 DEF MembershipsOK
    <2> QED BY <2>7, <2>9, <2>10 DEF d
  <1>4. CASE x.dir = "-" /\ a \in Ops(c)
    <2> DEFINE gone == {a}
               op == Without(c.op, gone)
               noop == c.noop \cup {a}
    <2>1. d = Populate(c, op, noop, c.voice, c.deop) BY <1>4 DEF chm_op
    <2>2. noop \in SUBSET Users BY <1>1, <1>2
    <2>3. noop = c.noop \cup {a} /\ gone = {a} OBVIOUS
    <2> HIDE DEF gone
    <2>4. op \in Seq(Users) /\ ToSet(op) = ToSet(c.op) \ gone BY <1>1, WithoutElements
    <2>5. Distinct(op) BY <1>1, WithoutDistinct
    <2> HIDE DEF op, noop, d, a
    <2>6. /\ d \in Channel /\ d.live = c.live /\ d.ts = c.ts
          /\ d.op = op /\ d.noop = noop /\ d.voice = c.voice /\ d.deop = c.deop
      BY <1>1, <2>1, <2>2, <2>4, PopulateParts
    <2>7. Ops(d) = Ops(c) \ {a} BY <2>3, <2>4, <2>6, OpsAre
    <2>8. Members(d) = Members(c) BY <1>4, <2>3, <2>6, <2>7 DEF Members
    <2>9. MembershipsOK(d) BY <2>3, <2>5, <2>6, <2>7, <2>8 DEF MembershipsOK
    <2> QED BY <2>6, <2>8, <2>9 DEF d
  <1>5. CASE ~(x.dir = "+" /\ a \in c.noop) /\ ~(x.dir = "-" /\ a \in Ops(c))
    <2>1. d = c BY <1>5 DEF chm_op
    <2> QED BY <2>1
  <1> QED BY <1>3, <1>4, <1>5

\* A voice is given to a member or taken.
LEMMA VoiceChanged ==
    ASSUME NEW c, MembershipsOK(c), NEW u, NEW x \in Change, x.letter = "v",
           x.arg \in Members(c)
    PROVE  LET d == chm_voice(c, u, x) IN
           /\ MembershipsOK(d) /\ Members(d) = Members(c) /\ d.live = c.live /\ d.ts = c.ts
  <1> DEFINE voice == Toggle(x, c.voice, x.arg)
             d == chm_voice(c, u, x)
  <1>1. /\ c \in Channel /\ c.op \in Seq(Users) /\ c.noop \in SUBSET Users
        /\ c.voice \in SUBSET Users /\ c.deop \in SUBSET Users /\ c.voice \subseteq Members(c)
    BY ChannelParts DEF MembershipsOK
  <1>2. x.arg \in Users BY ChangeParts
  <1>3. voice \in SUBSET Users /\ voice \subseteq Members(c) BY <1>1, <1>2 DEF Toggle
  <1>4. d = Populate(c, c.op, c.noop, voice, c.deop) BY DEF chm_voice
  <1> HIDE DEF voice, d
  <1>5. /\ d \in Channel /\ d.live = c.live /\ d.ts = c.ts
        /\ d.op = c.op /\ d.noop = c.noop /\ d.voice = voice /\ d.deop = c.deop
    BY <1>1, <1>3, <1>4, PopulateParts
  <1>6. Ops(d) = Ops(c) /\ Members(d) = Members(c) BY <1>5 DEF Ops, Members
  <1>7. MembershipsOK(d) BY <1>3, <1>5, <1>6 DEF MembershipsOK
  <1> QED BY <1>5, <1>6, <1>7 DEF d

\* The other changes leave the members alone.
LEMMA SettingChanged ==
    ASSUME NEW c, MembershipsOK(c), NEW u, NEW x \in Change, x.letter \notin {"o", "v"}
    PROVE  LET d == chm(c, u, x) IN
           /\ MembershipsOK(d) /\ Members(d) = Members(c) /\ d.live = c.live /\ d.ts = c.ts
  <1> DEFINE d == chm(c, u, x)
  <1>1. /\ c \in Channel /\ c.ts \in Nat /\ c.mode \in Modes
        /\ c.list \in [BanLists -> SUBSET Users]
    BY ChannelParts DEF MembershipsOK
  <1>2. c.mode.flags \in SUBSET Flags /\ c.mode.key \in Nat /\ c.mode.limit \in Nat
    BY <1>1 DEF Modes
  <1>3. PICK mode \in Modes, list \in [BanLists -> SUBSET Users] : d = Settle(c, c.ts, mode, list)
    <2>1. CASE x.letter \in BanLists
      <3> DEFINE l == [c.list EXCEPT ![x.letter] = Toggle(x, @, x.arg)]
      <3>1. x.arg \in Users BY <2>1, ChangeParts
      <3>2. l \in [BanLists -> SUBSET Users] BY <1>1, <2>1, <3>1 DEF Toggle
      <3>3. d = Settle(c, c.ts, c.mode, l) BY <2>1 DEF chm, chm_ban
      <3> QED BY <1>1, <3>2, <3>3
    <2>2. CASE x.letter \notin BanLists
      <3>1. PICK flags \in SUBSET Flags, key \in Nat, limit \in Nat :
               d = mode_set(c, flags, key, limit)
        <4>1. CASE x.letter \in Flags
          <5>1. Toggle(x, c.mode.flags, x.letter) \in SUBSET Flags BY <1>2, <4>1 DEF Toggle
          <5>2. d = mode_set(c, Toggle(x, c.mode.flags, x.letter), c.mode.key, c.mode.limit)
            BY <2>2, <4>1 DEF chm, chm_simple
          <5> QED BY <1>2, <5>1, <5>2
        <4>2. CASE x.letter \notin Flags /\ x.letter = "l"
          <5> DEFINE lim == IF x.dir = "+" THEN x.arg ELSE 0
          <5>1. lim \in Nat BY <4>2, ChangeParts
          <5>2. d = mode_set(c, c.mode.flags, c.mode.key, lim)
            BY <2>2, <4>2 DEF chm, chm_limit
          <5> QED BY <1>2, <5>1, <5>2
        <4>3. CASE x.letter \notin Flags /\ x.letter # "l"
          <5> DEFINE k == IF x.dir = "+" THEN x.arg ELSE 0
          <5>1. x.letter = "k" BY <2>2, <4>3, ChangeParts
          <5>2. k \in Nat BY <5>1, ChangeParts
          <5>3. d = mode_set(c, c.mode.flags, k, c.mode.limit)
            BY <2>2, <4>3 DEF chm, chm_key
          <5> QED BY <1>2, <5>2, <5>3
        <4> QED BY <4>1, <4>2, <4>3
      <3> DEFINE md == [flags |-> flags, key |-> key, limit |-> limit]
      <3>2. md \in Modes BY DEF Modes
      <3>3. d = Settle(c, c.ts, md, c.list) BY <3>1 DEF mode_set
      <3> QED BY <1>1, <3>2, <3>3
    <2> QED BY <2>1, <2>2
  <1> HIDE DEF d
  <1>4. /\ MembershipsOK(d) /\ Members(d) = Members(c) /\ d.live = c.live /\ d.ts = c.ts
    BY <1>1, <1>3, SettleParts
  <1> QED BY <1>4 DEF d

LEMMA ModeOK ==
    ASSUME TablesOK, NEW s \in Servers, NEW u \in Users, NEW x \in Change
    PROVE  EffectOK(s, set_channel_mode(s, u, x))
  <1> DEFINE c == chan[s]
             d == chm(c, u, x)
  <1>1. MembershipsOK(c) /\ c.ts \in Nat /\ ChannelOK(c, known[s]) BY Tables
  <1>2. CASE ~shown(s, c, u, x) BY <1>2, HereOK DEF set_channel_mode
  <1>3. CASE shown(s, c, u, x)
    <2>1. set_channel_mode(s, u, x) = Relay(Changed(s, d), TMODE(u, c.ts, x))
      BY <1>3 DEF set_channel_mode
    <2>2. x.letter = "v" => x.arg \in Members(c) BY <1>3 DEF shown, BanLists, Flags
    <2> HIDE DEF c
    <2>3. /\ MembershipsOK(d) /\ Members(d) = Members(c) /\ d.live = c.live /\ d.ts = c.ts
      <3>1. CASE x.letter = "o"
        <4>1. d = chm_op(c, u, x) BY <3>1 DEF chm
        <4> QED BY <1>1, <3>1, <4>1, OpChanged
      <3>2. CASE x.letter = "v"
        <4>1. d = chm_voice(c, u, x) BY <3>2 DEF chm
        <4> QED BY <1>1, <2>2, <3>2, <4>1, VoiceChanged
      <3>3. CASE x.letter \notin {"o", "v"} BY <1>1, <3>3, SettingChanged
      <3> QED BY <3>1, <3>2, <3>3
    <2> HIDE DEF d
    <2>4. ChannelOK(d, known[s]) BY <1>1, <2>3 DEF ChannelOK
    <2>5. d.ts <= chan[s].ts BY <1>1, <2>3 DEF c
    <2>6. EffectOK(s, Changed(s, d)) BY <2>4, <2>5, ChangedOK
    <2>7. TMODE(u, c.ts, x) \in GoodMsg BY <1>1, Sent
    <2> QED BY <2>1, <2>6, <2>7, RelayOK
  <1> QED BY <1>2, <1>3

-----------------------------------------------------------------------------
(* Channel descriptions.                                                     *)

LEMMA BackwardsElements ==
    ASSUME NEW U, NEW s \in Seq(U)
    PROVE  /\ Backwards(s) \in Seq(U) /\ ToSet(Backwards(s)) = ToSet(s)
           /\ Distinct(s) => Distinct(Backwards(s))
  <1> DEFINE n == Len(s)
             t == Backwards(s)
  <1>1. n \in Nat /\ DOMAIN s = 1..n /\ \A i \in 1..n : s[i] \in U OBVIOUS
  <1>2. t = [i \in 1..n |-> s[(n + 1) - i]] BY <1>1 DEF Backwards
  <1>3. Distinct(s) <=> \A i, j \in 1..n : s[i] = s[j] => i = j BY DEF Distinct
  <1> HIDE DEF n, t
  <1>4. \A i \in 1..n : /\ (n + 1) - i \in 1..n /\ (n + 1) - ((n + 1) - i) = i
                        /\ t[i] = s[(n + 1) - i]
    BY <1>1, <1>2
  <1>5. t \in Seq(U) /\ Len(t) = n
    <2>1. t \in [1..n -> U] BY <1>1, <1>2, <1>4
    <2> QED BY <1>1, <2>1
  <1>6. ToSet(s) = {s[i] : i \in 1..n} /\ ToSet(t) = {t[i] : i \in 1..n}
    BY <1>1, <1>2 DEF ToSet
  <1>7. ToSet(t) = ToSet(s)
    <2>1. \A x \in ToSet(t) : x \in ToSet(s) BY <1>4, <1>6
    <2>2. ASSUME NEW x \in ToSet(s) PROVE x \in ToSet(t)
      <3>1. PICK i \in 1..n : x = s[i] BY <1>6
      <3>2. (n + 1) - i \in 1..n /\ t[(n + 1) - i] = s[i] BY <1>4, <3>1
      <3> QED BY <1>6, <3>1, <3>2
    <2> QED BY <2>1, <2>2
  <1>8. ASSUME Distinct(s) PROVE Distinct(t)
    <2>1. ASSUME NEW i \in 1..n, NEW j \in 1..n, t[i] = t[j] PROVE i = j
      <3>1. s[(n + 1) - i] = s[(n + 1) - j] BY <1>4, <2>1
      <3>2. (n + 1) - i = (n + 1) - j BY <1>3, <1>4, <1>8, <3>1
      <3> QED BY <1>1, <3>2
    <2> QED BY <1>5, <2>1 DEF Distinct
  <1> QED BY <1>5, <1>7, <1>8 DEF t

\* A description has a list of operators without doubles and other members.
Description(m) ==
    /\ m.op \in Seq(Users) /\ Distinct(m.op) /\ m.noop \in SUBSET Users
    /\ m.voice \in SUBSET Users /\ ToSet(m.op) \cap m.noop = {}
    /\ m.ts \in Stamps /\ m.zero \in BOOLEAN /\ m.mode \in Modes

\* What remains of a description names known users only.
LEMMA TargetsOK ==
    ASSUME TablesOK, NEW s \in Servers, NEW n, NEW m, Description(m)
    PROVE  LET f == targets(s, n, m) IN
           Description(f) /\ ToSet(f.op) \subseteq known[s] /\ f.noop \subseteq known[s]
  <1> DEFINE valid == known[s] \cap UsersBehind(s, n)
             gone == Users \ valid
             op == Without(m.op, gone)
             noop == m.noop \cap valid
             voice == m.voice \cap valid
             f == targets(s, n, m)
  <1>1. known[s] \in SUBSET Users BY Tables
  <1>2. f = SJOIN(m.ts, m.zero, m.mode, op, noop, voice) BY DEF targets
  <1>3. valid \subseteq known[s] OBVIOUS
  <1> HIDE DEF valid, f
  <1>4. gone = Users \ valid OBVIOUS
  <1> HIDE DEF gone
  <1>5. op \in Seq(Users) /\ ToSet(op) = ToSet(m.op) \ gone
    BY WithoutElements DEF Description
  <1>6. Distinct(op) BY WithoutDistinct DEF Description
  <1>7. noop \in SUBSET Users /\ voice \in SUBSET Users /\ noop \subseteq m.noop /\ noop \subseteq known[s]
    BY <1>3 DEF Description
  <1>8. ToSet(m.op) \subseteq Users BY DEF Description, ToSet
  <1>9. ToSet(op) \subseteq known[s] BY <1>3, <1>4, <1>5, <1>8
  <1> HIDE DEF op, noop, voice
  <1>10. ToSet(op) \cap noop = {} BY <1>5, <1>7 DEF Description
  <1>11. /\ f.ts = m.ts /\ f.zero = m.zero /\ f.mode = m.mode /\ f.op = op /\ f.noop = noop
         /\ f.voice = voice
    BY <1>2 DEF SJOIN
  <1>12. Description(f) BY <1>5, <1>6, <1>7, <1>10, <1>11 DEF Description
  <1> QED BY <1>7, <1>9, <1>11, <1>12 DEF f

\* The members of a description join.
LEMMA SjoinMembersOK ==
    ASSUME NEW c, MembershipsOK(c), NEW m, Description(m), NEW new \in BOOLEAN
    PROVE  LET d == sjoin_members(c, m, new) IN
           /\ MembershipsOK(d) /\ Members(d) = Members(c) \cup ToSet(m.op) \cup m.noop
           /\ d.live = c.live /\ d.ts = c.ts /\ d.mode = c.mode /\ d.list = c.list
  <1> DEFINE old == Members(c)
             addop == Without(m.op, old)
             addnoop == m.noop \ Members(c)
             joins == Range(addop) \cup addnoop
             d == sjoin_members(c, m, new)
  <1>1. /\ c \in Channel /\ Distinct(c.op) /\ c.op \in Seq(Users)
        /\ c.noop \in SUBSET Users /\ c.voice \in SUBSET Users /\ c.deop \in SUBSET Users
    BY ChannelParts DEF MembershipsOK
  <1>2. /\ m.op \in Seq(Users) /\ Distinct(m.op) /\ m.noop \in SUBSET Users
        /\ m.voice \in SUBSET Users /\ ToSet(m.op) \cap m.noop = {}
    BY DEF Description
  <1>3. d = IF new THEN Populate(c, Backwards(addop) \o c.op, c.noop \cup addnoop,
                                 c.voice \cup (m.voice \cap joins), c.deop)
            ELSE Populate(c, c.op, c.noop \cup joins, c.voice, c.deop \cup Range(addop))
    BY DEF sjoin_members
  <1>4. old = Members(c) /\ addnoop = m.noop \ old OBVIOUS
  <1> HIDE DEF old, addnoop
  <1>5. addop \in Seq(Users) /\ ToSet(addop) = ToSet(m.op) \ old BY <1>2, WithoutElements
  <1>6. Distinct(addop) BY <1>2, WithoutDistinct
  <1> HIDE DEF addop
  <1>7. Range(addop) = ToSet(addop) BY DEF Range, ToSet
  <1>8. ToSet(addop) \subseteq Users BY <1>5 DEF ToSet
  <1>9. joins = ToSet(addop) \cup addnoop BY <1>7
  <1> HIDE DEF joins, d
  <1>10. joins \cap Members(c) = {} /\ joins \cup Members(c) = Members(c) \cup ToSet(m.op) \cup m.noop
    BY <1>4, <1>5, <1>9
  <1>11. ToSet(addop) \cap addnoop = {} BY <1>2, <1>4, <1>5
  <1>12. joins \in SUBSET Users /\ addnoop \in SUBSET Users BY <1>2, <1>4, <1>8, <1>9
  <1>13. ToSet(addop) \cap ToSet(c.op) = {} BY <1>9, <1>10, OpsAre DEF Members
  <1>14. CASE new
    <2> DEFINE back == Backwards(addop)
               op == back \o c.op
               noop == c.noop \cup addnoop
               voice == c.voice \cup (m.voice \cap joins)
    <2>1. d = Populate(c, op, noop, voice, c.deop) BY <1>3, <1>14
    <2>2. back \in Seq(Users) /\ ToSet(back) = ToSet(addop) /\ Distinct(back)
      BY <1>5, <1>6, BackwardsElements
    <2> HIDE DEF back
    <2>3. op \in Seq(Users) /\ ToSet(op) = ToSet(addop) \cup ToSet(c.op) /\ Distinct(op)
      BY <1>1, <1>13, <2>2, Concatenated
    <2>4. noop \in SUBSET Users /\ voice \in SUBSET Users BY <1>1, <1>2, <1>12
    <2>5. noop = c.noop \cup addnoop /\ voice \subseteq c.voice \cup joins OBVIOUS
    <2> HIDE DEF op, noop, voice
    <2>6. /\ d \in Channel /\ d.live = c.live /\ d.ts = c.ts /\ d.mode = c.mode /\ d.list = c.list
          /\ d.op = op /\ d.noop = noop /\ d.voice = voice /\ d.deop = c.deop
      BY <1>1, <2>1, <2>3, <2>4, PopulateParts
    <2>7. Ops(d) = ToSet(addop) \cup Ops(c) BY <2>3, <2>6, OpsAre
    <2>8. Members(d) = joins \cup Members(c) BY <1>9, <2>5, <2>6, <2>7 DEF Members
    <2>9. Ops(d) \cap d.noop = {}
      BY <1>9, <1>10, <1>11, <2>5, <2>6, <2>7 DEF MembershipsOK, Members
    <2>10. d.deop \cap Ops(d) = {} BY <1>9, <1>10, <2>6, <2>7 DEF MembershipsOK
    <2>11. d.voice \subseteq Members(d) /\ d.deop \subseteq Members(d)
      BY <2>5, <2>6, <2>8 DEF MembershipsOK
    <2>12. MembershipsOK(d) BY <2>3, <2>6, <2>9, <2>10, <2>11 DEF MembershipsOK
    <2> QED BY <1>10, <2>6, <2>8, <2>12 DEF d
  <1>15. CASE ~new
    <2> DEFINE noop == c.noop \cup joins
               deop == c.deop \cup Range(addop)
    <2>1. d = Populate(c, c.op, noop, c.voice, deop) BY <1>3, <1>15
    <2>2. noop \in SUBSET Users /\ deop \in SUBSET Users BY <1>1, <1>7, <1>8, <1>12
    <2>3. noop = c.noop \cup joins /\ deop = c.deop \cup ToSet(addop) BY <1>7
    <2> HIDE DEF noop, deop
    <2>4. /\ d \in Channel /\ d.live = c.live /\ d.ts = c.ts /\ d.mode = c.mode /\ d.list = c.list
          /\ d.op = c.op /\ d.noop = noop /\ d.voice = c.voice /\ d.deop = deop
      BY <1>1, <2>1, <2>2, PopulateParts
    <2>5. Ops(d) = Ops(c) BY <2>4 DEF Ops
    <2>6. Members(d) = joins \cup Members(c) BY <2>3, <2>4, <2>5 DEF Members
    <2>7. Ops(d) \cap d.noop = {} BY <1>10, <2>3, <2>4, <2>5 DEF MembershipsOK, Members
    <2>8. d.deop \cap Ops(d) = {} BY <1>9, <1>10, <2>3, <2>4, <2>5 DEF MembershipsOK, Members
    <2>9. d.voice \subseteq Members(d) /\ d.deop \subseteq Members(d)
      BY <1>9, <2>3, <2>4, <2>6 DEF MembershipsOK
    <2>10. MembershipsOK(d) BY <1>1, <2>4, <2>7, <2>8, <2>9 DEF MembershipsOK
    <2> QED BY <1>10, <2>4, <2>6, <2>10 DEF d
  <1> QED BY <1>14, <1>15

LEMMA FinalModeOK ==
    ASSUME NEW c \in Channel, NEW m, m.mode \in Modes
    PROVE  set_final_mode(c, m) \in Modes
  <1> DEFINE ours == get_or_create_channel(c).mode
  <1>1. ours \in Modes
    <2>1. CASE c.live BY <2>1, ChannelParts DEF get_or_create_channel
    <2>2. CASE ~c.live
      <3>1. get_or_create_channel(c) = [NoChannel EXCEPT !.live = TRUE]
        BY <2>2 DEF get_or_create_channel
      <3>2. get_or_create_channel(c).mode = NoChannel.mode BY <3>1, NoChannelParts DEF Channel
      <3> QED BY <3>2, NoChannelParts
    <2> QED BY <2>1, <2>2
  <1>2. set_final_mode(c, m) =
           IF ~keep_new_modes(c, m.ts) THEN ours
           ELSE IF ~keep_our_modes(c, m.ts) THEN m.mode
           ELSE [flags |-> m.mode.flags \cup ours.flags,
                 key   |-> Larger(m.mode.key, ours.key),
                 limit |-> Larger(m.mode.limit, ours.limit)]
    BY DEF set_final_mode
  <1> HIDE DEF ours
  <1> DEFINE flags == m.mode.flags \cup ours.flags
             key == Larger(m.mode.key, ours.key)
             limit == Larger(m.mode.limit, ours.limit)
             both == [flags |-> flags, key |-> key, limit |-> limit]
  <1>3. flags \in SUBSET Flags /\ key \in Nat /\ limit \in Nat BY <1>1 DEF Modes, Larger
  <1>4. both \in Modes
    <2> HIDE DEF flags, key, limit
    <2> QED BY <1>3 DEF Modes
  <1> QED BY <1>1, <1>2, <1>4

\* What is relayed is a description again.
LEMMA SjoinRelayOK ==
    ASSUME NEW c \in Channel, c.ts \in Stamps, NEW m, Description(m), NEW new \in BOOLEAN
    PROVE  sjoin_relay(c, m, new) \in GoodMsg
  <1>1. CASE new
    <2> DEFINE mode == IF m.zero THEN NoModes ELSE c.mode
    <2>1. sjoin_relay(c, m, new) = SJOIN(c.ts, m.zero, mode, m.op, m.noop, m.voice)
      BY <1>1 DEF sjoin_relay
    <2>2. mode \in Modes BY ChannelParts, NoChannelParts
    <2> HIDE DEF mode
    <2> QED BY <2>1, <2>2, SentSJOIN DEF Description
  <1>2. CASE ~new
    <2> DEFINE op == <<>>
               noop == m.noop \cup Range(m.op)
               voice == {}
               zero == TRUE
    <2>1. sjoin_relay(c, m, new) = SJOIN(c.ts, zero, NoModes, op, noop, voice)
      BY <1>2 DEF sjoin_relay
    <2>2. op \in Seq(Users) /\ Distinct(op) /\ ToSet(op) \cap noop = {} BY DEF Distinct, ToSet
    <2>3. noop \in SUBSET Users /\ voice \in SUBSET Users /\ zero \in BOOLEAN
      BY DEF Description, Range
    <2> HIDE DEF op, noop, voice, zero
    <2> QED BY <2>1, <2>2, <2>3, SentSJOIN, NoChannelParts
  <1> QED BY <1>1, <1>2

LEMMA SjoinOK ==
    ASSUME TablesOK, NEW s \in Servers, NEW n, NEW m \in GoodMsg, m.cmd = "SJOIN"
    PROVE  EffectOK(s, ms_sjoin(s, n, m))
  <1> DEFINE c == chan[s]
             new == keep_new_modes(c, m.ts)
             from == targets(s, n, m)
             old == apply_ts(c, m.ts)
             final == set_final_mode(c, m)
             base == Settle(old, old.ts, final, old.list)
             d == sjoin_members(base, from, new)
             bare == Settle(d, d.ts, d.mode, NoChannel.list)
             kept == IF keep_our_modes(c, m.ts) THEN d ELSE bare
  <1>1. ms_sjoin(s, n, m) = IF Members(d) # Members(base)
                            THEN Relay(Changed(s, kept), sjoin_relay(d, from, new))
                            ELSE IF c.live THEN Changed(s, d) ELSE Here(s)
    BY DEF ms_sjoin
  <1>2. Description(m) /\ m.ts \in Stamps /\ m.mode \in Modes BY MsgParts DEF Description
  <1>3. c \in Channel /\ ChannelOK(c, known[s]) /\ c = chan[s] BY Tables
  <1>4. new \in BOOLEAN BY DEF keep_new_modes
  <1>5. /\ Description(from) /\ ToSet(from.op) \subseteq known[s] /\ from.noop \subseteq known[s]
    BY <1>2, TargetsOK
  <1> HIDE DEF from, new, c
  <1>6. /\ MembershipsOK(old) /\ Members(old) = Members(c) /\ old.live = TRUE
        /\ old.ts \in Stamps /\ (c.live => old.ts <= c.ts)
    BY <1>2, <1>3, ApplyTSOK
  <1>7. final \in Modes BY <1>2, <1>3, FinalModeOK
  <1> HIDE DEF old, final
  <1>8. old \in Channel /\ old.ts \in Nat /\ old.list \in [BanLists -> SUBSET Users]
    BY <1>6, ChannelParts DEF MembershipsOK
  <1>9. /\ MembershipsOK(base) /\ Members(base) = Members(c) /\ base.live = TRUE
        /\ base.ts = old.ts
    BY <1>6, <1>7, <1>8, SettleParts
  <1> HIDE DEF base
  <1>10. /\ MembershipsOK(d) /\ Members(d) = Members(base) \cup ToSet(from.op) \cup from.noop
         /\ d.live = TRUE /\ d.ts = old.ts
    BY <1>4, <1>5, <1>9, SjoinMembersOK
  <1> HIDE DEF d
  <1>11. /\ d \in Channel /\ d.ts \in Nat /\ d.mode \in Modes
         /\ NoChannel.list \in [BanLists -> SUBSET Users]
    BY <1>10, ChannelParts, NoChannelParts DEF MembershipsOK
  <1>12. MembershipsOK(bare) /\ Members(bare) = Members(d) /\ bare.live = d.live /\ bare.ts = d.ts
    BY <1>10, <1>11, SettleParts
  <1> HIDE DEF bare
  <1>13. MembershipsOK(kept) /\ Members(kept) = Members(d) /\ kept.live = TRUE /\ kept.ts = old.ts
    BY <1>10, <1>12
  <1> HIDE DEF kept
  <1>14. Members(d) \subseteq known[s]
    BY <1>3, <1>5, <1>9, <1>10 DEF ChannelOK
  <1>15. CASE Members(d) # Members(base)
    <2>1. Members(d) # {} BY <1>10, <1>15
    <2>2. ChannelOK(kept, known[s]) BY <1>6, <1>13, <1>14, <2>1 DEF ChannelOK
    <2>3. EffectOK(s, Changed(s, kept)) BY <1>3, <1>6, <1>13, <2>2, ChangedOK
    <2>4. sjoin_relay(d, from, new) \in GoodMsg BY <1>4, <1>5, <1>6, <1>10, <1>11, SjoinRelayOK
    <2> QED BY <1>1, <1>15, <2>3, <2>4, RelayOK
  <1>16. CASE Members(d) = Members(base) /\ c.live
    <2>1. Members(d) # {} BY <1>3, <1>9, <1>16 DEF ChannelOK
    <2>2. ChannelOK(d, known[s]) BY <1>6, <1>10, <1>14, <2>1 DEF ChannelOK
    <2>3. EffectOK(s, Changed(s, d)) BY <1>3, <1>6, <1>10, <2>2, ChangedOK
    <2> QED BY <1>1, <1>16, <2>3
  <1>17. CASE Members(d) = Members(base) /\ ~c.live BY <1>1, <1>17, HereOK
  <1> QED BY <1>15, <1>16, <1>17

-----------------------------------------------------------------------------
(* Steps.                                                                    *)

LEMMA PartOK ==
    ASSUME TablesOK, NEW s \in Servers, NEW u \in Users
    PROVE  EffectOK(s, part_one_client(s, u))
  <1>1. Word("PART", u) \in GoodMsg BY Sent
  <1> DEFINE l == Changed(s, remove_user_from_channel(chan[s], u))
  <1>2. EffectOK(s, l) BY LeftOK
  <1> HIDE DEF l
  <1>3. EffectOK(s, Relay(l, Word("PART", u))) BY <1>1, <1>2, RelayOK
  <1> QED BY <1>3, HereOK DEF part_one_client, l

LEMMA Join0OK ==
    ASSUME TablesOK, NEW s \in Servers, NEW u \in Users
    PROVE  EffectOK(s, do_join_0(s, u))
  <1>1. Word("JOIN0", u) \in GoodMsg BY Sent
  <1> DEFINE e == IF u \in Members(chan[s])
                  THEN Changed(s, remove_user_from_channel(chan[s], u)) ELSE Here(s)
  <1>2. EffectOK(s, e) BY LeftOK, HereOK
  <1>3. do_join_0(s, u) = Relay(e, Word("JOIN0", u)) BY DEF do_join_0
  <1> HIDE DEF e
  <1> QED BY <1>1, <1>2, <1>3, RelayOK

LEMMA KickOK ==
    ASSUME TablesOK, NEW s \in Servers, NEW u \in Users, NEW v \in Users
    PROVE  EffectOK(s, m_kick(s, u, v))
  <1>1. KICK(u, v) \in GoodMsg BY Sent
  <1> DEFINE l == Changed(s, remove_user_from_channel(chan[s], v))
  <1>2. EffectOK(s, l) BY LeftOK
  <1>3. m_kick(s, u, v) \in {Here(s), Relay(l, KICK(u, v))} BY DEF m_kick
  <1> HIDE DEF l
  <1>4. EffectOK(s, Relay(l, KICK(u, v))) BY <1>1, <1>2, RelayOK
  <1> QED BY <1>3, <1>4, HereOK

LEMMA QuitOK ==
    ASSUME TablesOK, NEW s \in Servers, NEW u \in Users
    PROVE  EffectOK(s, ms_quit(s, u))
  <1>1. Word("QUIT", u) \in GoodMsg BY Sent
  <1> DEFINE gone == {u}
             e == exit_users(s, gone)
  <1>2. ms_quit(s, u) = Relay(e, Word("QUIT", u)) BY DEF ms_quit
  <1> HIDE DEF gone
  <1>3. EffectOK(s, e) BY ExitUsersOK
  <1> HIDE DEF e
  <1> QED BY <1>1, <1>2, <1>3, RelayOK

\* The servers that are lost, whoever reports them, take their users along.
LEMMA SquitOK ==
    ASSUME TablesOK, NEW s \in Servers, NEW gone, NEW t \in Servers
    PROVE  EffectOK(s, Relay(exit_users(s, gone), SQUIT(t)))
  BY ExitUsersOK, Sent, RelayOK

LEMMA UidOK ==
    ASSUME TablesOK, NEW s \in Servers, NEW u \in Users
    PROVE  EffectOK(s, ms_uid(s, u))
  <1> DEFINE e == ms_uid(s, u)
             w == Word("UID", u)
  <1>1. w \in GoodMsg BY Sent
  <1>2. e.ch = chan[s] /\ e.known = known[s] \cup {u} /\ e.out = <<w>> BY DEF ms_uid
  <1> HIDE DEF e, w
  <1>3. <<w>> \in Seq(GoodMsg) BY <1>1
  <1>4. ChannelOK(chan[s], known[s] \cup {u}) BY Tables DEF ChannelOK
  <1>5. chan[s].ts <= chan[s].ts /\ known[s] \cup {u} \in SUBSET Users BY Tables
  <1>6. EffectOK(s, e) BY <1>2, <1>3, <1>4, <1>5 DEF EffectOK
  <1> QED BY <1>6 DEF e

LEMMA HandleOK ==
    ASSUME TablesOK, NEW s \in Servers, NEW n \in Servers, NEW m \in GoodMsg, m.cmd # "SERVER"
    PROVE  EffectOK(s, Handle(s, n, m))
  <1> USE DEF Handle
  <1>1. CASE m.cmd = "UID" BY <1>1, MsgParts, UidOK
  <1>2. CASE m.cmd = "SQUIT" BY <1>2, MsgParts, SquitOK DEF ms_squit
  <1>3. CASE m.cmd = "SJOIN" BY <1>3, SjoinOK
  <1>4. CASE m.cmd = "BMASK" BY <1>4, BmaskOK
  <1>5. CASE m.cmd \notin {"UID", "SQUIT", "SJOIN", "BMASK"} /\ m.u \notin known[s]
    BY <1>5, HereOK
  <1>6. CASE m.cmd \notin {"UID", "SQUIT", "SJOIN", "BMASK"} /\ m.u \in known[s]
    <2>1. m.u \in Users BY <1>6, Tables
    <2>2. CASE m.cmd = "JOIN" BY <1>6, <2>2, JoinOK
    <2>3. CASE m.cmd = "TMODE"
      <3>1. m.change \in Change BY <2>3, MsgParts
      <3>2. EffectOK(s, ms_tmode(s, n, m)) BY <2>1, <3>1, HereOK, ModeOK DEF ms_tmode
      <3> QED BY <1>6, <2>3, <3>2
    <2>4. CASE m.cmd = "PART" BY <1>6, <2>1, <2>4, PartOK
    <2>5. CASE m.cmd = "JOIN0" BY <1>6, <2>1, <2>5, Join0OK
    <2>6. CASE m.cmd = "KICK" BY <1>6, <2>1, <2>6, MsgParts, KickOK
    <2>7. CASE m.cmd \notin {"JOIN", "TMODE", "PART", "JOIN0", "KICK"}
      BY <1>6, <2>1, <2>7, QuitOK
    <2> QED BY <2>2, <2>3, <2>4, <2>5, <2>6, <2>7
  <1> QED BY <1>1, <1>2, <1>3, <1>4, <1>5, <1>6

\* A burst introduces every user, then the channel as this server has it.
LEMMA BurstOK ==
    ASSUME TablesOK, NEW s \in Servers
    PROVE  burst_TS6(s) \in Seq(GoodMsg)
  <1>1. burst_users(known[s]) \in Seq(GoodMsg)
    <2> DEFINE us == known[s]
               n == Cardinality(us)
               order == CHOOSE f \in [1..n -> us] : Range(f) = us
    <2>1. us \in SUBSET Users /\ IsFiniteSet(us)
      BY Tables, ConstAssumption, FS_Subset
    <2> HIDE DEF us
    <2>2. n \in Nat BY <2>1, FS_CardinalityType
    <2>3. \E f \in [1..n -> us] : Range(f) = us
      <3>1. ExistsBijection(1..n, us) BY <2>1, FS_CardinalityType
      <3>2. PICK f : f \in Bijection(1..n, us) BY <3>1 DEF ExistsBijection
      <3>3. f \in [1..n -> us] /\ \A u \in us : \E i \in 1..n : f[i] = u
        BY <3>2 DEF Bijection, Surjection
      <3>4. Range(f) = us BY <3>3 DEF Range
      <3> QED BY <3>3, <3>4
    <2>4. order \in [1..n -> us] BY <2>3
    <2> HIDE DEF order
    <2>5. \A i \in 1..n : Word("UID", order[i]) \in GoodMsg BY <2>1, <2>4, Sent
    <2>6. burst_users(us) = [i \in 1..n |-> Word("UID", order[i])] BY DEF burst_users, order
    <2> DEFINE q == [i \in 1..n |-> Word("UID", order[i])]
    <2>7. q \in [1..n -> GoodMsg] BY <2>5
    <2> HIDE DEF q, n
    <2>8. q \in Seq(GoodMsg) BY <2>2, <2>7
    <2> QED BY <2>6, <2>8 DEF q, us
  <1>2. burst_channel(chan[s]) \in Seq(GoodMsg)
    <2> DEFINE c == chan[s]
    <2>1. c \in Channel /\ MembershipsOK(c) /\ c.ts \in Nat /\ (c.live => c.ts \in Stamps)
      BY Tables
    <2>2. c.list \in [BanLists -> SUBSET Users] BY <2>1, ChannelParts
    <2> HIDE DEF c
    <2>3. CASE ~c.live
      <3>1. burst_channel(c) = <<>> BY <2>3 DEF burst_channel
      <3>2. <<>> \in Seq(GoodMsg) OBVIOUS
      <3> QED BY <3>1, <3>2 DEF c
    <2>4. CASE c.live
      <3> DEFINE zero == FALSE
                 m == SJOIN(c.ts, zero, c.mode, c.op, c.noop, c.voice)
                 b == burst_masks(c, "b")
                 e == burst_masks(c, "e")
                 i == burst_masks(c, "I")
      <3>1. burst_channel(c) = <<m>> \o (b \o (e \o i)) BY <2>4 DEF burst_channel
      <3>2. zero \in BOOLEAN OBVIOUS
      <3>3. ToSet(c.op) \cap c.noop = {} /\ Distinct(c.op) BY <2>1, OpsAre DEF MembershipsOK
      <3> HIDE DEF zero
      <3>4. m \in GoodMsg BY <2>1, <2>4, <3>2, <3>3, ChannelParts, SentSJOIN
      <3>5. ASSUME NEW l \in BanLists PROVE burst_masks(c, l) \in Seq(GoodMsg)
        <4>1. BMASK(c.ts, l, c.list[l]) \in GoodMsg BY <2>1, <2>2, Sent
        <4>2. <<BMASK(c.ts, l, c.list[l])>> \in Seq(GoodMsg) BY <4>1
        <4>3. <<>> \in Seq(GoodMsg) OBVIOUS
        <4> QED BY <4>2, <4>3 DEF burst_masks
      <3>6. b \in Seq(GoodMsg) /\ e \in Seq(GoodMsg) /\ i \in Seq(GoodMsg) BY <3>5 DEF BanLists
      <3> HIDE DEF m, b, e, i
      <3>7. <<m>> \in Seq(GoodMsg) BY <3>4
      <3>8. e \o i \in Seq(GoodMsg) BY <3>6, Concatenated
      <3>9. b \o (e \o i) \in Seq(GoodMsg) BY <3>6, <3>8, Concatenated
      <3>10. <<m>> \o (b \o (e \o i)) \in Seq(GoodMsg) BY <3>7, <3>9, Concatenated
      <3> QED BY <3>1, <3>10 DEF c
    <2> QED BY <2>3, <2>4
  <1> QED BY <1>1, <1>2, Concatenated DEF burst_TS6

LEMMA SendtoOK ==
    ASSUME TablesOK, NEW s \in Servers, NEW e, EffectOK(s, e), NEW one
    PROVE  sendto_server(s, e, one) \in [Servers -> Seq(GoodMsg)]
  <1>1. e.out \in Seq(GoodMsg) BY DEF EffectOK
  <1>2. ASSUME NEW t \in Servers
        PROVE  queue[s][t] \in Seq(GoodMsg) /\ queue[s][t] \o e.out \in Seq(GoodMsg)
    <2>1. queue[s][t] \in Seq(GoodMsg) BY Tables
    <2> QED BY <1>1, <2>1, Concatenated
  <1> QED BY <1>2 DEF sendto_server

\* No server's TS rises in a step.
Falls == \A s \in Servers : chan[s].live /\ chan'[s].live => chan'[s].ts <= chan[s].ts

\* The step of one server.
LEMMA OneOK ==
    ASSUME TablesOK, NEW s \in Servers, NEW e, EffectOK(s, e), Commit(s, e),
           UNCHANGED peers, queue' \in [Servers -> [Servers -> Seq(GoodMsg)]]
    PROVE  TablesOK' /\ Falls
  <1>1. e.ch \in Channel /\ e.known \in SUBSET Users /\ ChannelOK(e.ch, e.known)
    BY DEF EffectOK, ChannelOK, MembershipsOK
  <1>2. /\ chan' \in [Servers -> Channel] /\ known' \in [Servers -> SUBSET Users]
        /\ peers' \in [Servers -> SUBSET Servers]
    BY <1>1 DEF TablesOK, Commit
  <1>3. ASSUME NEW r \in Servers
        PROVE  /\ ChannelOK(chan'[r], known'[r])
               /\ chan[r].live /\ chan'[r].live => chan'[r].ts <= chan[r].ts
    <2>1. CASE r = s
      <3>1. chan'[r] = e.ch /\ known'[r] = e.known BY <2>1 DEF TablesOK, Commit
      <3> QED BY <1>1, <2>1, <3>1 DEF EffectOK
    <2>2. CASE r # s
      <3>1. chan'[r] = chan[r] /\ known'[r] = known[r] BY <2>2 DEF TablesOK, Commit
      <3>2. ChannelOK(chan[r], known[r]) /\ chan[r].ts <= chan[r].ts BY Tables
      <3> QED BY <3>1, <3>2
    <2> QED BY <2>1, <2>2
  <1>4. \A r \in Servers : ChannelOK(chan[r], known[r])' BY <1>3 DEF ChannelOK, MembershipsOK
  <1> QED BY <1>2, <1>3, <1>4 DEF TablesOK, Falls

LEMMA LocalOK ==
    ASSUME TablesOK, NEW s \in Servers, NEW e, EffectOK(s, e), Local(s, e), UNCHANGED peers
    PROVE  TablesOK' /\ Falls
  <1>1. sendto_server(s, e, s) \in [Servers -> Seq(GoodMsg)] BY SendtoOK
  <1>2. queue' \in [Servers -> [Servers -> Seq(GoodMsg)]] BY <1>1 DEF TablesOK, Local
  <1> QED BY <1>2, OneOK DEF Local

LEMMA ReceiveOK ==
    ASSUME TablesOK, NEW n \in Servers, NEW s \in Servers, Receive(n, s)
    PROVE  TablesOK' /\ Falls
  <1> DEFINE m == Head(queue[n][s])
             e == Handle(s, n, m)
  <1>1. queue[n][s] \in Seq(GoodMsg) /\ queue[n][s] # <<>> /\ queue[n] \in [Servers -> Seq(GoodMsg)]
    BY Tables DEF Receive
  <1>2. m \in GoodMsg /\ Tail(queue[n][s]) \in Seq(GoodMsg) BY <1>1, HeadAndTail
  <1>3. m.cmd # "SERVER" BY DEF Receive
  <1>4. /\ Commit(s, e) /\ UNCHANGED peers
        /\ queue' = [a \in Servers |->
                       IF a = s THEN sendto_server(s, e, n)
                       ELSE IF a = n THEN [queue[n] EXCEPT ![s] = Tail(queue[n][s])]
                       ELSE queue[a]]
    BY DEF Receive
  <1> HIDE DEF m
  <1>5. EffectOK(s, e) BY <1>2, <1>3, HandleOK
  <1> HIDE DEF e
  <1>6. sendto_server(s, e, n) \in [Servers -> Seq(GoodMsg)] BY <1>5, SendtoOK
  <1>7. [queue[n] EXCEPT ![s] = Tail(queue[n][s])] \in [Servers -> Seq(GoodMsg)] BY <1>1, <1>2
  <1>8. queue' \in [Servers -> [Servers -> Seq(GoodMsg)]] BY <1>4, <1>6, <1>7, Tables
  <1> QED BY <1>4, <1>5, <1>8, OneOK

LEMMA SplitOK ==
    ASSUME TablesOK, NEW s \in Servers, NEW t \in Servers, Split(s, t)
    PROVE  TablesOK' /\ Falls
  <1> DEFINE e == exit_local_server(s, t)
             f == IF s \in peers[t] THEN exit_local_server(t, s) ELSE Here(t)
             qs == [sendto_server(s, e, t) EXCEPT ![t] = <<>>]
             qt == [sendto_server(t, f, s) EXCEPT ![s] = <<>>]
  <1>1. /\ chan' = [a \in Servers |-> IF a = t THEN f.ch ELSE IF a = s THEN e.ch ELSE chan[a]]
        /\ known' = [a \in Servers |-> IF a = t THEN f.known
                                       ELSE IF a = s THEN e.known ELSE known[a]]
        /\ queue' = [a \in Servers |-> IF a = t THEN qt ELSE IF a = s THEN qs ELSE queue[a]]
        /\ peers' = [a \in Servers |-> IF a = t THEN peers[t] \ {s}
                                       ELSE IF a = s THEN peers[s] \ {t} ELSE peers[a]]
    BY DEF Split
  <1>2. EffectOK(s, e) BY SquitOK DEF exit_local_server
  <1>3. EffectOK(t, f) BY SquitOK, HereOK DEF exit_local_server
  <1> HIDE DEF e, f
  <1>4. <<>> \in Seq(GoodMsg) OBVIOUS
  <1>5. qs \in [Servers -> Seq(GoodMsg)]
    <2>1. sendto_server(s, e, t) \in [Servers -> Seq(GoodMsg)] BY <1>2, SendtoOK
    <2> QED BY <1>4, <2>1
  <1>6. qt \in [Servers -> Seq(GoodMsg)]
    <2>1. sendto_server(t, f, s) \in [Servers -> Seq(GoodMsg)] BY <1>3, SendtoOK
    <2> QED BY <1>4, <2>1
  <1> HIDE DEF qs, qt
  <1>7. /\ e.ch \in Channel /\ e.known \in SUBSET Users
        /\ f.ch \in Channel /\ f.known \in SUBSET Users
    BY <1>2, <1>3 DEF EffectOK, ChannelOK, MembershipsOK
  <1>8. chan' \in [Servers -> Channel] BY <1>1, <1>7, Tables
  <1>9. known' \in [Servers -> SUBSET Users] BY <1>1, <1>7, Tables
  <1>10. peers' \in [Servers -> SUBSET Servers] BY <1>1, Tables
  <1>11. queue' \in [Servers -> [Servers -> Seq(GoodMsg)]] BY <1>1, <1>5, <1>6, Tables
  <1>12. ASSUME NEW r \in Servers
         PROVE  /\ ChannelOK(chan'[r], known'[r])
                /\ chan[r].live /\ chan'[r].live => chan'[r].ts <= chan[r].ts
    <2>1. CASE r = t
      <3>1. chan'[r] = f.ch /\ known'[r] = f.known BY <1>1, <2>1
      <3> QED BY <1>3, <2>1, <3>1 DEF EffectOK
    <2>2. CASE r # t /\ r = s
      <3>1. chan'[r] = e.ch /\ known'[r] = e.known BY <1>1, <2>2
      <3> QED BY <1>2, <2>2, <3>1 DEF EffectOK
    <2>3. CASE r # t /\ r # s
      <3>1. chan'[r] = chan[r] /\ known'[r] = known[r] BY <1>1, <2>3
      <3>2. ChannelOK(chan[r], known[r]) /\ chan[r].ts <= chan[r].ts BY Tables
      <3> QED BY <3>1, <3>2
    <2> QED BY <2>1, <2>2, <2>3
  <1>13. \A r \in Servers : ChannelOK(chan[r], known[r])' BY <1>12 DEF ChannelOK, MembershipsOK
  <1> QED BY <1>8, <1>9, <1>10, <1>11, <1>12, <1>13 DEF TablesOK, Falls

\* A link comes up: nothing but the queues and the list of links changes.
LEMMA LinkedOK ==
    ASSUME TablesOK, UNCHANGED <<chan, known>>,
           peers' \in [Servers -> SUBSET Servers],
           queue' \in [Servers -> [Servers -> Seq(GoodMsg)]]
    PROVE  TablesOK' /\ Falls
  <1>1. \A r \in Servers : ChannelOK(chan[r], known[r])' BY DEF TablesOK, ChannelOK, MembershipsOK
  <1>2. Falls BY Tables DEF Falls
  <1> QED BY <1>1, <1>2 DEF TablesOK

LEMMA ConnectOK ==
    ASSUME TablesOK, NEW s \in Servers, NEW t \in Servers, Connect(s, t) \/ RecvSERVER(s, t)
    PROVE  TablesOK' /\ Falls
  <1>1. CASE Connect(s, t)
    <2> DEFINE hello == [cmd |-> "SERVER"]
               q == <<hello>> \o burst_TS6(s)
    <2>1. hello \in GoodMsg BY Sent
    <2>2. queue' = [queue EXCEPT ![s] = [queue[s] EXCEPT ![t] = q]] BY <1>1 DEF Connect
    <2>3. burst_TS6(s) \in Seq(GoodMsg) BY BurstOK
    <2> HIDE DEF hello
    <2>4. <<hello>> \in Seq(GoodMsg) BY <2>1
    <2>5. q \in Seq(GoodMsg) BY <2>3, <2>4, Concatenated
    <2> HIDE DEF q
    <2>6. [queue[s] EXCEPT ![t] = q] \in [Servers -> Seq(GoodMsg)] BY <2>5, Tables
    <2>7. queue' \in [Servers -> [Servers -> Seq(GoodMsg)]] BY <2>2, <2>6 DEF TablesOK
    <2>8. peers' \in [Servers -> SUBSET Servers] BY <1>1, Tables DEF Connect, TablesOK
    <2> QED BY <1>1, <2>7, <2>8, LinkedOK DEF Connect
  <1>2. CASE RecvSERVER(s, t)
    <2> DEFINE q == burst_TS6(t)
               qt == [queue[t] EXCEPT ![s] = q]
               qs == [queue[s] EXCEPT ![t] = Tail(queue[s][t])]
    <2>1. queue' = [a \in Servers |-> IF a = t THEN qt ELSE IF a = s THEN qs ELSE queue[a]]
      BY <1>2 DEF RecvSERVER
    <2>2. q \in Seq(GoodMsg) BY BurstOK
    <2>3. queue[s][t] \in Seq(GoodMsg) /\ queue[s][t] # <<>> BY <1>2, Tables DEF RecvSERVER
    <2>4. Tail(queue[s][t]) \in Seq(GoodMsg) BY <2>3, HeadAndTail
    <2> HIDE DEF q
    <2>5. qt \in [Servers -> Seq(GoodMsg)] BY <2>2, Tables
    <2>6. qs \in [Servers -> Seq(GoodMsg)] BY <2>4, Tables
    <2> HIDE DEF qt, qs
    <2>7. queue' \in [Servers -> [Servers -> Seq(GoodMsg)]] BY <2>1, <2>5, <2>6, Tables
    <2>8. peers' \in [Servers -> SUBSET Servers] BY <1>2, Tables DEF RecvSERVER, TablesOK
    <2> QED BY <1>2, <2>7, <2>8, LinkedOK DEF RecvSERVER
  <1> QED BY <1>1, <1>2

-----------------------------------------------------------------------------
(* Commands of local users.                                                  *)

\* A user who is known where he is connected, on that server.
LEMMA AtHome ==
    ASSUME NEW u \in Users
    PROVE  Home[u] \in Servers
  BY ConstAssumption

LEMMA CommandJoin ==
    ASSUME TablesOK, NEW u \in Users, m_join(u)
    PROVE  TablesOK' /\ Falls
  <1> DEFINE s == Home[u]
             c == chan[s]
             d == add_user_to_channel(c, u, FALSE)
             e == Changed(s, d)
             a == Populate(c, c.op, c.noop \cup {u}, c.voice, c.deop)
  <1>1. s \in Servers BY AtHome
  <1>2. /\ u \in known[s] /\ c.live /\ u \notin Members(c)
        /\ Local(s, Relay(e, JOIN(u, c.ts))) /\ UNCHANGED peers
    BY DEF m_join, find_channel
  <1>3. /\ MembershipsOK(c) /\ ChannelOK(c, known[s]) /\ c.ts \in Nat /\ c.ts \in Stamps
        /\ c = chan[s]
    BY <1>1, <1>2, Tables
  <1>4. d = a BY DEF add_user_to_channel
  <1> HIDE DEF c, d, s
  <1>5. MembershipsOK(a) /\ Members(a) = Members(c) \cup {u} /\ a.live = c.live /\ a.ts = c.ts
    BY <1>2, <1>3, JoinedAsMember
  <1> HIDE DEF a
  <1>6. ChannelOK(d, known[s]) BY <1>2, <1>3, <1>4, <1>5 DEF ChannelOK
  <1>7. EffectOK(s, e) BY <1>1, <1>3, <1>4, <1>5, <1>6, ChangedOK
  <1>8. JOIN(u, c.ts) \in GoodMsg BY <1>3, Sent
  <1> HIDE DEF e
  <1>9. EffectOK(s, Relay(e, JOIN(u, c.ts))) BY <1>7, <1>8, RelayOK
  <1> QED BY <1>1, <1>2, <1>9, LocalOK

LEMMA CommandJoinNew ==
    ASSUME IInv, NEW u \in Users, m_join_new(u)
    PROVE  TablesOK' /\ Falls
  <1> DEFINE s == Home[u]
             c == chan[s]
             b == get_or_create_channel(c)
             j == Populate(b, <<u>> \o b.op, b.noop, b.voice, b.deop)
             mode == [flags |-> {"n", "t"}, key |-> 0, limit |-> 0]
             zero == FALSE
             op == <<u>>
             none == {}
  <1>1. s \in Servers /\ TablesOK BY AtHome DEF IInv
  <1>2. PICK now \in clock[s]..MaxTS :
           LET j0 == add_user_to_channel(b, u, TRUE)
               d0 == Settle(j0, now, mode, j0.list)
           IN  Local(s, Relay(Changed(s, d0), SJOIN(now, zero, d0.mode, op, none, none)))
    BY DEF m_join_new
  <1>3. u \in known[s] /\ ~c.live /\ UNCHANGED peers BY DEF m_join_new, find_channel
  <1>4. now \in Stamps /\ now \in Nat
    <2>1. clock[s] \in 1..MaxTS BY <1>1 DEF IInv, CountersOK, Stamps
    <2> QED BY <2>1, ConstAssumption DEF Stamps
  <1>5. add_user_to_channel(b, u, TRUE) = j BY DEF add_user_to_channel
  <1> DEFINE d == Settle(j, now, mode, j.list)
  <1>6. Local(s, Relay(Changed(s, d), SJOIN(now, zero, d.mode, op, none, none)))
    BY <1>2, <1>5
  <1>7. /\ mode \in Modes /\ zero \in BOOLEAN /\ op \in Seq(Users) /\ Distinct(op)
        /\ none \in SUBSET Users /\ ToSet(op) \cap none = {}
    BY DEF Modes, Flags, Distinct
  <1>8. ChannelOK(c, known[s]) /\ Members(c) = {} BY <1>1, <1>3, Tables DEF ChannelOK
  <1> HIDE DEF mode, zero, op, none
  <1>9. MembershipsOK(b) /\ Members(b) = {} /\ b.live = TRUE
    <2> HIDE DEF c, s
    <2> QED BY <1>8, CreatedOK
  <1> HIDE DEF b
  <1>10. MembershipsOK(j) /\ Members(j) = {u} /\ j.live = TRUE BY <1>9, JoinedAsOp
  <1> HIDE DEF j
  <1>11. j \in Channel /\ j.list \in [BanLists -> SUBSET Users]
    BY <1>10, ChannelParts DEF MembershipsOK
  <1>12. MembershipsOK(d) /\ Members(d) = {u} /\ d.live = TRUE /\ d.ts = now /\ d.mode = mode
    BY <1>4, <1>7, <1>10, <1>11, SettleParts
  <1> HIDE DEF d
  <1>13. ChannelOK(d, known[s]) BY <1>3, <1>4, <1>12 DEF ChannelOK
  <1>14. EffectOK(s, Changed(s, d)) BY <1>1, <1>3, <1>13, ChangedOK
  <1>15. SJOIN(now, zero, d.mode, op, none, none) \in GoodMsg BY <1>4, <1>7, <1>12, SentSJOIN
  <1>16. EffectOK(s, Relay(Changed(s, d), SJOIN(now, zero, d.mode, op, none, none)))
    BY <1>14, <1>15, RelayOK
  <1> QED BY <1>1, <1>3, <1>6, <1>16, LocalOK

\* The other commands: PART, JOIN 0, MODE, KICK and QUIT.
LEMMA CommandOther ==
    ASSUME TablesOK, NEW u \in Users, m_part(u) \/ m_mode(u) \/ KickUser(u) \/ m_quit(u)
    PROVE  TablesOK' /\ Falls
  <1> DEFINE s == Home[u]
  <1>1. s \in Servers BY AtHome
  <1>2. UNCHANGED peers BY DEF m_part, m_mode, KickUser, m_quit
  <1>3. CASE m_part(u)
    <2>1. Local(s, part_one_client(s, u)) \/ Local(s, do_join_0(s, u)) BY <1>3 DEF m_part
    <2> HIDE DEF s
    <2> QED BY <1>1, <1>2, <2>1, PartOK, Join0OK, LocalOK
  <1>4. CASE m_mode(u)
    <2>1. PICK x \in Changes : Local(s, set_channel_mode(s, u, x)) BY <1>4 DEF m_mode
    <2>2. x \in Change BY ConstAssumption
    <2> HIDE DEF s
    <2> QED BY <1>1, <1>2, <2>1, <2>2, ModeOK, LocalOK
  <1>5. CASE KickUser(u)
    <2>1. PICK v \in Members(chan[s]) : Local(s, m_kick(s, u, v)) BY <1>5 DEF KickUser
    <2>2. v \in Users BY <1>1, Tables DEF ChannelOK
    <2> HIDE DEF s
    <2> QED BY <1>1, <1>2, <2>1, <2>2, KickOK, LocalOK
  <1>6. CASE m_quit(u)
    <2>1. Local(s, ms_quit(s, u)) BY <1>6 DEF m_quit
    <2> HIDE DEF s
    <2> QED BY <1>1, <1>2, <2>1, QuitOK, LocalOK
  <1> QED BY <1>3, <1>4, <1>5, <1>6

\* A grant is made under the TS of a live channel, or of a clock.
LEMMA CountersStep ==
    ASSUME IInv, Next
    PROVE  CountersOK'
  <1>1. /\ TablesOK /\ clock \in [Servers -> Stamps] /\ used \in [Kinds -> Nat]
        /\ grants \in SUBSET (({"o"} \cup BanLists) \X Users \X Stamps)
    BY DEF IInv, CountersOK
  <1>2. \A k \in Kinds : Use(k) => used' \in [Kinds -> Nat] BY <1>1 DEF Use
  <1>3. used' \in [Kinds -> Nat]
    BY <1>1, <1>2 DEF Next, m_join, m_join_new, m_part, m_mode, KickUser, m_quit, Connect,
                      RecvSERVER, Split, Receive, Kinds
  <1>4. CASE UNCHANGED <<clock, grants>> BY <1>1, <1>3, <1>4 DEF CountersOK
  <1>5. ASSUME NEW u \in Users, m_join_new(u) PROVE CountersOK'
    <2> DEFINE s == Home[u]
    <2>1. s \in Servers BY AtHome
    <2>2. PICK now \in clock[s]..MaxTS : /\ clock' = [clock EXCEPT ![s] = now]
                                         /\ grants' = grants \cup {<<"o", u, now>>}
      BY <1>5 DEF m_join_new
    <2>3. clock[s] \in 1..MaxTS BY <1>1, <2>1 DEF Stamps
    <2>4. now \in Stamps BY <2>3, ConstAssumption DEF Stamps
    <2> HIDE DEF s
    <2> QED BY <1>1, <1>3, <2>1, <2>2, <2>4 DEF CountersOK
  <1>6. ASSUME NEW u \in Users, m_mode(u) PROVE CountersOK'
    <2> DEFINE s == Home[u]
    <2>1. s \in Servers BY AtHome
    <2>2. PICK x \in Changes :
             grants' = IF x.dir = "+" /\ x.letter \in {"o"} \cup BanLists
                       THEN grants \cup {<<x.letter, x.arg, chan[s].ts>>} ELSE grants
      BY <1>6 DEF m_mode
    <2>3. u \in Members(chan[s]) /\ UNCHANGED clock BY <1>6 DEF m_mode, Members
    <2>4. chan[s].ts \in Stamps BY <1>1, <2>1, <2>3, Tables DEF ChannelOK
    <2>5. x.letter \in {"o"} \cup BanLists => x.arg \in Users BY ConstAssumption, ChangeParts
    <2> HIDE DEF s
    <2> QED BY <1>1, <1>3, <2>2, <2>3, <2>4, <2>5 DEF CountersOK
  <1>7. \/ UNCHANGED <<clock, grants>>
        \/ \E u \in Users : m_join_new(u) \/ m_mode(u)
    <2>1. ASSUME NEW u \in Users, m_join(u) \/ m_part(u) \/ KickUser(u) \/ m_quit(u)
          PROVE  UNCHANGED <<clock, grants>>
      BY <2>1 DEF m_join, m_part, KickUser, m_quit
    <2>2. ASSUME NEW s \in Servers, NEW t \in Servers,
                 Connect(s, t) \/ RecvSERVER(s, t) \/ Split(s, t) \/ Receive(s, t)
          PROVE  UNCHANGED <<clock, grants>>
      <3>1. CASE Connect(s, t) BY <3>1 DEF Connect
      <3>2. CASE RecvSERVER(s, t) BY <3>2 DEF RecvSERVER
      <3>3. CASE Split(s, t) BY <3>3 DEF Split
      <3>4. CASE Receive(s, t) BY <3>4 DEF Receive
      <3> QED BY <2>2, <3>1, <3>2, <3>3, <3>4
    <2> QED BY <2>1, <2>2 DEF Next
  <1> QED BY <1>4, <1>5, <1>6, <1>7

LEMMA InitOK == Init => IInv
  <1> SUFFICES ASSUME Init PROVE IInv OBVIOUS
  <1> USE DEF Init
  <1>1. <<>> \in Seq(GoodMsg) OBVIOUS
  <1>2. queue \in [Servers -> [Servers -> Seq(GoodMsg)]] BY <1>1
  <1>3. chan \in [Servers -> Channel] /\ \A s \in Servers : ChannelOK(chan[s], known[s])
    BY NoChannelParts DEF ChannelOK
  <1>4. 1 \in Stamps BY ConstAssumption DEF Stamps
  <1>5. CountersOK BY <1>4 DEF CountersOK
  <1>6. TablesOK BY <1>2, <1>3 DEF TablesOK
  <1> QED BY <1>5, <1>6 DEF IInv

LEMMA NextOK == IInv /\ [Next]_vars => IInv' /\ Falls
  <1> SUFFICES ASSUME IInv, [Next]_vars PROVE IInv' /\ Falls OBVIOUS
  <1>1. CASE Next
    <2>1. CountersOK' BY <1>1, CountersStep
    <2>2. TablesOK BY DEF IInv
    <2>3. ASSUME NEW u \in Users,
                 \/ m_join(u) \/ m_join_new(u) \/ m_part(u) \/ m_mode(u)
                 \/ KickUser(u) \/ m_quit(u)
          PROVE  TablesOK' /\ Falls
      BY <2>2, <2>3, CommandJoin, CommandJoinNew, CommandOther
    <2>4. ASSUME NEW s \in Servers, NEW t \in Servers,
                 Connect(s, t) \/ RecvSERVER(s, t) \/ Split(s, t) \/ Receive(s, t)
          PROVE  TablesOK' /\ Falls
      BY <2>2, <2>4, ConnectOK, SplitOK, ReceiveOK
    <2>5. TablesOK' /\ Falls BY <1>1, <2>3, <2>4 DEF Next
    <2> QED BY <2>1, <2>5 DEF IInv
  <1>2. CASE UNCHANGED vars
    <2>1. TablesOK' BY <1>2 DEF vars, IInv, TablesOK, ChannelOK, MembershipsOK
    <2>2. CountersOK' BY <1>2 DEF vars, IInv, CountersOK
    <2>3. Falls BY <1>2, Tables DEF vars, IInv, Falls
    <2> QED BY <2>1, <2>2, <2>3 DEF IInv
  <1> QED BY <1>1, <1>2

-----------------------------------------------------------------------------
(* Theorems.                                                                 *)

\* The invariant gives the types: a good message is a message.
LEMMA InvTypes == IInv => TypeOK
  <1> SUFFICES ASSUME IInv PROVE TypeOK OBVIOUS
  <1>1. ASSUME NEW q \in Seq(GoodMsg) PROVE q \in Seq(Msg)
    <2>1. GoodMsg \subseteq Msg BY DEF GoodMsg
    <2>2. Len(q) \in Nat /\ q \in [1..Len(q) -> GoodMsg] OBVIOUS
    <2>3. q \in [1..Len(q) -> Msg] BY <2>1, <2>2
    <2> QED BY <2>2, <2>3
  <1>2. queue \in [Servers -> [Servers -> Seq(Msg)]] BY <1>1 DEF IInv, TablesOK
  <1> QED BY <1>2 DEF IInv, TablesOK, CountersOK, TypeOK, Stamps

\* And the soundness of the member lists, whose lengths are counted.
LEMMA InvPopulated == IInv => ChannelPopulated
  <1> SUFFICES ASSUME IInv, NEW s \in Servers
               PROVE  LET c == chan[s] IN
                      /\ c.live <=> Members(c) # {}
                      /\ Members(c) \subseteq known[s]
                      /\ Len(c.op) = Cardinality(Ops(c)) /\ Ops(c) \cap c.noop = {}
                      /\ c.voice \cup c.deop \subseteq Members(c) /\ c.deop \cap Ops(c) = {}
    BY DEF ChannelPopulated
  <1> DEFINE c == chan[s]
  <1>1. ChannelOK(c, known[s]) /\ MembershipsOK(c) BY Tables DEF IInv
  <1>2. c.op \in Seq(Users) /\ Distinct(c.op) BY <1>1, ChannelParts DEF MembershipsOK
  <1> HIDE DEF c
  <1>3. Cardinality(Ops(c)) = Len(c.op) BY <1>2, DistinctLength, OpsAre
  <1>4. /\ c.live <=> Members(c) # {}
        /\ Members(c) \subseteq known[s]
        /\ Len(c.op) = Cardinality(Ops(c)) /\ Ops(c) \cap c.noop = {}
        /\ c.voice \cup c.deop \subseteq Members(c) /\ c.deop \cap Ops(c) = {}
    BY <1>1, <1>3 DEF ChannelOK, MembershipsOK
  <1> QED BY <1>4 DEF c

\* In every network every piece of state keeps its type: in particular a TS
\* that is granted or sent is one that some clock has shown.
THEOREM ChannelTypes == Spec => []TypeOK
  BY InitOK, NextOK, InvTypes, PTL DEF Spec

\* In every network, whatever crosses whatever, a server has the channel exactly
\* while it has members there, who are users it knows; nobody is on both member
\* lists or twice on one, and only members have status
\* (add_user_to_channel(), remove_user_from_channel(), remove_our_modes(),
\* ms_sjoin(), exit_client()).
THEOREM ChannelsPopulated == Spec => []ChannelPopulated
  BY InitOK, NextOK, InvPopulated, PTL DEF Spec

\* In every network no step raises the TS of a channel that a server has and
\* keeps: a younger description can never make itself the older one
\* (the TS rules of ms_join() and ms_sjoin()).
THEOREM ChannelTSFalls == Spec => TSNeverRises
  <1>1. IInv /\ [Next]_vars
          => [\A s \in Servers : chan[s].live /\ chan'[s].live => chan'[s].ts <= chan[s].ts]_vars
    BY NextOK DEF Falls
  <1> QED BY <1>1, InitOK, NextOK, PTL DEF Spec, TSNeverRises

=============================================================================
