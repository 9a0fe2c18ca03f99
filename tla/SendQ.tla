------------------------------- MODULE SendQ -------------------------------
(***************************************************************************)
(* Messages on their way to local connections (send.c, client.c,           *)
(* libratbox/src/linebuf.c): a message is written once into a line buffer, *)
(* which the send queues of all its receivers share by reference count.  A *)
(* queue is written as far as the socket takes it, which may end inside a  *)
(* line, and the rest when the socket is writable again.                   *)
(*                                                                         *)
(* The i-th line has Lengths[i] bytes; the bytes of a line are its number  *)
(* and their place in it.  A corked connection is not told apart from one  *)
(* whose socket takes nothing: a handler that corks uncorks and calls      *)
(* send_pop_queue() before it returns.                                     *)
(***************************************************************************)
EXTENDS Integers, Sequences, FiniteSets, SequencesExt

CONSTANTS
    Peers,      \* local connections
    Lengths,    \* the lengths of the lines that are sent, in order
    MaxSendq,   \* max_sendq of their classes
    Takes       \* numbers of bytes a socket may take at once

ASSUME SendAssumption ==
    /\ IsFiniteSet(Peers)
    /\ Lengths \in Seq(Nat \ {0}) /\ MaxSendq \in Nat
    /\ Takes \subseteq Nat

Lines == DOMAIN Lengths

VARIABLES
    made,       \* number of lines made so far
    refcount,   \* of each line; 0 is a free buffer
    conn,       \* per connection: its life, send queue, place in its first line,
                \* and whether a write event is awaited (FLAGS_FLUSH)
    attached,   \* history: lines queued to each connection
    wire        \* bytes its socket took

sendVars == <<made, refcount, conn, attached, wire>>

Connection == [life: {"open", "aborted", "dead"}, sendq: Seq(Lines), writeofs: Nat,
               flush: BOOLEAN]

LineBytes == [l \in Lines |-> [j \in 1..Lengths[l] |-> <<l, j>>]]
Bytes(lines) == LET b[i \in 0..Len(lines)] ==
                        IF i = 0 THEN <<>> ELSE b[i - 1] \o LineBytes[lines[i]]
                IN  b[Len(lines)]

\* rb_linebuf_len(): a line counts whole until all of it is written.
rb_linebuf_len(c) == Len(Bytes(c.sendq))

\* What a socket does: how many bytes it takes before it blocks, and whether
\* it fails then.
Socket == [takes: Takes, fails: BOOLEAN]
Broken == [takes |-> 0, fails |-> TRUE]

------------------------------------------------------------------------------
(* A step on one connection gives the connection after it, the lines whose  *)
(* reference it dropped, whether it took one on a new line, and what it     *)
(* wrote.                                                                   *)

Effect(c, done, got, out) == [c |-> c, done |-> done, got |-> got, out |-> out]
Nothing(c) == Effect(c, {}, FALSE, <<>>)

\* c with another life, queue and place in its first line, or write event.
Lives(c, life) == [c EXCEPT !.life = life]
WithQueue(c, lines, ofs) ==
    [life |-> c.life, sendq |-> lines, writeofs |-> ofs, flush |-> c.flush]
Awaits(c, flush) == [c EXCEPT !.flush = flush]

dead_link(c) == Lives(c, "aborted")

Flushed(c, out, k, ofs) ==
    Effect(WithQueue(c, SubSeq(c.sendq, k + 1, Len(c.sendq)), ofs),
           ToSet(SubSeq(c.sendq, 1, k)), FALSE, out)

\* The bytes of the first k lines of a queue.
Written(lines, k) == Len(Bytes(SubSeq(lines, 1, k)))

\* Where writing n bytes more ends, and how many lines it completes.
WriteEnd(c, n) == Min({c.writeofs + n, rb_linebuf_len(c)})
LinesDone(c, end) == Max({k \in 0..Len(c.sendq) : Written(c.sendq, k) <= end})

rb_linebuf_flush_NoReset(c, n) ==
    LET end == WriteEnd(c, n)
    IN  Flushed(c, SubSeq(Bytes(c.sendq), c.writeofs + 1, end), LinesDone(c, end), end)

\* rb_linebuf_flush() until it blocks after n bytes: lines written to their end
\* are done, and writeofs is the place in the next.
rb_linebuf_flush(c, n) ==
    LET end == WriteEnd(c, n)
        k   == LinesDone(c, end)
    IN  Flushed(c, SubSeq(Bytes(c.sendq), c.writeofs + 1, end), k, end - Written(c.sendq, k))

\* send_queued(): nothing while a write event is awaited.  A connection that is
\* being closed (closing) is not put on the abort list.
send_queued(c, socket, closing) ==
    LET f == rb_linebuf_flush(c, socket.takes)
        left == f.c.sendq # <<>>
        after == IF ~(socket.fails /\ left) THEN Awaits(f.c, left)
                 ELSE IF closing THEN f.c ELSE dead_link(f.c)
    IN  IF c.life # "open" \/ c.flush \/ c.sendq = <<>> THEN Nothing(c)
        ELSE Effect(after, f.done, FALSE, f.out)

\* send_linebuf(): the limit is checked before the line is attached.
send_linebuf(c, line, socket, closing) ==
    LET f == send_queued(WithQueue(c, Append(c.sendq, line), c.writeofs), socket, closing)
    IN  IF c.life # "open" THEN Nothing(c)
        ELSE IF rb_linebuf_len(c) > MaxSendq
        THEN Nothing(IF closing THEN c ELSE dead_link(c))
        ELSE Effect(f.c, f.done, TRUE, f.out)

\* close_connection(): one more attempt to write, then the queue is dropped.
close_sendq(c) ==
    LET f == send_queued(c, Broken, TRUE)
    IN  Effect(Awaits(Lives(WithQueue(f.c, <<>>, f.c.writeofs), "dead"), FALSE),
               f.done \cup ToSet(f.c.sendq), FALSE, f.out)

\* Takes on the effects step[p] of sending a line to the connections who.
Take(who, step, line) ==
    /\ conn' = [p \in Peers |-> IF p \in who THEN step[p].c ELSE conn[p]]
    /\ wire' = [p \in Peers |-> IF p \in who THEN wire[p] \o step[p].out ELSE wire[p]]
    /\ attached' = [p \in Peers |-> IF p \in who /\ step[p].got
                                    THEN Append(attached[p], line) ELSE attached[p]]
    /\ refcount' = [l \in Lines |->
                       refcount[l] + (IF l = line THEN Cardinality({p \in who : step[p].got}) ELSE 0)
                                   - Cardinality({p \in who : l \in step[p].done})]

NoLineSent == 0

------------------------------------------------------------------------------
(* Events *)

\* sendto_one(), sendto_server(), sendto_channel_*() and the others: a line for a
\* set of receivers.  The sender's own reference is gone when it returns.
sendto(who, socket) ==
    /\ made < Len(Lengths) /\ made' = made + 1
    /\ \E step \in {[p \in who |-> send_linebuf(conn[p], made', socket[p], FALSE)]} :
          Take(who, step, made')

\* The socket of p is writable: send_queued_write() forgets the write event first.
send_queued_write_KeepsFlush(p, socket) ==
    /\ conn[p].flush
    /\ \E f \in {send_queued(conn[p], socket, FALSE)} : Take({p}, [q \in {p} |-> f], NoLineSent)
    /\ UNCHANGED made

send_queued_write(p, socket) ==
    /\ conn[p].flush
    /\ \E f \in {send_queued(Awaits(conn[p], FALSE), socket, FALSE)} :
          Take({p}, [q \in {p} |-> f], NoLineSent)
    /\ UNCHANGED made

\* exit_client() of a connection: an ERROR line, then close_connection(), which
\* has something to write only when the first attempt has just failed.
exit_peer(p, socket) ==
    /\ conn[p].life = "open"
    /\ made < Len(Lengths) /\ made' = made + 1
    /\ \E e \in {send_linebuf(conn[p], made', socket, TRUE)} :
       \E f \in {close_sendq(e.c)} :
          Take({p}, [q \in {p} |-> Effect(f.c, e.done \cup f.done, e.got, e.out \o f.out)],
               made')

\* exit_aborted_clients(), for one of the abort list: nothing is written.
exit_aborted(p) ==
    /\ conn[p].life = "aborted"
    /\ \E f \in {close_sendq(conn[p])} :
          Take({p}, [q \in {p} |-> f], NoLineSent)
    /\ UNCHANGED made

SendInit ==
    /\ made = 0
    /\ refcount = [l \in Lines |-> 0]
    /\ conn = [p \in Peers |-> [life |-> "open", sendq |-> <<>>, writeofs |-> 0, flush |-> FALSE]]
    /\ attached = [p \in Peers |-> <<>>]
    /\ wire = [p \in Peers |-> <<>>]

SendNext ==
    \/ \E who \in SUBSET Peers \ {{}} : \E socket \in [who -> Socket] : sendto(who, socket)
    \/ \E p \in Peers, s \in Socket : send_queued_write(p, s)
    \/ \E p \in Peers, s \in Socket : exit_peer(p, s)
    \/ \E p \in Peers : exit_aborted(p)

\* A write event comes when the socket takes at least a byte, or fails: a peer
\* that never reads is closed by check_pings() at the latest.  Aborted
\* connections are closed every 5 seconds.
SendFairness ==
    \A p \in Peers :
        /\ WF_sendVars(\E s \in Socket : (s.takes > 0 \/ s.fails) /\ send_queued_write(p, s))
        /\ WF_sendVars(exit_aborted(p))

SendSpec == SendInit /\ [][SendNext]_sendVars /\ SendFairness

------------------------------------------------------------------------------
(* Properties *)

\* However its socket takes them, the bytes written to an open connection,
\* and then what is left in its queue from writeofs on, are the lines queued
\* to it, whole and in order; and every queued line is held by exactly as
\* many references as there are queues with it, so that no queue holds a
\* buffer that was freed and used again.
\* (rb_linebuf_attach(), rb_linebuf_flush(), rb_linebuf_done_line())
QueuesWhole ==
    /\ \A p \in Peers : conn[p].life = "open" =>
          wire[p] \o SubSeq(Bytes(conn[p].sendq), conn[p].writeofs + 1, rb_linebuf_len(conn[p]))
              = Bytes(attached[p])
    /\ \A l \in Lines : refcount[l] = Cardinality({p \in Peers : l \in ToSet(conn[p].sendq)})

\* What is queued to a connection is written, or the connection is closed: a
\* queue is never left without a write event.  (send_queued(), dead_link())
QueuesMove ==
    \A p \in Peers : conn[p].life # "dead" /\ conn[p].sendq # <<>>
                         ~> conn[p].life = "dead" \/ conn[p].sendq = <<>>

=============================================================================
