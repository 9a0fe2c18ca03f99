------------------------------- MODULE RecvQ -------------------------------
(***************************************************************************)
(* What a local connection sends, on its way to parse(): read_packet() of  *)
(* packet.c reads it in pieces of any size, rb_linebuf_parse() of          *)
(* libratbox/src/linebuf.c cuts the pieces into lines, and                 *)
(* parse_client_queued() takes as many lines as flood control allows.      *)
(*                                                                         *)
(* The stream of bytes is fixed in the initial state; only the end of line *)
(* and the first byte of a line, which stands for the command, are told    *)
(* apart.  CR and LF are the same to the code, so both are EOL.  The loops *)
(* of the code are steps, and while one runs (phase) nothing else does.    *)
(***************************************************************************)
EXTENDS Integers, Sequences, FiniteSets, SequencesExt

CONSTANTS
    Streams,         \* sequences of bytes that a connection may send
    BUF_DATA_SIZE,   \* room in a line buffer, with its terminating 0
    READBUF_SIZE,    \* the most one read() returns
    MAX_FLOOD,       \* lines allowed before registration and after the grace
    MAX_FLOOD_BURST, \* lines allowed during the grace
    client_flood,    \* general::client_flood
    PostDelay        \* is general::post_registration_delay set?

ASSUME SizesPositive ==
    /\ \A s \in Streams : s \in Seq(ToSet(s))
    /\ {BUF_DATA_SIZE, READBUF_SIZE} \subseteq Nat \ {0, 1}
    /\ {MAX_FLOOD, MAX_FLOOD_BURST} \subseteq Nat \ {0}
    /\ client_flood \in Nat

EOL == "n"
\* Commands: the ones that register a client, a client exempt from flood
\* control or a server, OPER, and the ones that end the grace period.
Registers == [R |-> "client", X |-> "exempt", S |-> "server"]

VARIABLES
    stream,       \* what the connection sends
    pos,          \* how much of it was read
    kind,         \* status of the connection, with the flags told apart here
    recvq,        \* the line buffers of localClient->buf_recvq
    flood,        \* sent_parsed, allow_read, IsFloodDone(), and whether the
                  \* delay after the registration is still on
    phase,        \* where the code is
    caller,       \* what called parse_client_queued()
    binary, checkflood,  \* locals of read_packet() and parse_client_queued()
    parsed        \* history: the lines that parse() was given

recvVars == <<stream, pos, kind, recvq, flood, phase, caller, binary, checkflood,
              parsed>>

Servers == {"server", "handshake"}
Registered == {"client", "exempt", "oper"}

------------------------------------------------------------------------------
(* Line buffers *)

IsEOL(c) == c = EOL

\* Number of bytes up to the end of the first line, its EOLs included.
rb_linebuf_skip_crlf(data) ==
    LET eol == SelectInSeq(data, IsEOL)
        after == {i \in eol..Len(data) : data[i] # EOL}
    IN  IF eol = 0 \/ after = {} THEN Len(data) ELSE Min(after) - 1

\* buf without EOLs at its end, and without any at either end.
ChopEnd(buf) == SubSeq(buf, 1, Max({0} \cup {i \in DOMAIN buf : buf[i] # EOL}))
Chop(buf) == LET b == ChopEnd(buf) IN
             SubSeq(b, Min({Len(b) + 1} \cup {i \in DOMAIN b : b[i] # EOL}), Len(b))

rb_linebuf_copy_Terminated(line, data, raw) ==
    LET clen == rb_linebuf_skip_crlf(data)
        room == BUF_DATA_SIZE - Len(line.buf) - 1
        text == line.buf \o SubSeq(data, 1, IF clen > room THEN room ELSE clen)
    IN  [line |-> [buf |-> IF raw THEN text ELSE ChopEnd(text),
                   terminated |-> clen > room \/ Last(text) = EOL, raw |-> raw],
         clen |-> IF raw /\ clen > room THEN room ELSE clen]

\* rb_linebuf_copy_line(), rb_linebuf_copy_raw(): what becomes of a line and how
\* many bytes of data are consumed.  A full line is terminated; the rest of
\* what arrived of it is dropped, or left for the next line if raw.  The
\* raw flag is set before the line is found to be terminated.
rb_linebuf_copy(line, data, raw) ==
    LET clen == rb_linebuf_skip_crlf(data)
        room == BUF_DATA_SIZE - Len(line.buf) - 1
        text == line.buf \o SubSeq(data, 1, IF clen > room THEN room ELSE clen)
    IN  IF line.terminated THEN [line |-> [line EXCEPT !.raw = raw], clen |-> 0]
        ELSE [line |-> [buf |-> IF raw THEN text ELSE ChopEnd(text),
                        terminated |-> clen > room \/ Last(text) = EOL, raw |-> raw],
              clen |-> IF raw /\ clen > room THEN room ELSE clen]

rb_linebuf_new_line == [buf |-> <<>>, terminated |-> FALSE, raw |-> FALSE]

\* The buffers after data: what fits goes into the last one, the rest into new ones.
rb_linebuf_parse(q, data, raw) ==
    LET first == IF q = <<>> THEN [line |-> rb_linebuf_new_line, clen |-> 0]
                 ELSE rb_linebuf_copy(Last(q), data, raw)
        start == [q |-> IF q = <<>> THEN q ELSE Append(Front(q), first.line),
                  n |-> first.clen]
        \* At most one new line per byte.
        cut[i \in 0..Len(data)] ==
            IF i = 0 THEN start
            ELSE LET s == cut[i - 1]
                     c == rb_linebuf_copy(rb_linebuf_new_line,
                                          SubSeq(data, s.n + 1, Len(data)), raw)
                 IN  IF s.n = Len(data) THEN s
                     ELSE [q |-> Append(s.q, c.line), n |-> s.n + c.clen]
    IN  cut[Len(data)].q

\* rb_linebuf_get(..., LINEBUF_COMPLETE, LINEBUF_PARSED)
Complete == recvq # <<>> /\ recvq[1].terminated
Text == IF recvq[1].raw THEN Chop(recvq[1].buf) ELSE recvq[1].buf

------------------------------------------------------------------------------
(* parse_client_queued() *)

flood_endgrace(f) == [f EXCEPT !.done = TRUE, !.allow_read = MAX_FLOOD, !.sent_parsed = 0]

\* What the command c does to the status and to flood control.
Becomes(c) ==
    IF (kind = "unknown" /\ c \in DOMAIN Registers) \/ (kind = "handshake" /\ c = "S")
    THEN Registers[c]
    ELSE IF kind = "client" /\ c = "O" THEN "oper" ELSE kind

Flooded(c) ==
    IF kind = "unknown" /\ Becomes(c) \in {"client", "exempt"}
    THEN [flood EXCEPT !.allow_read = MAX_FLOOD_BURST, !.delayed = PostDelay]
    ELSE IF kind \in Registered /\ c \in {"E", "O"} /\ ~flood.done THEN flood_endgrace(flood)
    ELSE flood

client_dopacket ==
    /\ Complete /\ Text # <<>>
    /\ recvq' = Tail(recvq)
    /\ parsed' = Append(parsed, Text)
    /\ kind' = Becomes(Text[1])

\* rb_linebuf_get() returns 0: no complete line, or an empty one, which is taken.
NoLine ==
    /\ Complete => Text = <<>>
    /\ recvq' = IF Complete THEN Tail(recvq) ELSE recvq
    /\ UNCHANGED <<kind, flood, parsed>>

Stop == UNCHANGED <<recvq, kind, flood, parsed>>

\* checkflood is fixed when the loop of the clients is entered.
EnterLines(k) == phase' = "lines" /\ checkflood' = (k # "oper")

\* One round of the loop of unknown connections.
parse_unknown ==
    /\ phase = "registering"
    /\ \/ flood.sent_parsed >= flood.allow_read /\ Stop /\ EnterLines(kind)
       \/ flood.sent_parsed < flood.allow_read /\ NoLine /\ EnterLines(kind)
       \/ /\ flood.sent_parsed < flood.allow_read
          /\ client_dopacket
          /\ LET f == Flooded(Text[1]) IN
             IF kind' = "unknown"
             THEN /\ flood' = [f EXCEPT !.sent_parsed = @ + 1]
                  /\ UNCHANGED <<phase, checkflood>>
             ELSE flood' = [f EXCEPT !.sent_parsed = 0] /\ EnterLines(kind')
    /\ UNCHANGED <<stream, pos, caller, binary>>

\* One round of the loop of servers and of clients exempt from flood control.
parse_server ==
    /\ phase = "lines" /\ kind \in Servers \cup {"exempt"}
    /\ \/ NoLine /\ phase' = "parsed"
       \/ client_dopacket /\ flood' = Flooded(Text[1]) /\ UNCHANGED phase
    /\ UNCHANGED <<stream, pos, caller, binary, checkflood>>

OverLimit == flood.sent_parsed >= (IF checkflood THEN 1 ELSE 4) * flood.allow_read

\* One round of the loop of clients.
parse_client ==
    /\ phase = "lines" /\ kind \in {"client", "oper"}
    /\ \/ (flood.delayed \/ OverLimit) /\ Stop /\ phase' = "parsed"
       \/ ~flood.delayed /\ ~OverLimit /\ NoLine /\ phase' = "parsed"
       \/ /\ ~flood.delayed /\ ~OverLimit /\ client_dopacket
          /\ flood' = [Flooded(Text[1]) EXCEPT !.sent_parsed = @ + 1]
          /\ UNCHANGED phase
    /\ UNCHANGED <<stream, pos, caller, binary, checkflood>>

parse_nothing ==
    /\ phase = "lines" /\ kind = "unknown"
    /\ Stop /\ phase' = "parsed"
    /\ UNCHANGED <<stream, pos, caller, binary, checkflood>>

Enter == IF kind = "unknown" THEN phase' = "registering" /\ UNCHANGED checkflood
         ELSE EnterLines(kind)

------------------------------------------------------------------------------
(* read_packet() and flood_recalc() *)

\* A read of n bytes.  binary stays set while the function loops on full reads.
read_packet(n) ==
    /\ phase \in {"idle", "reading"} /\ kind # "dead"
    /\ pos + n <= Len(stream)
    /\ pos' = pos + n
    /\ binary' = ((phase = "reading" /\ binary) \/ kind \in {"unknown", "handshake"})
    /\ recvq' = rb_linebuf_parse(recvq, SubSeq(stream, pos + 1, pos + n), binary')
    /\ caller' = IF n = READBUF_SIZE THEN "full read" ELSE "read"
    /\ Enter
    /\ UNCHANGED <<stream, kind, flood, parsed>>

\* The end of the stream, or EAGAIN after a full read.
read_error ==
    /\ \/ phase = "reading" /\ phase' = "idle" /\ UNCHANGED <<kind, recvq>>
       \/ /\ phase \in {"idle", "reading"} /\ pos = Len(stream) /\ kind # "dead"
          /\ phase' = "idle" /\ kind' = "dead" /\ recvq' = <<>>
    /\ UNCHANGED <<stream, pos, flood, caller, binary, checkflood, parsed>>

\* After the parsing read_packet() looks at the length of the queue, and
\* reads on after a full read.
read_parsed ==
    /\ phase = "parsed" /\ caller \in {"read", "full read"}
    /\ IF kind \notin Servers \cup {"oper"} /\ Len(recvq) > client_flood
       THEN kind' = "dead" /\ recvq' = <<>> /\ phase' = "idle"
       ELSE /\ phase' = IF caller = "read" THEN "idle" ELSE "reading"
            /\ UNCHANGED <<kind, recvq>>
    /\ UNCHANGED <<stream, pos, flood, caller, binary, checkflood, parsed>>

flood_recalc_Frozen ==
    /\ phase = "idle" /\ kind \notin {"server", "dead"}
    /\ flood' = [flood EXCEPT !.delayed = FALSE]
    /\ caller' = IF kind \in Registered THEN "recalc" ELSE "recalc unknown"
    /\ Enter
    /\ UNCHANGED <<stream, pos, kind, recvq, binary, parsed>>

\* Once a second: registered clients are on one list, connections that are
\* not on another, and servers on neither.  A second ends the delay.
flood_recalc ==
    /\ phase = "idle" /\ kind \notin {"server", "dead"}
    /\ LET less == IF kind \in {"unknown", "handshake"} THEN 1
                   ELSE IF flood.done THEN 2 ELSE flood.sent_parsed
           left == flood.sent_parsed - less
       IN  flood' = [flood EXCEPT !.sent_parsed = IF left < 0 THEN 0 ELSE left,
                                  !.delayed = FALSE]
    /\ caller' = IF kind \in Registered THEN "recalc" ELSE "recalc unknown"
    /\ Enter
    /\ UNCHANGED <<stream, pos, kind, recvq, binary, parsed>>

\* The grace period is over 30 seconds after the registration.
recalc_parsed ==
    /\ phase = "parsed" /\ caller \in {"recalc", "recalc unknown"}
    /\ phase' = "idle"
    /\ flood' \in {flood} \cup IF caller = "recalc" /\ ~flood.done
                               THEN {flood_endgrace(flood)} ELSE {}
    /\ UNCHANGED <<stream, pos, kind, recvq, caller, binary, checkflood, parsed>>

------------------------------------------------------------------------------
RecvInit ==
    /\ stream \in Streams
    /\ pos = 0
    /\ kind \in {"unknown", "handshake"}
    /\ recvq = <<>>
    /\ flood = [sent_parsed |-> 0, allow_read |-> MAX_FLOOD, done |-> FALSE, delayed |-> FALSE]
    /\ phase = "idle" /\ caller = "read"
    /\ binary = FALSE /\ checkflood = TRUE
    /\ parsed = <<>>

\* The steps of a function that is running.
RecvStep == parse_unknown \/ parse_server \/ parse_client \/ parse_nothing
            \/ read_parsed \/ recalc_parsed

RecvNext == \/ RecvStep
            \/ \E n \in 1..READBUF_SIZE : read_packet(n)
            \/ read_error \/ flood_recalc

\* The event loop runs what it started, and calls flood_recalc() every second.
RecvFairness ==
    /\ WF_recvVars(RecvStep)
    /\ WF_recvVars(phase = "reading" /\ read_error)
    /\ WF_recvVars(flood_recalc)

RecvSpec == RecvInit /\ [][RecvNext]_recvVars /\ RecvFairness

------------------------------------------------------------------------------
(* Properties *)

\* One byte more: the end of a line closes it, unless it is empty.
Scanned(s, c) ==
    IF c # EOL THEN [lines |-> s.lines, line |-> Append(s.line, c)]
    ELSE IF s.line = <<>> THEN s
    ELSE [lines |-> Append(s.lines, s.line), line |-> <<>>]

Scan(s, bytes) ==
    LET scan[i \in 0..Len(bytes)] == IF i = 0 THEN s ELSE Scanned(scan[i - 1], bytes[i])
    IN  scan[Len(bytes)]

\* The lines of a stream, empty ones left out.
LinesOf(bytes) == Scan([lines |-> <<>>, line |-> <<>>], Append(bytes, EOL)).lines

\* What is in the buffers, as the connection sent it, and what parse() was given.
Piece(line) == line.buf \o IF line.terminated THEN <<EOL>> ELSE <<>>
Queued == FlattenSeq([i \in DOMAIN recvq |-> Piece(recvq[i])])
Given == FlattenSeq([i \in DOMAIN parsed |-> Append(parsed[i], EOL)])

\* No text follows an end of line.
OneLine(text) == \A i, j \in DOMAIN text : i < j /\ text[i] = EOL => text[j] = EOL

\* However reads cut the stream, and whichever of the two ways of copying was
\* in force when each piece came, the lines given to parse() and then the ones
\* still to come are the lines that were sent: none is lost, doubled, split or
\* joined with another, the longest that fit included.
\* (rb_linebuf_parse(), rb_linebuf_get(), read_packet())
LinesWhole ==
    kind # "dead" =>
        /\ \A i \in DOMAIN parsed : OneLine(parsed[i])
        /\ LinesOf(Given \o (Queued \o SubSeq(stream, pos + 1, Len(stream)))) = LinesOf(stream)

\* Every line of every stream fits in a line buffer.
LinesFit ==
    \A s \in Streams : \A i \in DOMAIN s :
        i + BUF_DATA_SIZE - 1 <= Len(s) => \E j \in i..(i + BUF_DATA_SIZE - 1) : s[j] = EOL

\* A complete line of a connection that is not a server's is parsed in the end,
\* or the connection exits, also when it sends nothing more.
\* (parse_client_queued(), flood_recalc())
LinesParsed ==
    kind \notin {"server", "dead"} /\ Complete ~> kind \in {"server", "dead"} \/ ~Complete

=============================================================================
