----------------------------- MODULE StompParser -----------------------------
(***************************************************************************)
(* The STOMP parser and serialiser (stomp_parser.py) under the byte stream *)
(* of a connection: the peer writes frames and heart-beats, the transport  *)
(* cuts the stream anywhere, and data_received (aio_protocols.py) feeds    *)
(* every chunk to the parser and handles the frames it completes.          *)
(*                                                                         *)
(* An octet is a token.  "A" is any capital, "x" an octet without a role,  *)
(* "FF" one that no UTF-8 text contains, and "CL" stands for the name      *)
(* content-length, whose value int() reads, with its sign, or cannot read. *)
(* The positions of the parser count octets from 0, as in the code; those  *)
(* of the match operators are indices of sequences.                        *)
(***************************************************************************)
EXTENDS Integers, SequencesExt

CONSTANTS
    COMMAND_MAX,          \* 50: octets of a command
    FIELD_MAX,            \* 500: octets of a header name or value
    LINES_MAX,            \* 50: header lines
    HEADER_MAX_LENGTH,    \* 4096
    BODY_MAX_LENGTH,      \* 8192
    Sendable,             \* the sequences of frames the peer may send
    Breaks,               \* the heart-beats it may write between two frames
    Noise,                \* the octets the peer may write instead of one octet
    Slips                 \* the octets it may write in excess at one place

VARIABLES
    sent,        \* the frames the peer sends
    stream,      \* the octets that arrive
    fed,         \* how many of them were handed to data_received
    parser,      \* self._parser
    handled,     \* the frames data_received took from the parser
    done         \* self._done, after a ProtocolError

vars == <<sent, stream, fed, parser, handled, done>>

CR == "CR"
LF == "LF"
NUL == "NUL"
BS == "\\"
Digits == {"0", "1", "2", "3", "4", "5", "6", "7", "8", "9"}
Digit == [d \in Digits |-> CHOOSE i \in 0 .. 9 : ToString(i) = d]

-----------------------------------------------------------------------------
(* StompFrame.__bytes__                                                    *)

Escape(s) ==
    LET table(t) == CASE t = CR  -> <<BS, "r">>
                      [] t = LF  -> <<BS, "n">>
                      [] t = ":" -> <<BS, "c">>
                      [] t = BS  -> <<BS, BS>>
                      [] OTHER   -> <<t>>
    IN FlattenSeq([i \in DOMAIN s |-> table(s[i])])

HeaderLine(h, eol) == Escape(h[1]) \o <<":">> \o Escape(h[2]) \o eol

\* The headers of a frame that is sent, a sequence of pairs, with the
\* content-length that __bytes__ adds.
WithLength(f) ==
    IF f.body # <<>> /\ \A i \in DOMAIN f.headers : f.headers[i][1] # <<"CL">>
    THEN Append(f.headers, <<<<"CL">>, <<ToString(Len(f.body))>>>>)
    ELSE f.headers

\* Mutant: no content-length is added.
ToBytesNoLength(f, eol) ==
    f.command \o eol
      \o FlattenSeq([i \in DOMAIN f.headers |-> HeaderLine(f.headers[i], eol)])
      \o eol \o f.body \o <<NUL>>

\* __bytes__ ends lines with LF; a peer may also use CR LF.
ToBytes(f, eol) ==
    f.command \o eol
      \o FlattenSeq([i \in DOMAIN WithLength(f) |-> HeaderLine(WithLength(f)[i], eol)])
      \o eol \o f.body \o <<NUL>>

-----------------------------------------------------------------------------
(* The regular expressions.  A match gives the index after it, Incomplete  *)
(* if the data may yet grow into a match, NoMatch if it cannot.            *)

Incomplete == 0
NoMatch == -1

\* The index after the longest run of octets of S that starts at i.
RunEnd(d, i, S) ==
    LET stop == SelectInSubSeq(d, i, Len(d), LAMBDA t : t \notin S)
    IN IF stop = 0 THEN Len(d) + 1 ELSE stop

Capitals == {"A"}
Plain == {"A", "r", "n", "c", "x", "-", "CL", "FF", BS, NUL} \cup Digits

MatchEol(d, i) ==
    CASE i > Len(d)                -> Incomplete
      [] d[i] = LF                 -> i + 1
      [] d[i] = CR /\ i = Len(d)   -> Incomplete
      [] d[i] = CR /\ d[i + 1] = LF -> i + 2
      [] OTHER                     -> NoMatch

MatchValue(d, colon, end) ==
    IF end - colon - 1 > FIELD_MAX THEN NoMatch ELSE MatchEol(d, end)

MatchField(d, i, colon) ==
    CASE colon - i \notin 1 .. FIELD_MAX -> NoMatch
      [] colon > Len(d)                  -> Incomplete
      [] d[colon] # ":"                  -> NoMatch
      [] OTHER -> MatchValue(d, colon, RunEnd(d, colon + 1, Plain))

MatchHeaderLine(d, i) == MatchField(d, i, RunEnd(d, i, Plain))

\* At most n header lines, and the closing line, after the line that ends at end.
RECURSIVE MatchLines(_, _, _)
MatchLines(d, end, n) ==
    CASE end <= 0                              -> end
      [] n < 0                                 -> NoMatch
      [] end > Len(d) \/ d[end] \in {CR, LF}   -> MatchEol(d, end)
      [] OTHER -> MatchLines(d, MatchHeaderLine(d, end), n - 1)

MatchCommand(d, i, end) ==
    IF end - i \notin 1 .. COMMAND_MAX THEN NoMatch
    ELSE MatchLines(d, MatchEol(d, end), LINES_MAX)

\* _HEAD_RE
MatchHead(d, i) == MatchCommand(d, i, RunEnd(d, i, Capitals))

\* _HEARTBEAT_RE
RECURSIVE MatchHeartbeats(_, _)
MatchHeartbeats(d, i) ==
    LET end == MatchEol(d, i)
    IN IF end > 0 THEN MatchHeartbeats(d, end) ELSE i

-----------------------------------------------------------------------------
(* _parse_headers                                                          *)

Bad == "bad"   \* what an escape that does not exist becomes
UnescapeChar(t) == CASE t = "r" -> CR [] t = "n" -> LF [] t = "c" -> ":"
                     [] t = BS -> BS [] OTHER -> Bad

\* _substitute_header_escape_chars; a backslash at the end stays.
RECURSIVE Unescape(_)
Unescape(s) ==
    CASE s = <<>>                      -> <<>>
      [] s # <<>> /\ (s[1] # BS \/ Len(s) = 1) -> <<s[1]>> \o Unescape(Tail(s))
      [] OTHER -> <<UnescapeChar(s[2])>> \o Unescape(SubSeq(s, 3, Len(s)))

\* The header lines s as pairs of a name and a value.
RECURSIVE HeaderPairs(_)
HeaderPairs(s) ==
    LET colon == SelectInSeq(s, LAMBDA t : t = ":")
        end   == SelectInSeq(s, LAMBDA t : t \in {CR, LF})
    IN IF s = <<>> THEN <<>>
       ELSE <<<<Unescape(SubSeq(s, 1, colon - 1)), Unescape(SubSeq(s, colon + 1, end - 1))>>>>
              \o HeaderPairs(SubSeq(s, MatchEol(s, end), Len(s)))

\* The first header of a name counts.
Dict(pairs) ==
    [k \in {pairs[i][1] : i \in DOMAIN pairs} |->
        pairs[SelectInSeq(pairs, LAMBDA p : p[1] = k)][2]]

BadHeaders(s, pairs) ==
    \/ Len(s) > HEADER_MAX_LENGTH
    \/ \E i \in DOMAIN pairs :
          (ToSet(pairs[i][1]) \cup ToSet(pairs[i][2])) \cap {Bad, "FF"} # {}

\* int() overlooks white space at both ends.
Stripped(s) ==
    LET black == {i \in DOMAIN s : s[i] \notin {CR, LF}}
    IN IF black = {} THEN <<>> ELSE SubSeq(s, Min(black), Max(black))

Unsigned(s) ==
    IF ToSet(s) \subseteq Digits
    THEN FoldLeft(LAMBDA n, d : 10 * n + Digit[d], 0, s)
    ELSE 0

\* int(headers['content-length']), or 0
ContentLength(headers) ==
    LET s == IF <<"CL">> \in DOMAIN headers THEN Stripped(headers[<<"CL">>]) ELSE <<>>
    IN IF s # <<>> /\ s[1] = "-" THEN -Unsigned(Tail(s)) ELSE Unsigned(s)

-----------------------------------------------------------------------------
(* StompParser.  `more` is what _parse_block returned: without an error,   *)
(* it is FALSE whenever add_bytes has returned.                            *)

NewParser == [data |-> <<>>, pos |-> 0, command |-> <<>>, headers |-> <<>>,
              body_end |-> 0, frames |-> <<>>, more |-> FALSE, error |-> FALSE]

ParseHeartbeats(p) == [p EXCEPT !.pos = MatchHeartbeats(p.data, p.pos + 1) - 1]

\* The header lines of the head that starts at i and ends before end.
HeaderLines(d, i, end) ==
    SubSeq(d, MatchEol(d, RunEnd(d, i, Capitals)), end - IF d[end - 2] = CR THEN 3 ELSE 2)

LoadHead(p, end, lines, pairs) ==
    IF BadHeaders(lines, pairs) \/ ContentLength(Dict(pairs)) > BODY_MAX_LENGTH
    THEN [p EXCEPT !.pos = end - 1, !.error = TRUE]
    ELSE [p EXCEPT !.pos = end - 1, !.headers = Dict(pairs),
                   !.command = SubSeq(p.data, p.pos + 1, RunEnd(p.data, p.pos + 1, Capitals) - 1),
                   !.body_end = end - 1 + ContentLength(Dict(pairs))]

\* What _parse_command does with the match that ends before end.
ParseHead(p, end) ==
    CASE end = Incomplete -> [p EXCEPT !.more = FALSE]
      [] end = NoMatch    -> [p EXCEPT !.error = TRUE]
      [] OTHER -> LET lines == HeaderLines(p.data, p.pos + 1, end)
                  IN LoadHead(p, end, lines, HeaderPairs(lines))

ParseCommand(p) ==
    IF p.pos = Len(p.data) THEN [p EXCEPT !.more = FALSE]
    ELSE ParseHead(p, MatchHead(p.data, p.pos + 1))

\* The frame whose NUL is at stop, which is not before pos unless the
\* content-length is negative: then the body is empty and pos moves back.
EndFrame(p, stop) ==
    [p EXCEPT !.frames = Append(@, [command |-> p.command, headers |-> p.headers,
                                    body |-> SubSeq(p.data, p.pos + 1, stop)]),
              !.pos = stop + 1, !.command = <<>>]

\* data.find(0, start, end): a negative start counts from the end of the data.
Find(d, start, end) ==
    LET from == IF start < 0 THEN Max({start + Len(d), 0}) ELSE start
    IN SelectInSubSeq(d, from + 1, Min({end, Len(d)}), LAMBDA t : t = NUL) - 1

\* Mutant: the search for the terminator has no limit.
ParseBodyUnlimited(p) ==
    LET n    == Len(p.data)
        stop == Find(p.data, p.body_end, n)
    IN IF stop = -1 THEN [p EXCEPT !.body_end = IF n > @ THEN n ELSE @, !.more = FALSE]
       ELSE EndFrame(p, stop)

ParseBody(p) ==
    LET n       == Len(p.data)
        illegal == p.pos + BODY_MAX_LENGTH + 1
        stop    == Find(p.data, p.body_end, illegal)
    IN CASE n <= p.body_end -> [p EXCEPT !.more = FALSE]
         [] n > p.body_end /\ stop # -1 -> EndFrame(p, stop)
         [] OTHER -> IF n >= illegal THEN [p EXCEPT !.error = TRUE]
                     ELSE [p EXCEPT !.body_end = n, !.more = FALSE]

ParseBlock(p) ==
    IF p.command # <<>> THEN ParseBody(p) ELSE ParseCommand(ParseHeartbeats(p))

\* The while loop, for at most n blocks.
RECURSIVE ParseBlocks(_, _)
ParseBlocks(p, n) ==
    IF n > 0 /\ p.more /\ ~p.error THEN ParseBlocks(ParseBlock(p), n - 1) ELSE p

\* Behind a frame only pos decides how the loop goes on, so one that has met
\* more frames than there are positions meets them again and again: it is
\* cut off there and leaves `more` TRUE.
LoopBound(d) == 2 * Len(d) + 4

\* Mutant: _body_end is not moved with the data.
DropReadBodyEndStays(q) ==
    IF q.error \/ q.more THEN q
    ELSE [q EXCEPT !.data = SubSeq(@, q.pos + 1, Len(@)), !.pos = 0]

\* What has been read is deleted, once the loop has ended.
DropRead(q) ==
    IF q.error \/ q.more THEN q
    ELSE [q EXCEPT !.data = SubSeq(@, q.pos + 1, Len(@)),
                   !.body_end = @ - q.pos, !.pos = 0]

AddBytes(p, chunk) ==
    LET q == [p EXCEPT !.data = @ \o chunk, !.more = TRUE]
    IN DropRead(ParseBlocks(q, LoopBound(q.data)))

-----------------------------------------------------------------------------

\* The stream of a peer that sends the frames fs with heart-beats in between.
Written(fs, eol, break) ==
    FlattenSeq([i \in DOMAIN fs |-> ToBytes(fs[i], eol) \o break])

Damaged(s) ==
    {s} \cup {ReplaceAt(s, i, t) : i \in DOMAIN s, t \in Noise}
        \cup {SubSeq(s, 1, i) \o x \o SubSeq(s, i + 1, Len(s)) : i \in 0 .. Len(s), x \in Slips}

Init ==
    /\ sent \in Sendable
    /\ \E eol \in {<<LF>>, <<CR, LF>>}, break \in Breaks :
          stream \in Damaged(Written(sent, eol, break))
    /\ fed = 0 /\ parser = NewParser
    /\ handled = <<>> /\ done = FALSE

\* Frames completed by the chunk that also brings the error are left in the
\* parser, and so are those of an add_bytes that does not return.
HandleFrames(p) ==
    IF p.error \/ p.more
    THEN done' = p.error /\ parser' = p /\ UNCHANGED handled
    ELSE /\ parser' = [p EXCEPT !.frames = <<>>]
         /\ handled' = handled \o p.frames
         /\ UNCHANGED done

\* data_received
DataReceived(n) ==
    /\ ~done /\ ~parser.more /\ fed + n <= Len(stream)
    /\ HandleFrames(AddBytes(parser, SubSeq(stream, fed + 1, fed + n)))
    /\ fed' = fed + n
    /\ UNCHANGED <<sent, stream>>

Next == \E n \in 1 .. Len(stream) : DataReceived(n)

Spec == Init /\ [][Next]_vars

-----------------------------------------------------------------------------
(* Properties                                                              *)

\* All that is left unread is the CR of an empty line whose LF has not come.
HalfEmptyLine(p) == SubSeq(p.data, p.pos + 1, Len(p.data)) = <<CR>>

\* The parser, and the frames it holds, have seen no negative content-length.
LengthsNatural(p) ==
    /\ ContentLength(p.headers) >= 0
    /\ \A i \in DOMAIN p.frames : ContentLength(p.frames[i].headers) >= 0

\* How the transport cuts the stream does not matter to what is handled: the
\* frames handled so far are those that a single call of add_bytes finds in
\* the octets so far, and an error is one that the whole stream also gives,
\* except at an empty line cut between its CR and its LF.  This holds, and
\* the loop of add_bytes ends, as long as no content-length was negative.
ChunkingInvisible ==
    LET soFar == AddBytes(NewParser, SubSeq(stream, 1, fed))
    IN LengthsNatural(soFar) =>
          IF done
          THEN \/ HalfEmptyLine(parser)
               \/ AddBytes(NewParser, stream).error /\ IsPrefix(handled, soFar.frames)
          ELSE ~soFar.error /\ ~parser.more /\ handled = soFar.frames

\* What the serialiser writes, the parser at the other end reads: whatever
\* delimiters, escapes and NUL octets the headers and the body contain, the
\* frames of an undamaged stream are handled in order, whole, and all of them.
FramesArrive ==
    LET asSent == [i \in DOMAIN sent |-> [command |-> sent[i].command,
                                          headers |-> Dict(WithLength(sent[i])),
                                          body |-> sent[i].body]]
        undamaged == \E eol \in {<<LF>>, <<CR, LF>>}, break \in Breaks :
                        stream = Written(sent, eol, break)
    IN undamaged =>
          /\ IsPrefix(handled, asSent)
          /\ done => HalfEmptyLine(parser)
          /\ fed = Len(stream) /\ ~done => handled = asSent

\* Between two calls the parser holds no more than an unfinished head or body
\* of legal size, however long the peer goes on without ending either and
\* whatever content-length it gives.
BufferBounded ==
    ~done /\ ~parser.more => Len(parser.data) <=
        IF parser.command # <<>> THEN BODY_MAX_LENGTH
        ELSE COMMAND_MAX + 2 + (LINES_MAX + 1) * (2 * FIELD_MAX + 3)

\* add_bytes: "This method will raise a `ProtocolError` exception, if the
\* incoming byte-stream does not obey the STOMP 1.2 protocol specification".
\* A stream of serialised frames and empty lines, each ended by LF or CR LF,
\* obeys it, and no cut makes the parser raise.
RaisesOnlyOnViolation ==
    done => AddBytes(NewParser, stream).error

=============================================================================
