-------------------------------- MODULE Codec --------------------------------
(***************************************************************************)
(* The wire protocol (im-protocol): varints, the checksum, frames, the     *)
(* payloads of the commands, and the incremental decoder fed with whatever *)
(* pieces TCP delivers.                                                    *)
(*                                                                         *)
(* Widths are scaled down and keep their shape: a byte has GroupBits data  *)
(* bits and the continuation bit (7 + 1 in the code), a number ValueBits   *)
(* bits (64), which is no multiple of GroupBits, and the checksum CrcBits  *)
(* bits (32), two bytes here, in the reflected form with polynomial Poly.  *)
(***************************************************************************)
EXTENDS Naturals, Sequences, SequencesExt

CONSTANTS GroupBits, ValueBits, CrcBits, Poly,
          MAX_FRAME_LEN,   \* limit of a payload
          Messages,        \* messages the sender frames, see Outgoing
          Damage,          \* bit patterns that may hit one payload byte on the way
          MaxRead          \* bound: bytes in one read

Group == 2 ^ GroupBits
Byte == 0..(2 * Group - 1)
MAX_VARINT_LEN == (ValueBits + GroupBits - 1) \div GroupBits

\* Exclusive or of bytes, and of the two bytes of a checksum.
BitAt(n, i) == (n \div 2 ^ i) % 2
ByteXor == [a, b \in Byte |->
    FoldLeft(LAMBDA s, i : s + 2 ^ (i - 1) * ((BitAt(a, i - 1) + BitAt(b, i - 1)) % 2), 0,
             [i \in 1..(GroupBits + 1) |-> i])]
High(n) == n \div (2 * Group)
Low(n) == n % (2 * Group)
Xor(a, b) == 2 * Group * ByteXor[High(a), High(b)] + ByteXor[Low(a), Low(b)]

-----------------------------------------------------------------------------
RECURSIVE encode_u64(_)
encode_u64(value) ==
    IF value < Group THEN <<value>>
    ELSE <<(value % Group) + Group>> \o encode_u64(value \div Group)

\* VarIntDecoder: value, shift and count in one record.
NoVarint == [value |-> 0, shift |-> 0, count |-> 0, end |-> "no"]

\* A group is shifted into a number of ValueBits bits: what does not fit is lost.
push(dec, byte) ==
    LET count == dec.count + 1
        value == (dec.value + (byte % Group) * 2 ^ dec.shift) % 2 ^ ValueBits
    IN CASE count > MAX_VARINT_LEN -> [dec EXCEPT !.count = count, !.end = "error"]
         [] count <= MAX_VARINT_LEN /\ byte < Group ->
               [dec EXCEPT !.count = count, !.value = value, !.end = "value"]
         [] OTHER -> [dec EXCEPT !.count = count, !.value = value,
                                 !.shift = dec.shift + GroupBits]

-----------------------------------------------------------------------------
\* One round of the division, the table entry of a byte, and the checksum.
Divided(c) == IF c % 2 = 1 THEN Xor(Poly, c \div 2) ELSE c \div 2
TABLE == [i \in Byte |-> FoldLeft(LAMBDA c, k : Divided(c), i, [k \in 1..(GroupBits + 1) |-> k])]
CrcStart == 2 ^ CrcBits - 1
CrcUpdate(state, byte) ==
    Xor(High(state), TABLE[ByteXor[Low(state), byte]])
CrcFinish(state) == Xor(state, CrcStart)
checksum(bytes) == CrcFinish(FoldLeft(CrcUpdate, CrcStart, bytes))

-----------------------------------------------------------------------------
Magic == <<2 * Group - 1, Group>>
Version == 1
CRC_LEN == 2
CmdByte == [Handshake |-> 1, HandshakeAck |-> 2, Ping |-> 3, Pong |-> 4,
            Msg |-> 5, MsgAck |-> 6, SyncReq |-> 7, SyncResp |-> 8]
CmdOf(byte) == {c \in DOMAIN CmdByte : CmdByte[c] = byte}

Frame(cmd, seq, ack, payload) == [cmd |-> cmd, seq |-> seq, ack |-> ack, payload |-> payload]

CrcBytes(c) == <<High(c), Low(c)>>

\* Frame::encode_into: header, three varints, payload, checksum high byte first.
encode(f) ==
    LET body == Magic \o <<Version, CmdByte[f.cmd], 0>> \o encode_u64(f.seq)
                \o encode_u64(f.ack) \o encode_u64(Len(f.payload)) \o f.payload
    IN body \o CrcBytes(checksum(body))

-----------------------------------------------------------------------------
\* The payloads: a run of numbers, then for some a run of bytes with its length
\* in front; a batch is a count and that many messages, each with its length.
put_bytes(bytes) == encode_u64(Len(bytes)) \o bytes
Numbers(ns) == FoldLeft(LAMBDA s, n : s \o encode_u64(n), <<>>, ns)
Fields == [Handshake |-> 1, HandshakeAck |-> 1, Msg |-> 4, MsgAck |-> 2, SyncReq |-> 1]
Trailer == {"Handshake", "HandshakeAck", "Msg"}
EncodeBody(cmd, m) == Numbers(m.nums) \o (IF cmd \in Trailer THEN put_bytes(m.text) ELSE <<>>)
EncodeBatch(ms) ==
    encode_u64(Len(ms)) \o FoldLeft(LAMBDA s, m : s \o put_bytes(EncodeBody("Msg", m)), <<>>, ms)

\* Reader: the rest of the input, or no more after an error.
Reader(src) == [ok |-> TRUE, rest |-> src, value |-> 0, nums |-> <<>>, text |-> <<>>]
Failed(r) == [r EXCEPT !.ok = FALSE]

decode_u64(bs) == FoldLeft(LAMBDA d, b : IF d.end = "no" THEN push(d, b) ELSE d, NoVarint, bs)
AfterVarint(r, dec) ==
    IF r.ok /\ dec.end = "value"
    THEN [r EXCEPT !.value = dec.value, !.rest = SubSeq(@, dec.count + 1, Len(@))]
    ELSE Failed(r)
varint(r) == AfterVarint(r, decode_u64(r.rest))

Taken(n) ==
    IF n.ok /\ n.value <= Len(n.rest)
    THEN [n EXCEPT !.text = SubSeq(n.rest, 1, n.value),
                   !.rest = SubSeq(n.rest, n.value + 1, Len(n.rest))]
    ELSE Failed(n)
bytes(r) == Taken(varint(r))

finish(r) == IF r.rest = <<>> THEN r ELSE Failed(r)

Noted(v) == [v EXCEPT !.nums = Append(@, v.value)]
ReadNumbers(cmd, src) ==
    FoldLeft(LAMBDA r, i : Noted(varint(r)), Reader(src), [i \in 1..Fields[cmd] |-> i])
BodyOf(r) == [ok |-> r.ok, m |-> [nums |-> r.nums, text |-> r.text]]
decode_body(cmd, src) ==
    BodyOf(finish(IF cmd \in Trailer THEN bytes(ReadNumbers(cmd, src)) ELSE ReadNumbers(cmd, src)))

\* SyncResp::decode; a count larger than the messages runs into the end.
BatchItem(s, r, d) ==
    [r |-> IF r.ok /\ d.ok THEN r ELSE Failed(r), ms |-> Append(s.ms, d.m)]
ReadItem(s, r) == BatchItem(s, r, decode_body("Msg", r.text))
ReadItems(n) == FoldLeft(LAMBDA s, i : ReadItem(s, bytes(s.r)), [r |-> n, ms |-> <<>>],
                         [i \in 1..n.value |-> i])
BatchOf(s) == [ok |-> finish(s.r).ok, ms |-> s.ms]
decode_batch(src) == BatchOf(ReadItems(varint(Reader(src))))

decode_payload(cmd, src) ==
    CASE cmd = "SyncResp" -> decode_batch(src)
      [] cmd \in {"Ping", "Pong"} -> [ok |-> TRUE]
      [] OTHER -> decode_body(cmd, src)

encode_payload(cmd, m) ==
    CASE cmd = "SyncResp" -> EncodeBatch(m)
      [] cmd \in {"Ping", "Pong"} -> <<>>
      [] OTHER -> EncodeBody(cmd, m)

-----------------------------------------------------------------------------
VARIABLES sent,      \* the messages: [cmd, seq, body]
          stream,    \* their bytes as they arrive
          fed,       \* how many of them the decoder was given
          decoder,   \* FrameDecoder: its stage and what it holds
          frames     \* the frames it returned

codecVars == <<sent, stream, fed, decoder, frames>>

HEADER_LEN == 5
NewDecoder == [stage |-> "header", head |-> <<>>, dec |-> NoVarint, seq |-> 0, ack |-> 0,
               need |-> 0, payload |-> <<>>, crc |-> CrcStart, got |-> <<>>]

Outgoing(m) == Frame(m.cmd, m.seq, m.seq, encode_payload(m.cmd, m.body))
Stream(ms) == FoldLeft(LAMBDA s, m : s \o encode(Outgoing(m)), <<>>, ms)

\* Where the payload of the first message lies in the stream.
PayloadAt(m) ==
    LET n == Len(encode_payload(m.cmd, m.body))
        last == Len(encode(Outgoing(m))) - CRC_LEN
    IN (last - n + 1)..last

CodecInit ==
    /\ sent \in Messages
    /\ \/ stream = Stream(sent)
       \/ /\ Len(sent) = 1
          /\ \E i \in PayloadAt(sent[1]), flip \in Damage :
                stream = [Stream(sent) EXCEPT ![i] = ByteXor[@, flip]]
    /\ fed = 0
    /\ decoder = NewDecoder
    /\ frames = <<>>

\* The header is checked once it is complete: magic, version, command.
HeaderByte(d, b) ==
    LET head == Append(d.head, b)
        d2 == [d EXCEPT !.head = head, !.crc = CrcUpdate(@, b)]
    IN CASE Len(head) < HEADER_LEN -> d2
         [] Len(head) = HEADER_LEN /\ SubSeq(head, 1, 3) = Magic \o <<Version>>
            /\ CmdOf(head[4]) # {} -> [d2 EXCEPT !.stage = "seq"]
         [] OTHER -> [d2 EXCEPT !.stage = "error"]

AfterLen(d, v) ==
    CASE v > MAX_FRAME_LEN -> [d EXCEPT !.stage = "error"]
      [] v = 0 -> [d EXCEPT !.stage = "crc"]
      [] OTHER -> [d EXCEPT !.stage = "payload", !.need = v]

\* One byte into the varint of the stage; the next stage starts a new varint.
VarintByte(d, b) ==
    LET dec == push(d.dec, b)
        d2 == [d EXCEPT !.dec = IF dec.end = "no" THEN dec ELSE NoVarint,
                        !.crc = CrcUpdate(@, b)]
    IN CASE dec.end = "no" -> d2
         [] dec.end = "error" -> [d2 EXCEPT !.stage = "error"]
         [] dec.end = "value" /\ d.stage = "seq" ->
               [d2 EXCEPT !.seq = dec.value, !.stage = "ack"]
         [] dec.end = "value" /\ d.stage = "ack" ->
               [d2 EXCEPT !.ack = dec.value, !.stage = "len"]
         [] OTHER -> AfterLen(d2, dec.value)

FrameOf(d) == Frame(CHOOSE c \in CmdOf(d.head[4]) : TRUE, d.seq, d.ack, d.payload)

PayloadByte(d, b) ==
    [d EXCEPT !.payload = Append(@, b), !.crc = CrcUpdate(@, b), !.need = @ - 1,
              !.stage = IF d.need = 1 THEN "crc" ELSE "payload"]

\* Mutant of CrcByte: the checksum is expected in one read.
CrcByte_OneRead(s, b) ==
    LET d == s.d
        got == Append(IF s.first THEN <<>> ELSE d.got, b)
    IN CASE Len(got) < CRC_LEN -> [s EXCEPT !.d.got = got]
         [] got = CrcBytes(CrcFinish(d.crc)) ->
               [s EXCEPT !.d = NewDecoder, !.out = Append(@, FrameOf(d))]
         [] OTHER -> [s EXCEPT !.d.stage = "error"]

\* The checksum itself is not part of what it covers; a frame is complete, and
\* the next one may begin, when its last byte matches.
CrcByte(s, b) ==
    LET d == s.d
        got == Append(d.got, b)
    IN CASE Len(got) < CRC_LEN -> [s EXCEPT !.d.got = got]
         [] got = CrcBytes(CrcFinish(d.crc)) ->
               [s EXCEPT !.d = NewDecoder, !.out = Append(@, FrameOf(d))]
         [] OTHER -> [s EXCEPT !.d.stage = "error"]

\* The state machine takes the next byte of the read; after an error nothing is
\* taken any more.
Advance(s, b) ==
    LET d == s.d
        next == CASE d.stage = "header" -> [s EXCEPT !.d = HeaderByte(d, b)]
                  [] d.stage \in {"seq", "ack", "len"} -> [s EXCEPT !.d = VarintByte(d, b)]
                  [] d.stage = "payload" -> [s EXCEPT !.d = PayloadByte(d, b)]
                  [] d.stage = "crc" -> CrcByte(s, b)
                  [] OTHER -> s
    IN [next EXCEPT !.first = FALSE]

\* decode: one read of n bytes.  The frames of a read that fails are not returned.
decode(n) ==
    LET s == FoldLeft(Advance, [d |-> decoder, out |-> <<>>, first |-> TRUE],
                      SubSeq(stream, fed + 1, fed + n))
    IN /\ decoder.stage # "error" /\ fed + n <= Len(stream)
       /\ fed' = fed + n
       /\ decoder' = s.d
       /\ frames' = IF s.d.stage = "error" THEN frames ELSE frames \o s.out
       /\ UNCHANGED <<sent, stream>>

CodecNext == \E n \in 1..MaxRead : decode(n)

CodecSpec == CodecInit /\ [][CodecNext]_codecVars

-----------------------------------------------------------------------------
\* The frames that lie completely in the first n bytes.
Whole(n) == {k \in 0..Len(sent) : Len(Stream(SubSeq(sent, 1, k))) <= n}

\* However TCP cuts the stream, the decoder has returned exactly the frames
\* whose last byte it was given, in order, and their payloads decode to what
\* was sent; an undamaged stream is never an error.  A damaged payload is never
\* handed on as a frame.
DecodesStream ==
    IF stream = Stream(sent)
    THEN /\ decoder.stage # "error"
         /\ Len(frames) \in Whole(fed) /\ Len(frames) + 1 \notin Whole(fed)
         /\ \A i \in 1..Len(frames) :
               /\ frames[i] = Outgoing(sent[i])
               /\ LET d == decode_payload(frames[i].cmd, frames[i].payload)
                  IN /\ d.ok
                     /\ "m" \in DOMAIN d => d.m = sent[i].body
                     /\ "ms" \in DOMAIN d => d.ms = sent[i].body
    ELSE frames = <<>>

=============================================================================
