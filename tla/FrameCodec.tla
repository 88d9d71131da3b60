------------------------------ MODULE FrameCodec ------------------------------
(***************************************************************************)
(* Framing: a peer packs messages, the bytes arrive in pieces of any size  *)
(* and asio_channel's read handler (the client's recv_loop has the same    *)
(* loop) cuts them into frames again.  A byte may change on the way, once, *)
(* as the CRC exists to notice.                                            *)
(*                                                                         *)
(* The bytes of the header are the code's; flags, ver and seq, which the   *)
(* read handler does not look at, are those GameBot sends.  Of crc32 only  *)
(* that it tells payloads apart that differ in one byte is assumed.        *)
(***************************************************************************)
EXTENDS Integers, Sequences

CONSTANTS
    Cmds, Payloads,     \* what the peer sends
    Noise,              \* values a byte may change into
    crc32(_),           \* the four bytes of a payload's CRC
    MaxFrameBytes,      \* k_max_frame_bytes
    MaxFrames           \* bound: frames sent

Byte == 0..255

ASSUME ByteAssumption ==
    /\ \A c \in Cmds : c \in Nat /\ c < 65536
    /\ Payloads \subseteq Seq(Byte) /\ Noise \subseteq Byte
ASSUME FrameAssumption == MaxFrameBytes \in Nat /\ MaxFrameBytes < 2147483647 /\ MaxFrames \in Nat
ASSUME CrcAssumption == \A p \in Payloads :
    /\ crc32(p) \in Seq(Byte) /\ Len(crc32(p)) = 4
    /\ \A i \in DOMAIN p, b \in Noise : b # p[i] => crc32([p EXCEPT ![i] = b]) # crc32(p)

HeaderAfterLen == 12    \* k_header_after_len
HeaderTotal == 16       \* k_header_total

VARIABLES
    sent,       \* history: frames the peer has packed
    ends,       \* history: ends[k] is where frame k ends in the stream of bytes
    wire,       \* bytes on the way
    read,       \* history: bytes read so far
    acc,        \* frame_acc_
    offset,     \* frame_acc_offset_
    frames,     \* history: what on_frame_ was called with
    drops,      \* drops
    changed     \* history: the position in the stream of the changed byte, 0 if none

vars == <<sent, ends, wire, read, acc, offset, frames, drops, changed>>

-----------------------------------------------------------------------------
put_le16(v) == <<v % 256, (v \div 256) % 256>>
put_le32(v) == put_le16(v) \o put_le16(v \div 65536)
get_le16(s, i) == s[i] + 256 * s[i + 1]
\* Values from 2^31 on are only ever compared with smaller ones.
get_le32(s, i) == IF s[i + 3] >= 128 THEN 2147483647
                  ELSE get_le16(s, i) + 65536 * get_le16(s, i + 2)

\* What the crc field covers: the payload, not the header before it
Crc_with_header(head, payload) == crc32(head \o payload)
Crc(head, payload) == crc32(payload)

\* pack(cmd, 0, k_proto_ver, 0, payload)
pack(f) ==
    LET head == put_le32(HeaderAfterLen + Len(f.payload)) \o put_le16(f.cmd) \o <<0, 1, 0, 0, 0, 0>>
    IN  head \o Crc(head, f.payload) \o f.payload

FrameTotal_past(len) == 5 + len
FrameTotal(len) == 4 + len

crc_ok_unchecked(head, payload, crc) == TRUE
crc_ok(head, payload, crc) == Crc(head, payload) = crc

\* try_parse_one at offset o of a: whether it returns a frame, and the offset it
\* leaves, the end of the buffer for a length no frame can have
try_parse_one(a, o) ==
    LET avail == Len(a) - o
        len == get_le32(a, o + 1)
        total == FrameTotal(len)
        payload == SubSeq(a, o + 1 + HeaderTotal, o + total)
        wait == [ok |-> FALSE, offset |-> o]
        skip == [ok |-> FALSE, offset |-> Len(a)]
    IN  IF avail < 4 THEN wait
        ELSE IF len > MaxFrameBytes THEN skip
        ELSE IF avail < total THEN wait
        ELSE IF len < HeaderAfterLen THEN skip
        ELSE [ok |-> TRUE, offset |-> o + total,
              frame |-> [cmd |-> get_le16(a, o + 5), payload |-> payload],
              crc_ok |-> crc_ok(SubSeq(a, o + 1, o + 12), payload, SubSeq(a, o + 13, o + 16))]

\* A pass of parse_frames_'s loop: a frame with a wrong CRC is counted and skipped.
Pass(a, st) ==
    LET r == try_parse_one(a, st.offset)
    IN  IF ~st.more THEN st
        ELSE [offset |-> r.offset,
              frames |-> IF r.ok /\ r.crc_ok THEN Append(st.frames, r.frame) ELSE st.frames,
              drops |-> IF r.ok /\ ~r.crc_ok THEN st.drops + 1 ELSE st.drops,
              more |-> r.ok]

\* The loop: every pass but the last goes past a header.
ParseLoop(a, st) ==
    LET passes == Len(a) \div HeaderTotal + 1
        after[i \in 0..passes] == IF i = 0 THEN st ELSE Pass(a, after[i - 1])
    IN  after[passes]

\* The consumed front is erased once it is more than half of the buffer.
Compact_never(a, o) == [acc |-> a, offset |-> o]
Compact(a, o) == IF o > Len(a) \div 2 THEN [acc |-> SubSeq(a, o + 1, Len(a)), offset |-> 0]
                 ELSE [acc |-> a, offset |-> o]

-----------------------------------------------------------------------------
Init ==
    /\ sent = <<>> /\ ends = <<>> /\ wire = <<>> /\ read = 0
    /\ acc = <<>> /\ offset = 0
    /\ frames = <<>> /\ drops = 0 /\ changed = 0

Send(cmd, payload) ==
    /\ Len(sent) < MaxFrames
    /\ LET f == [cmd |-> cmd, payload |-> payload]
       IN  /\ sent' = Append(sent, f)
           /\ wire' = wire \o pack(f)
           /\ ends' = Append(ends, read + Len(wire'))
    /\ UNCHANGED <<read, acc, offset, frames, drops, changed>>

Change(i, b) ==
    /\ changed = 0 /\ wire[i] # b
    /\ wire' = [wire EXCEPT ![i] = b]
    /\ changed' = read + i
    /\ UNCHANGED <<sent, ends, read, acc, offset, frames, drops>>

\* The handler of async_read_some, with n bytes: parse_frames_ runs to its end.
Read(n) ==
    LET a == acc \o SubSeq(wire, 1, n)
        st == ParseLoop(a, [offset |-> offset, frames |-> frames, drops |-> drops, more |-> TRUE])
        left == Compact(a, st.offset)
    IN  /\ wire' = SubSeq(wire, n + 1, Len(wire))
        /\ read' = read + n
        /\ acc' = left.acc /\ offset' = left.offset
        /\ frames' = st.frames /\ drops' = st.drops
        /\ UNCHANGED <<sent, ends, changed>>

Next ==
    \/ \E cmd \in Cmds, payload \in Payloads : Send(cmd, payload)
    \/ \E i \in 1..Len(wire), b \in Noise : Change(i, b)
    \/ \E n \in 1..Len(wire) : Read(n)

Spec == Init /\ [][Next]_vars

-----------------------------------------------------------------------------
\* No payload makes a frame longer than try_parse_one takes, which pack does not check.
Fitting == \A p \in Payloads : HeaderAfterLen + Len(p) <= MaxFrameBytes

\* The changed byte is one of the bytes lo..hi of frame k.
Ends(k) == IF k = 0 THEN 0 ELSE ends[k]
Hit(k, lo, hi) == changed \in Ends(k - 1) + lo .. Ends(k - 1) + hi /\ changed <= Ends(k)

\* The frames seen, delivered or dropped, are those whose last byte has been read.
Complete == \A k \in 1..Len(sent) : ends[k] <= read <=> k <= Len(frames) + drops

\* However the bytes are cut into reads, on_frame_ sees exactly the frames whose
\* last byte has been read, unchanged and in order (try_parse_one, parse_frames_).
CutsInvisible ==
    changed = 0 => /\ Complete /\ drops = 0
                   /\ Len(frames) <= Len(sent)
                   /\ \A i \in DOMAIN frames : frames[i] = sent[i]

\* A byte changed in a payload or in the CRC costs its own frame only: it is
\* counted in drops and every other frame is delivered (crc_ok in parse_frames_).
DamageContained == \A k \in 1..Len(sent) :
    Hit(k, HeaderTotal - 3, HeaderTotal + Len(sent[k].payload)) =>
        /\ Complete
        /\ drops = IF ends[k] <= read THEN 1 ELSE 0
        /\ Len(frames) + drops <= Len(sent)
        /\ \A i \in DOMAIN frames : frames[i] = sent[IF i < k THEN i ELSE i + 1]

\* A byte changed in cmd, flags, ver or seq loses no frame and no payload: the
\* CRC does not cover the header, so the frame is delivered as what it now says.
HeaderUnprotected == \A k \in 1..Len(sent) :
    Hit(k, 5, HeaderTotal - 4) =>
        /\ Complete /\ drops = 0
        /\ Len(frames) <= Len(sent)
        /\ \A i \in DOMAIN frames : /\ frames[i].payload = sent[i].payload
                                    /\ i # k => frames[i] = sent[i]

\* Whatever arrives, the buffer holds at most twice the bytes still to be parsed,
\* and those are less than one largest frame: neither a bad length nor a long
\* session lets frame_acc_ grow without bound (compaction, k_max_frame_bytes).
BufferBounded ==
    /\ offset <= Len(acc) - offset
    /\ Len(acc) - offset < 4 + MaxFrameBytes

=============================================================================
