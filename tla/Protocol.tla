------------------------------- MODULE Protocol -------------------------------
(***************************************************************************)
(* The messages of common/protocol: each struct has a serialize() and a    *)
(* parse() written by hand, and nothing but care keeps the two in step.    *)
(* A struct is modelled by three sequences: the fields serialize() writes, *)
(* the fields parse() reads, and how many bytes parse() makes sure of      *)
(* before it reads each of them.  One message is sent at a time and may    *)
(* arrive cut short; what parse() reads past the end of the payload is     *)
(* whatever byte follows it in the receive buffer.                         *)
(*                                                                         *)
(* Floats are the numbers with the same four bytes.  The fields of a       *)
(* struct are named only in the source: a field's value tells it from its  *)
(* neighbours.                                                             *)
(***************************************************************************)
EXTENDS Integers, Sequences

CONSTANTS
    Values(_),  \* what is sent in each struct: sequences of field values
    After       \* bytes that may follow the payload in memory

VARIABLES
    phase,      \* idle, sent (on the wire) or parsed
    typ,        \* the struct
    value,      \* what was serialized
    wire,       \* the bytes that arrive
    whole,      \* none are missing
    after,      \* the byte behind them
    result      \* what parse() made of them

vars == <<phase, typ, value, wire, whole, after, result>>

-----------------------------------------------------------------------------
\* Kinds of fields
U8 == "u8"
U8Twice == "u8_twice"   \* p is incremented twice
Flag == "flag"
U32 == "u32"
Float == U32
Str == "str"
Items == "items"          \* a list of numbers
Objects == "objects"      \* a list of map_object_info
Members == "members"      \* a list of guild_member_info

\* check[i] is the n of the test p + n > end before field i is read, 0 if there is none.
Struct(write, check, read) == [write |-> write, check |-> check, read |-> read]

\* protocol_base.hpp
echo_req == Struct(<<Str>>, <<0>>, <<Str>>)
echo_res == Struct(<<Str>>, <<0>>, <<Str>>)
login_req == Struct(<<Str, Str>>, <<0, 0>>, <<Str, Str>>)
login_res_swapped == Struct(
    <<Flag, Str, U32, U32>>, <<1, 8, 0, 0>>, <<Flag, U32, U32, Str>>)
login_res == Struct(<<Flag, Str, U32, U32>>, <<1, 0, 8, 0>>, <<Flag, Str, U32, U32>>)

\* protocol_player.hpp
player_move_req == Struct(
    <<Float, Float, Float, Float, U32>>,
    <<20, 0, 0, 0, 0>>,
    <<Float, Float, Float, Float, U32>>)
player_move_res == Struct(
    <<U32, Float, Float, Float, Float, U32>>,
    <<24, 0, 0, 0, 0, 0>>,
    <<U32, Float, Float, Float, Float, U32>>)
player_info_req == Struct(<<U32>>, <<4>>, <<U32>>)
player_info_res == Struct(
    <<U32, Str, U32, U32, Float, Float, Float, Float, U32>>,
    <<28, 0, 0, 0, 0, 0, 0, 0, 0>>,
    <<U32, Str, U32, U32, Float, Float, Float, Float, U32>>)
player_status_update == Struct(<<U32, U32, U32>>, <<12, 0, 0>>, <<U32, U32, U32>>)

\* protocol_chat.hpp
chat_req == Struct(<<Str, U8, U32>>, <<0, 1, 4>>, <<Str, U8, U32>>)
chat_res == Struct(<<Flag, Str>>, <<1, 0>>, <<Flag, Str>>)
chat_broadcast == Struct(
    <<U32, Str, Str, U8, U32>>, <<4, 0, 0, 1, 4>>, <<U32, Str, Str, U8, U32>>)
chat_system_message == Struct(
    <<U32, Str, Str, U32, U32>>, <<12, 0, 0, 0, 0>>, <<U32, Str, Str, U32, U32>>)
chat_filter_req == Struct(<<U8, Str, U32>>, <<1, 0, 4>>, <<U8, Str, U32>>)
chat_filter_res == Struct(<<Flag, Str, U32>>, <<1, 0, 4>>, <<Flag, Str, U32>>)

\* protocol_combat.hpp
attack_req_short == Struct(
    <<U32, U32, Float, Float, Float, U32>>,
    <<20, 0, 0, 0, 0, 0>>,
    <<U32, U32, Float, Float, Float, U32>>)
attack_req == Struct(
    <<U32, U32, Float, Float, Float, U32>>,
    <<24, 0, 0, 0, 0, 0>>,
    <<U32, U32, Float, Float, Float, U32>>)
attack_res == Struct(
    <<Flag, Str, U32, U32, U32>>, <<12, 0, 0, 0, 0>>, <<Flag, Str, U32, U32, U32>>)
damage_notify == Struct(
    <<U32, U32, U32, U32, U32, U32>>,
    <<24, 0, 0, 0, 0, 0>>,
    <<U32, U32, U32, U32, U32, U32>>)
skill_use_req == Struct(
    <<U32, U32, Float, Float, Float, U32>>,
    <<24, 0, 0, 0, 0, 0>>,
    <<U32, U32, Float, Float, Float, U32>>)
skill_use_res == Struct(
    <<Flag, Str, U32, U32, U32>>, <<12, 0, 0, 0, 0>>, <<Flag, Str, U32, U32, U32>>)
status_effect_notify == Struct(
    <<U32, U32, U8, U32, U32, U32>>,
    <<21, 0, 0, 0, 0, 0>>,
    <<U32, U32, U8, U32, U32, U32>>)
combat_result_notify == Struct(
    <<U32, U32, U32, U32, Items, U32>>,
    <<20, 0, 0, 0, 0, 4>>,
    <<U32, U32, U32, U32, Items, U32>>)

\* protocol_map.hpp
map_enter_req == Struct(
    <<U32, Float, Float, Float, U32>>,
    <<20, 0, 0, 0, 0>>,
    <<U32, Float, Float, Float, U32>>)
map_enter_res == Struct(
    <<Flag, Str, U32, Str, Float, Float, Float, U32>>,
    <<20, 0, 0, 0, 0, 0, 0, 0>>,
    <<Flag, Str, U32, Str, Float, Float, Float, U32>>)
map_leave_req == Struct(<<U32, U32>>, <<8, 0>>, <<U32, U32>>)
map_leave_res == Struct(<<Flag, Str, U32>>, <<8, 0, 0>>, <<Flag, Str, U32>>)
map_object_info == Struct(
    <<U32, U8, Str, Float, Float, Float, Float, U32, U32, U32>>,
    <<28, 0, 0, 0, 0, 0, 0, 0, 0, 0>>,
    <<U32, U8, Str, Float, Float, Float, Float, U32, U32, U32>>)
map_objects_update == Struct(
    <<U32, U32, Objects, U32>>, <<12, 0, 0, 4>>, <<U32, U32, Objects, U32>>)
map_info_req == Struct(<<U32>>, <<4>>, <<U32>>)
map_info_res == Struct(
    <<U32, Str, Str, U32, U32, U32, U32, U8, U32>>,
    <<24, 0, 0, 0, 0, 0, 0, 0, 0>>,
    <<U32, Str, Str, U32, U32, U32, U32, U8, U32>>)

\* protocol_guild.hpp
guild_create_req == Struct(<<Str, Str, U32, U8>>, <<0, 0, 4, 1>>, <<Str, Str, U32, U8>>)
guild_create_res == Struct(<<Flag, Str, U32>>, <<1, 0, 4>>, <<Flag, Str, U32>>)
guild_join_req == Struct(<<U32, Str>>, <<4, 0>>, <<U32, Str>>)
guild_join_res == Struct(<<Flag, Str, U32>>, <<1, 0, 4>>, <<Flag, Str, U32>>)
guild_leave_req == Struct(<<U32, Str>>, <<4, 0>>, <<U32, Str>>)
guild_leave_res == Struct(<<Flag, Str>>, <<1, 0>>, <<Flag, Str>>)
guild_info_req == Struct(<<U32>>, <<4>>, <<U32>>)
guild_info_res == Struct(
    <<U32, Str, Str, U32, U32, U8, U32, U32, U32, Str>>,
    <<24, 0, 0, 0, 0, 0, 0, 0, 0, 0>>,
    <<U32, Str, Str, U32, U32, U8Twice, U32, U32, U32, Str>>)
guild_member_list_req == Struct(<<U32, U32, U32>>, <<12, 0, 0>>, <<U32, U32, U32>>)
guild_member_info == Struct(
    <<U32, Str, U32, U8, U32, U32>>,
    <<16, 0, 0, 0, 0, 0>>,
    <<U32, Str, U32, U8Twice, U32, U32>>)
guild_member_list_res == Struct(
    <<U32, U32, U32, U32, Members>>, <<16, 0, 0, 0, 0>>, <<U32, U32, U32, U32, Members>>)

Messages == [
    echo_req |-> echo_req, echo_res |-> echo_res,
    login_req |-> login_req, login_res |-> login_res,
    player_move_req |-> player_move_req, player_move_res |-> player_move_res,
    player_info_req |-> player_info_req, player_info_res |-> player_info_res,
    player_status_update |-> player_status_update,
    chat_req |-> chat_req, chat_res |-> chat_res, chat_broadcast |-> chat_broadcast,
    chat_system_message |-> chat_system_message,
    chat_filter_req |-> chat_filter_req, chat_filter_res |-> chat_filter_res,
    attack_req |-> attack_req, attack_res |-> attack_res,
    damage_notify |-> damage_notify,
    skill_use_req |-> skill_use_req, skill_use_res |-> skill_use_res,
    status_effect_notify |-> status_effect_notify,
    combat_result_notify |-> combat_result_notify,
    map_enter_req |-> map_enter_req, map_enter_res |-> map_enter_res,
    map_leave_req |-> map_leave_req, map_leave_res |-> map_leave_res,
    map_object_info |-> map_object_info, map_objects_update |-> map_objects_update,
    map_info_req |-> map_info_req, map_info_res |-> map_info_res,
    guild_create_req |-> guild_create_req, guild_create_res |-> guild_create_res,
    guild_join_req |-> guild_join_req, guild_join_res |-> guild_join_res,
    guild_leave_req |-> guild_leave_req, guild_leave_res |-> guild_leave_res,
    guild_info_req |-> guild_info_req, guild_info_res |-> guild_info_res,
    guild_member_list_req |-> guild_member_list_req,
    guild_member_info |-> guild_member_info,
    guild_member_list_res |-> guild_member_list_res]

Element(list) == IF list = Objects THEN map_object_info ELSE guild_member_info

-----------------------------------------------------------------------------
\* serialize()

\* What is appended to the buffer, part by part
Concat(parts) ==
    LET buf[i \in 0..Len(parts)] == IF i = 0 THEN <<>> ELSE buf[i - 1] \o parts[i]
    IN  buf[Len(parts)]

write_le32(v) ==
    <<v % 256, (v \div 256) % 256, (v \div 65536) % 256, (v \div 16777216) % 256>>
write_lp_string(s) == write_le32(Len(s)) \o s

WriteField(kind, v) ==
    CASE kind = U8 -> <<v>>
      [] kind = Flag -> <<IF v THEN 1 ELSE 0>>
      [] kind = U32 -> write_le32(v)
      [] kind = Str -> write_lp_string(v)
      [] kind = Items -> write_le32(Len(v)) \o Concat([i \in DOMAIN v |-> write_le32(v[i])])

WriteFields(layout, v) == Concat([i \in DOMAIN layout |-> WriteField(layout[i], v[i])])

\* A list of structs: the count, then each element's own serialize()
WriteList(list, v) ==
    write_le32(Len(v)) \o Concat([i \in DOMAIN v |-> WriteFields(Element(list).write, v[i])])

WriteAny(kind, v) ==
    IF kind \in {Objects, Members} THEN WriteList(kind, v) ELSE WriteField(kind, v)

Serialize(t, v) ==
    LET layout == Messages[t].write
    IN  Concat([i \in DOMAIN layout |-> WriteAny(layout[i], v[i])])

-----------------------------------------------------------------------------
\* parse(): a cursor st with the position p (from 0), what has been stored in
\* out, and ok, which a failed check clears for good.  Then p is where the refused
\* field starts: the caller never sees it.

ByteAt(i) == IF i < Len(wire) THEN wire[i + 1] ELSE after
read_le32(p) ==
    ByteAt(p) + 256 * ByteAt(p + 1) + 65536 * ByteAt(p + 2) + 16777216 * ByteAt(p + 3)

Start(p) == [p |-> p, ok |-> TRUE, out |-> <<>>]
Store(st, v, n) == [p |-> st.p + n, ok |-> TRUE, out |-> Append(st.out, v)]
Refuse(st) == [p |-> st.p, ok |-> FALSE, out |-> st.out]

read_lp_string(st) ==
    LET len == read_le32(st.p) IN
    IF Len(wire) - st.p < 4 \/ len > Len(wire) - (st.p + 4)
    THEN Refuse(st)
    ELSE Store(st, [i \in 1..len |-> ByteAt(st.p + 3 + i)], 4 + len)

\* The loop checks for each number that it is there, so it ends well if the last is.
ReadItems(st) ==
    LET n == read_le32(st.p) IN
    IF n > 0 /\ st.p + 4 + 4 * n > Len(wire)
    THEN Refuse(st)
    ELSE Store(st, [i \in 1..n |-> read_le32(st.p + 4 * i)], 4 + 4 * n)

ReadField(st, kind) ==
    CASE kind = U8 -> Store(st, ByteAt(st.p), 1)
      [] kind = U8Twice -> Store(st, ByteAt(st.p), 2)
      [] kind = Flag -> Store(st, ByteAt(st.p) # 0, 1)
      [] kind = U32 -> Store(st, read_le32(st.p), 4)
      [] kind = Str -> read_lp_string(st)
      [] kind = Items -> ReadItems(st)

\* A step of parse(): the test, if there is one, then the field
Checked(st, n, next) ==
    IF ~st.ok THEN st ELSE IF n > 0 /\ st.p + n > Len(wire) THEN Refuse(st) ELSE next

ReadFields(struct, start) ==
    LET st[i \in 0..Len(struct.read)] ==
          IF i = 0 THEN Start(start)
          ELSE Checked(st[i - 1], struct.check[i], ReadField(st[i - 1], struct.read[i]))
    IN  st[Len(struct.read)]

\* A list of structs: the count is read, then every element is parsed from the
\* same place, for the element's parse() takes p by value.
ReadList(st, list) ==
    LET n == read_le32(st.p)
        elem == ReadFields(Element(list), st.p + 4)
    IN  IF n > 0 /\ ~elem.ok THEN Refuse(st)
        ELSE Store(st, [i \in 1..n |-> elem.out], 4)

ReadAny(st, kind) ==
    IF kind \in {Objects, Members} THEN ReadList(st, kind) ELSE ReadField(st, kind)

ReadStep(st, kind, n) == Checked(st, n, ReadAny(st, kind))

Parse(t) ==
    LET read == Messages[t].read
        check == Messages[t].check
        st[i \in 0..Len(read)] ==
          IF i = 0 THEN Start(0) ELSE ReadStep(st[i - 1], read[i], check[i])
    IN  st[Len(read)]

-----------------------------------------------------------------------------
\* What a field of the struct can hold.  IsNumber: below 2^32, which TLC cannot write
Byte == 0..255
IsNumber(v) == v \in Nat /\ v \div 65536 < 65536
IsField(kind, v) ==
    CASE kind = U8 -> v \in Byte
      [] kind = Flag -> v \in BOOLEAN
      [] kind = U32 -> IsNumber(v)
      [] kind = Str -> v \in Seq(Byte) /\ IsNumber(Len(v))
      [] kind = Items ->
           v \in Seq(Nat) /\ IsNumber(Len(v)) /\ \A i \in DOMAIN v : IsNumber(v[i])
      [] kind \in {Objects, Members} -> IsNumber(Len(v))
IsMessage(layout, v) ==
    v = [i \in DOMAIN layout |-> v[i]] /\ \A i \in DOMAIN layout : IsField(layout[i], v[i])

ASSUME ValueAssumption ==
    /\ \A t \in DOMAIN Messages : \A v \in Values(t) :
          /\ IsMessage(Messages[t].write, v)
          /\ \A i \in DOMAIN v : Messages[t].write[i] \in {Objects, Members} =>
                \A j \in DOMAIN v[i] : IsMessage(Element(Messages[t].write[i]).write, v[i][j])
    /\ After \subseteq Byte

NoResult == [p |-> 0, ok |-> FALSE, out |-> <<>>]

Init ==
    /\ phase = "idle" /\ typ = "echo_req" /\ value = <<>> /\ wire = <<>>
    /\ whole = TRUE /\ after = 0 /\ result = NoResult

\* A message is serialized and sent; all or a first part of it arrives.
Send(t) ==
    /\ phase = "idle"
    /\ \E v \in Values(t), b \in After :
         \E n \in 0..Len(Serialize(t, v)) :
           /\ value' = v
           /\ wire' = SubSeq(Serialize(t, v), 1, n)
           /\ whole' = (n = Len(Serialize(t, v)))
           /\ after' = b
    /\ typ' = t
    /\ phase' = "sent"
    /\ UNCHANGED result

Receive ==
    /\ phase = "sent"
    /\ phase' = "parsed"
    /\ result' = Parse(typ)
    /\ UNCHANGED <<typ, value, wire, whole, after>>

\* The handler returns.
Return ==
    /\ phase = "parsed"
    /\ phase' = "idle" /\ typ' = "echo_req" /\ value' = <<>> /\ wire' = <<>>
    /\ whole' = TRUE /\ after' = 0 /\ result' = NoResult

Next == (\E t \in DOMAIN Messages : Send(t)) \/ Receive \/ Return

Spec == Init /\ [][Next]_vars

-----------------------------------------------------------------------------
\* Structs whose parse() steps over a byte serialize() never wrote
DoubleIncrement == {"guild_info_res", "guild_member_info"}

\* Structs whose first check, or whose elements' one, is smaller than what is
\* read after it
Underchecked == {"player_info_res", "chat_system_message", "attack_res",
    "skill_use_res", "map_enter_res", "map_leave_res", "map_object_info",
    "map_info_res", "map_objects_update", "guild_info_res", "guild_member_info",
    "guild_member_list_res"}

NonEmptyList == \E i \in DOMAIN value :
    Messages[typ].write[i] \in {Objects, Members} /\ value[i] # <<>>

\* parse() accepted the bytes, used them all and found the value sent.
Agree == result.ok /\ result.out = value /\ result.p = Len(wire)

\* parse() gives back what serialize() was given, for every struct but the two
\* of DoubleIncrement and the two that hold a list of structs, which come back
\* only while the list is empty.
RoundTrip ==
    phase = "parsed" /\ whole =>
        \/ typ \in DoubleIncrement
        \/ NonEmptyList
        \/ Agree

\* A message that arrives cut short is refused and no byte behind the payload
\* is looked at, in every struct but the Underchecked ones: in particular in all
\* those the server's handlers parse.
TruncationRefused ==
    phase = "parsed" /\ ~whole /\ typ \notin Underchecked =>
        ~result.ok /\ result.p <= Len(wire)
================================================================================
