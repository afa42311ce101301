------------------------------- MODULE Msgpack -------------------------------
(* MsgpackCodec (src/engine/terminal/src/nvim_surface.cpp): the values that  *)
(* are exchanged with the editor, byte by byte, and the stream that arrives  *)
(* in pieces cut anywhere.  Integers beyond four bytes are left out; a float *)
(* is its bits.                                                              *)
EXTENDS Integers, Sequences, SequencesExt, TLC

CONSTANTS
  Messages,       \* values the editor sends as Pack would
  Foreign,        \* [bytes, v]: other encodings of values the editor may use
  Pieces,         \* how many bytes one read finds
  MaxMessages     \* bound

VARIABLES
  sent,           \* values the editor sent
  coming,         \* bytes that are not read yet
  streamBuffer,   \* readBuffer_
  handled,        \* values given to HandleMessage
  broken          \* UnpackStream met a marker it does not support

messageVars == <<sent, coming, streamBuffer, handled, broken>>

(* s: the bytes of a text, a binary, a float or an extension, of which n is  *)
(* the type; items: the elements of an array, keys and values of a map.      *)
MsgValue(kind, n, s, items) == [kind |-> kind, n |-> n, s |-> s, items |-> items]

MsgInt(n) == MsgValue("int", n, <<>>, <<>>)

Text(s) == MsgValue("text", 0, s, <<>>)

AppendBigEndian(n, bytes) == [i \in 1..bytes |-> (n \div 256 ^ (bytes - i)) % 256]

PackInteger(n) ==
  CASE n \in 0..127 -> <<n>>
    [] n \in -32..-1 -> <<256 + n>>
    [] n \in 128..255 -> <<204>> \o AppendBigEndian(n, 1)
    [] n \in 256..65535 -> <<205>> \o AppendBigEndian(n, 2)
    [] n > 65535 -> <<206>> \o AppendBigEndian(n, 4)
    [] n \in -128..-33 -> <<208>> \o AppendBigEndian(n, 1)
    [] n \in -32768..-129 -> <<209>> \o AppendBigEndian(n, 2)
    [] OTHER -> <<210>> \o AppendBigEndian(n, 4)

\* Mutant: a length of 32 is put into the five bits of the short form.
PackLengthOneMore(fixBase, code8, length) ==
  CASE fixBase # 0 /\ length <= 32 -> <<fixBase + length>>
    [] length <= 255 -> <<code8>> \o AppendBigEndian(length, 1)
    [] OTHER -> <<code8 + 1>> \o AppendBigEndian(length, 2)

PackLength(fixBase, code8, length) ==
  CASE fixBase # 0 /\ length <= 31 -> <<fixBase + length>>
    [] length <= 255 -> <<code8>> \o AppendBigEndian(length, 1)
    [] OTHER -> <<code8 + 1>> \o AppendBigEndian(length, 2)

PackCount(fixBase, code16, length) ==
  IF length <= 15 THEN <<fixBase + length>> ELSE <<code16>> \o AppendBigEndian(length, 2)

PackExtension(v) ==
  LET length == Len(v.s)
      short == SelectSeq(<<1, 2, 4, 8, 16>>, LAMBDA size : size <= length)
  IN  (IF short # <<>> /\ Last(short) = length THEN <<211 + Len(short)>> ELSE PackLength(0, 199, length))
        \o <<v.n % 256>> \o v.s

RECURSIVE Pack(_)
Pack(v) ==
  LET items == FlattenSeq([i \in DOMAIN v.items |-> Pack(v.items[i])])
  IN  CASE v.kind = "nil" -> <<192>>
        [] v.kind = "bool" -> <<194 + v.n>>
        [] v.kind = "int" -> PackInteger(v.n)
        [] v.kind = "float" -> <<203>> \o v.s
        [] v.kind = "text" -> PackLength(160, 217, Len(v.s)) \o v.s
        [] v.kind = "binary" -> PackLength(0, 196, Len(v.s)) \o v.s
        [] v.kind = "array" -> PackCount(144, 220, Len(v.items)) \o items
        [] v.kind = "map" -> PackCount(128, 222, Len(v.items) \div 2) \o items
        [] OTHER -> PackExtension(v)

-----------------------------------------------------------------------------
(* Reading: what was found and where the next value begins, or that the      *)
(* bytes end within the value, or a marker that is not supported.            *)
Found(v, at) == [kind |-> "ok", v |-> v, at |-> at]

NeedMore == [kind |-> "more"]

Unsupported == [kind |-> "error"]

Need(data, at, count) == at + count - 1 <= Len(data)

BytesAt(data, at, count) == SubSeq(data, at, at + count - 1)

Number(bytes, start) == FoldLeft(LAMBDA n, byte : n * 256 + byte, start, bytes)

ReadUnsigned(data, at, width) == Number(BytesAt(data, at, width), 0)

SignExtend(data, at, width) == Number(BytesAt(data, at, width), IF data[at] >= 128 THEN -1 ELSE 0)

ReadUnsignedInt(data, at, width) ==
  IF Need(data, at, width) THEN Found(MsgInt(ReadUnsigned(data, at, width)), at + width) ELSE NeedMore

ReadSignedInt(data, at, width) ==
  IF Need(data, at, width) THEN Found(MsgInt(SignExtend(data, at, width)), at + width) ELSE NeedMore

ReadBytesAs(kind, data, at, length) ==
  IF Need(data, at, length) THEN Found(MsgValue(kind, 0, BytesAt(data, at, length), <<>>), at + length) ELSE NeedMore

ReadExtension(data, at, length) ==
  IF Need(data, at, length + 1)
  THEN Found(MsgValue("extension", SignExtend(data, at, 1), BytesAt(data, at + 1, length), <<>>), at + 1 + length)
  ELSE NeedMore

RECURSIVE UnpackOne(_, _), ReadItems(_, _, _, _, _)

(* ReadArray and ReadMap, which reads twice as many values.                  *)
ReadItems(kind, data, at, count, items) ==
  IF Len(items) = count THEN Found(MsgValue(kind, 0, <<>>, items), at) ELSE
  LET item == UnpackOne(data, at)
  IN  IF item.kind = "ok" THEN ReadItems(kind, data, item.at, count, Append(items, item.v)) ELSE item

ReadPrefixed(kind, data, at, width) ==
  IF ~Need(data, at, width) THEN NeedMore ELSE
  LET length == ReadUnsigned(data, at, width)
  IN  CASE kind = "extension" -> ReadExtension(data, at + width, length)
        [] kind = "array" -> ReadItems(kind, data, at + width, length, <<>>)
        [] kind = "map" -> ReadItems(kind, data, at + width, 2 * length, <<>>)
        [] OTHER -> ReadBytesAs(kind, data, at + width, length)

UnpackOne(data, at) ==
  IF ~Need(data, at, 1) THEN NeedMore ELSE
  LET marker == data[at]
      next == at + 1
  IN  CASE marker <= 127 -> Found(MsgInt(marker), next)
        [] marker >= 224 -> Found(MsgInt(marker - 256), next)
        [] marker \in 160..191 -> ReadBytesAs("text", data, next, marker - 160)
        [] marker \in 144..159 -> ReadItems("array", data, next, marker - 144, <<>>)
        [] marker \in 128..143 -> ReadItems("map", data, next, 2 * (marker - 128), <<>>)
        [] marker = 192 -> Found(MsgValue("nil", 0, <<>>, <<>>), next)
        [] marker \in 194..195 -> Found(MsgValue("bool", marker - 194, <<>>, <<>>), next)
        [] marker \in 196..198 -> ReadPrefixed("binary", data, next, 2 ^ (marker - 196))
        [] marker \in 199..201 -> ReadPrefixed("extension", data, next, 2 ^ (marker - 199))
        [] marker \in 202..203 -> ReadBytesAs("float", data, next, 4 * (marker - 201))
        [] marker \in 204..207 -> ReadUnsignedInt(data, next, 2 ^ (marker - 204))
        [] marker \in 208..211 -> ReadSignedInt(data, next, 2 ^ (marker - 208))
        [] marker \in 212..216 -> ReadExtension(data, next, 2 ^ (marker - 212))
        [] marker \in 217..219 -> ReadPrefixed("text", data, next, 2 ^ (marker - 217))
        [] marker \in 220..221 -> ReadPrefixed("array", data, next, 2 * (marker - 219))
        [] marker \in 222..223 -> ReadPrefixed("map", data, next, 2 * (marker - 221))
        [] OTHER -> Unsupported

RECURSIVE UnpackStream(_, _, _)
UnpackStream(data, at, values) ==
  LET one == UnpackOne(data, at)
  IN  CASE at > Len(data) \/ one.kind = "more" -> [ok |-> TRUE, values |-> values, rest |-> BytesAt(data, at, Len(data) - at + 1)]
        [] one.kind = "error" -> [ok |-> FALSE, values |-> values, rest |-> data]
        [] OTHER -> UnpackStream(data, one.at, Append(values, one.v))

-----------------------------------------------------------------------------
MessageInit == sent = <<>> /\ coming = <<>> /\ streamBuffer = <<>> /\ handled = <<>> /\ broken = FALSE

SendMessage ==
  \E m \in {[bytes |-> Pack(v), v |-> v] : v \in Messages} \cup Foreign :
    /\ Len(sent) < MaxMessages
    /\ sent' = Append(sent, m.v) /\ coming' = coming \o m.bytes
    /\ UNCHANGED <<streamBuffer, handled, broken>>

(* ReadAndHandle: the values before a marker that is not supported are       *)
(* dropped with it, and the bytes stay.                                      *)
ReadStream ==
  \E n \in Pieces \cup {Len(coming)} :
    /\ n \in 1..Len(coming)
    /\ LET read == UnpackStream(streamBuffer \o SubSeq(coming, 1, n), 1, <<>>)
       IN  /\ streamBuffer' = read.rest
           /\ handled' = IF read.ok THEN handled \o read.values ELSE handled
           /\ broken' = ~read.ok
    /\ coming' = SubSeq(coming, n + 1, Len(coming))
    /\ UNCHANGED sent

MessageNext == SendMessage \/ ReadStream

-----------------------------------------------------------------------------
(* However the stream is cut, the values handled are those that were sent,   *)
(* in order and each once, and a value is handled as soon as all its bytes   *)
(* were read.  (MsgpackCodec::Pack and UnpackStream)                         *)
MessagesWhole ==
  /\ IsPrefix(handled, sent)
  /\ coming = <<>> /\ ~broken => handled = sent /\ streamBuffer = <<>>
  /\ broken => \E i \in (Len(handled) + 1)..Len(sent) : sent[i].kind = "unsupported"
=============================================================================
