---------------------------- MODULE Serialization ----------------------------
(* src/engine/serialization: one object written to a JSON text and to a      *)
(* binary file by the same calls, and read back by the same calls in order.  *)
(* A text is a sequence of lexical marks, white space left out; a file a     *)
(* sequence of cells, the n-th part of the value that was written.  A number *)
(* is an integer, or NotANumber for what a stream prints as nan or inf.      *)
EXTENDS Integers, Sequences, SequencesExt, TLC

CONSTANTS
  Field,        \* names of members
  Scalars,      \* the values that are written
  Exact,        \* integers up to this size survive the passage through a double (2^53)
  NotANumber,
  MaxWrites,    \* bound: calls inside the root
  MaxLost       \* bound: marks, or cells, a file loses at its end

ASSUME SerializationAssumption == {Exact, NotANumber, MaxWrites, MaxLost} \subseteq Nat

VARIABLES
  json,      \* JSONSerializer
  bytes,     \* BinarySerializer::buffer_
  opened,    \* the containers the caller has open, and the members it gave each
  written,   \* the calls made
  loaded,    \* [lost, json, binary]: the two deserializers, <<>> while writing
  readBack    \* what each call read back

serialVars == <<json, bytes, opened, written, loaded, readBack>>

NoField == ""

VersionField == "__version__"

Scalar(kind, n, s) == [kind |-> kind, n |-> n, s |-> s]

Nothing == Scalar("nothing", 0, <<>>)

-----------------------------------------------------------------------------
(* JSONSerializer.  The stream prints in hexadecimal once a control          *)
(* character was escaped, and a character that is not ASCII is a negative    *)
(* char: its escape has eight digits.                                        *)
Mark(t) == [t |-> t, v |-> Nothing]

EnsureDocumentStarted(d) ==
  IF d.documentFinalized \/ d.documentWrapperStarted \/ d.indentLevel # 0 THEN d
  ELSE [d EXCEPT !.text = Append(@, Mark("{")), !.indentLevel = 1, !.firstElement = TRUE,
                 !.inArray = FALSE, !.documentWrapperStarted = TRUE]

FinalizeDocument(d) ==
  IF d.documentFinalized \/ ~d.documentWrapperStarted \/ d.indentLevel # 1 \/ d.inArray THEN d
  ELSE [d EXCEPT !.text = Append(@, Mark("}")), !.indentLevel = 0, !.documentFinalized = TRUE]

WriteKey(key) == IF key = NoField THEN <<>> ELSE <<[t |-> "key", v |-> Scalar("string", 0, <<key>>)]>>

Lead(d, key) ==
  LET e == IF d.indentLevel = 0 /\ key # NoField THEN EnsureDocumentStarted(d) ELSE d
  IN  [e EXCEPT !.text = @ \o (IF e.firstElement THEN <<>> ELSE <<Mark(",")>>) \o WriteKey(key),
                !.firstElement = FALSE]

InHex(n) == CASE n < 10 -> n [] n % 16 < 10 -> (n \div 16) * 10 + (n % 16) [] OTHER -> NotANumber

WriteNumber(d, key, v) ==
  LET shown == IF d.hex /\ v.kind # "double" THEN [v EXCEPT !.n = InHex(@)] ELSE v
  IN  [Lead(d, key) EXCEPT !.text = Append(@, [t |-> "scalar", v |-> shown])]

Escape(c) ==
  CASE c = "control" -> <<<<"hex", "control">>>>
    [] c = "foreign" -> <<<<"hex", "ffff">>, <<"raw", "f">>, <<"raw", "f">>, <<"raw", "c">>, <<"raw", "3">>>>
    [] c = "quote" -> <<<<"escape", "quote">>>>
    [] OTHER -> <<<<"raw", c>>>>

WriteString(d, key, v) ==
  LET shown == [v EXCEPT !.s = FlattenSeq([i \in DOMAIN v.s |-> Escape(v.s[i])])]
  IN  [Lead(d, key) EXCEPT !.text = Append(@, [t |-> "scalar", v |-> shown]),
                           !.hex = @ \/ \E i \in DOMAIN v.s : v.s[i] \in {"control", "foreign"}]

WriteJson(d, key, v) == IF v.kind = "string" THEN WriteString(d, key, v) ELSE WriteNumber(d, key, v)

BeginArrayJson(d, key) ==
  [Lead(d, key) EXCEPT !.text = Append(@, Mark("[")), !.indentLevel = @ + 1, !.firstElement = TRUE, !.inArray = TRUE]

EndArrayJson(d) ==
  [d EXCEPT !.text = Append(@, Mark("]")), !.indentLevel = @ - 1, !.firstElement = FALSE, !.inArray = FALSE]

BeginObjectJson(d, key) ==
  [Lead(d, key) EXCEPT !.text = Append(@, Mark("{")), !.indentLevel = @ + 1, !.firstElement = TRUE]

EndObjectJson(d) == [d EXCEPT !.text = Append(@, Mark("}")), !.indentLevel = @ - 1, !.firstElement = FALSE]

-----------------------------------------------------------------------------
(* JsonParser.  A value carries its elements and members; Wrong: no value.   *)
Value(v) == [kind |-> IF v.kind \in {"bool", "string"} THEN v.kind ELSE "number",
             v |-> v, elements |-> <<>>, members |-> <<>>]

Container(kind, elements, members) == [kind |-> kind, v |-> Nothing, elements |-> elements, members |-> members]

Wrong == [ok |-> FALSE, value |-> Container("null", <<>>, <<>>), rest |-> <<>>]

Parsed(value, rest) == [ok |-> TRUE, value |-> value, rest |-> rest]

StartsWith(t, text) == text # <<>> /\ text[1].t = t

Unescape(piece) == CASE piece[1] = "hex" /\ piece[2] = "ffff" -> "other" [] OTHER -> piece[2]

ParseNumber(v) == [v EXCEPT !.n = IF @ <= Exact THEN @ ELSE CASE @ % 4 = 1 -> @ - 1 [] @ % 4 = 3 -> @ + 1 [] OTHER -> @]

ParseString(v) == [v EXCEPT !.s = [i \in DOMAIN v.s |-> Unescape(v.s[i])]]

ParseScalar(v, rest) ==
  CASE v.kind = "string" -> Parsed(Value(ParseString(v)), rest)
    [] v.n = NotANumber -> Wrong
    [] OTHER -> Parsed(Value(ParseNumber(v)), rest)

RECURSIVE ParseValue(_), ParseArray(_, _), ParseObject(_, _)

ParseArray(text, elements) ==
  LET item == ParseValue(text)
      all == Append(elements, item.value)
  IN  CASE ~item.ok -> Wrong
        [] StartsWith("]", item.rest) -> Parsed(Container("array", all, <<>>), Tail(item.rest))
        [] StartsWith(",", item.rest) -> ParseArray(Tail(item.rest), all)
        [] OTHER -> Wrong

ParseObject(text, members) ==
  IF ~StartsWith("key", text) THEN Wrong ELSE
  LET data == ParseValue(Tail(text))
      all == members @@ (text[1].v.s[1] :> data.value)
  IN  CASE ~data.ok -> Wrong
        [] StartsWith("}", data.rest) -> Parsed(Container("object", <<>>, all), Tail(data.rest))
        [] StartsWith(",", data.rest) -> ParseObject(Tail(data.rest), all)
        [] OTHER -> Wrong

ParseValue(text) ==
  CASE StartsWith("scalar", text) -> ParseScalar(text[1].v, Tail(text))
    [] StartsWith("[", text) /\ StartsWith("]", Tail(text)) -> Parsed(Container("array", <<>>, <<>>), Tail(Tail(text)))
    [] StartsWith("[", text) -> ParseArray(Tail(text), <<>>)
    [] StartsWith("{", text) /\ StartsWith("}", Tail(text)) -> Parsed(Container("object", <<>>, <<>>), Tail(Tail(text)))
    [] StartsWith("{", text) -> ParseObject(Tail(text), <<>>)
    [] OTHER -> Wrong

(* JSONDeserializer: nothing is read from a text that does not parse.        *)
LoadJson(text) ==
  LET whole == ParseValue(text) IN IF whole.ok /\ whole.rest = <<>> THEN <<[value |-> whole.value, index |-> 1]>> ELSE <<>>

ResolveValue(stack, key) ==
  LET here == Last(stack).value
  IN  CASE stack = <<>> -> Wrong
        [] key # NoField -> IF here.kind = "object" /\ key \in DOMAIN here.members
                            THEN Parsed(here.members[key], <<>>) ELSE Wrong
        [] here.kind = "array" -> IF Last(stack).index <= Len(here.elements)
                                  THEN Parsed(here.elements[Last(stack).index], <<>>) ELSE Wrong
        [] OTHER -> Parsed(here, <<>>)

Advanced(stack, key) ==
  IF key = NoField /\ stack # <<>> /\ Last(stack).value.kind = "array" THEN [stack EXCEPT ![Len(stack)].index = @ + 1] ELSE stack

ReadJson(stack, key, kind) ==
  LET found == ResolveValue(stack, key)
      fits == found.ok /\ found.value.kind = (IF kind \in {"bool", "string"} THEN kind ELSE "number")
  IN  [value |-> IF fits THEN [found.value.v EXCEPT !.kind = kind] ELSE Nothing,
       stack |-> IF found.ok THEN Advanced(stack, key) ELSE stack]

BeginJson(stack, key, kind) ==
  LET found == ResolveValue(stack, key)
  IN  IF found.ok /\ found.value.kind = kind
      THEN [value |-> Scalar(kind, Len(found.value.elements), <<>>),
            stack |-> Append(Advanced(stack, key), [value |-> found.value, index |-> 1])]
      ELSE [value |-> Nothing, stack |-> stack]

EndJson(stack) == IF stack = <<>> THEN <<>> ELSE Front(stack)

-----------------------------------------------------------------------------
(* BinarySerializer: no keys, no marks; BinaryDeserializer: a read that does *)
(* not fit takes nothing and gives the default.                               *)
Size(kind) == CASE kind = "bool" -> 1 [] kind \in {"int32", "array", "string"} -> 4 [] OTHER -> 8

WriteData(v, size) == [n \in 1..size |-> [v |-> v, part |-> n]]

WriteBinary(v) ==
  IF v.kind = "string" THEN WriteData(Scalar("string", Len(v.s), <<>>), Size("string")) \o [n \in DOMAIN v.s |-> [v |-> v, part |-> n]]
  ELSE WriteData(v, Size(v.kind))

ReadBytes(data, pos, size) ==
  IF pos + size <= Len(data) THEN [ok |-> TRUE, v |-> data[pos + 1].v, pos |-> pos + size]
  ELSE [ok |-> FALSE, v |-> Nothing, pos |-> pos]

\* Mutant: the length stays consumed when the string does not fit.
ReadStringTakesLength(data, pos) ==
  LET length == ReadBytes(data, pos, Size("string"))
  IN  CASE ~length.ok -> length
        [] length.pos + length.v.n > Len(data) -> [length EXCEPT !.ok = FALSE, !.v = Nothing]
        [] length.v.n = 0 -> length
        [] OTHER -> ReadBytes(data, length.pos, length.v.n)

ReadBinaryString(data, pos) ==
  LET length == ReadBytes(data, pos, Size("string"))
  IN  CASE ~length.ok \/ length.pos + length.v.n > Len(data) -> [ok |-> FALSE, v |-> Nothing, pos |-> pos]
        [] length.v.n = 0 -> length
        [] OTHER -> ReadBytes(data, length.pos, length.v.n)

ReadBinary(data, pos, kind) ==
  CASE kind = "object" -> [ok |-> TRUE, v |-> Scalar("object", 0, <<>>), pos |-> pos]
    [] kind = "string" -> ReadBinaryString(data, pos)
    [] OTHER -> ReadBytes(data, pos, Size(kind))

-----------------------------------------------------------------------------
Fresh == [text |-> <<>>, indentLevel |-> 0, inArray |-> FALSE, firstElement |-> TRUE,
          documentWrapperStarted |-> FALSE, documentFinalized |-> FALSE, hex |-> FALSE]

SerialInit ==
  /\ json = Fresh /\ bytes = <<>> /\ opened = <<>> /\ written = <<>> /\ loaded = <<>> /\ readBack = <<>>

(* SerializeToFile opens the root and writes the version of the object.      *)
Version == Scalar("int32", 2, <<>>)

SerializeToFile ==
  /\ written = <<>>
  /\ json' = WriteJson(BeginObjectJson(json, "root"), VersionField, Version)
  /\ bytes' = WriteBinary(Version)
  /\ opened' = <<[kind |-> "object", keys |-> {}, left |-> 0]>>
  /\ written' = <<[kind |-> "root", key |-> "root", v |-> Nothing]>>
  /\ UNCHANGED <<loaded, readBack>>

(* The caller gives members names of their own and an array its elements.    *)
Place(key) ==
  /\ opened # <<>> /\ Len(written) <= MaxWrites
  /\ IF Last(opened).kind = "array" THEN key = NoField /\ Last(opened).left > 0
     ELSE key \in Field \ Last(opened).keys

Filled(key) == [opened EXCEPT ![Len(opened)].keys = @ \cup {key}, ![Len(opened)].left = @ - 1]

Write ==
  \E key \in Field \cup {NoField}, v \in Scalars :
    /\ Place(key)
    /\ json' = WriteJson(json, key, v)
    /\ bytes' = bytes \o WriteBinary(v)
    /\ opened' = Filled(key)
    /\ written' = Append(written, [kind |-> v.kind, key |-> key, v |-> v])
    /\ UNCHANGED <<loaded, readBack>>

Begin ==
  \E key \in Field \cup {NoField}, size \in 0..2, kind \in {"array", "object"} :
    /\ Place(key)
    /\ kind = "object" => size = 0
    /\ LET v == Scalar(kind, size, <<>>)
       IN  /\ json' = IF kind = "array" THEN BeginArrayJson(json, key) ELSE BeginObjectJson(json, key)
           /\ bytes' = bytes \o (IF kind = "array" THEN WriteBinary(v) ELSE <<>>)
           /\ opened' = Append(Filled(key), [kind |-> kind, keys |-> {}, left |-> size])
           /\ written' = Append(written, [kind |-> kind, key |-> key, v |-> v])
    /\ UNCHANGED <<loaded, readBack>>

End ==
  /\ opened # <<>> /\ (Last(opened).kind = "array" => Last(opened).left = 0)
  /\ json' = IF Last(opened).kind = "array" THEN EndArrayJson(json) ELSE EndObjectJson(json)
  /\ opened' = Front(opened)
  /\ written' = Append(written, [kind |-> "end", key |-> NoField, v |-> Nothing])
  /\ UNCHANGED <<bytes, loaded, readBack>>

(* SaveToFile, the loss of the end of both files, LoadFromFile, and the      *)
(* deserializers' constructors, of which the binary one takes the version;   *)
(* DeserializeFromFile opens the root and asks for the version.              *)
SaveAndLoad ==
  \E lost \in 0..MaxLost :
    /\ written # <<>> /\ opened = <<>> /\ loaded = <<>>
    /\ json' = FinalizeDocument(json)
    /\ json'.documentFinalized
    /\ LET text == json'.text
           data == SubSeq(bytes, 1, IF lost < Len(bytes) THEN Len(bytes) - lost ELSE 0)
           root == BeginJson(LoadJson(SubSeq(text, 1, IF lost < Len(text) THEN Len(text) - lost ELSE 0)), "root", "object")
           head == ReadJson(root.stack, VersionField, "int32")
           first == ReadBytes(data, 0, Size("int32"))
       IN  /\ loaded' = [lost |-> lost, json |-> head.stack, data |-> data, pos |-> first.pos, short |-> ~first.ok]
           /\ readBack' = <<[json |-> head.value, binary |-> first.v]>>
    /\ UNCHANGED <<bytes, opened, written>>

(* The object reads in the order it wrote, until a binary read is short; it  *)
(* skips a JSON container that is not there, as all of them then are.        *)
Read ==
  /\ loaded # <<>> /\ ~loaded.short /\ Len(readBack) < Len(written)
  /\ LET call == written[Len(readBack) + 1]
         fromJson == CASE call.kind = "end" -> [value |-> Nothing, stack |-> EndJson(loaded.json)]
                       [] call.kind \in {"array", "object"} -> BeginJson(loaded.json, call.key, call.kind)
                       [] OTHER -> ReadJson(loaded.json, call.key, call.kind)
         fromData == IF call.kind = "end" THEN [ok |-> TRUE, v |-> Nothing, pos |-> loaded.pos]
                     ELSE ReadBinary(loaded.data, loaded.pos, call.kind)
     IN  /\ loaded' = [loaded EXCEPT !.json = fromJson.stack, !.pos = fromData.pos, !.short = ~fromData.ok]
         /\ readBack' = Append(readBack, [json |-> fromJson.value, binary |-> fromData.v])
  /\ UNCHANGED <<json, bytes, opened, written>>

SerialNext == SerializeToFile \/ Write \/ Begin \/ End \/ SaveAndLoad \/ Read

-----------------------------------------------------------------------------
(* What the JSON text of these calls can carry: no nan, no integer a double  *)
(* does not hold, no foreign character, and no integer above nine after a    *)
(* control character.                                                        *)
Carried(i) ==
  LET v == written[i].v
  IN  /\ v.kind \in {"bool", "int32", "int64", "double"} => v.n <= Exact
      /\ \A c \in DOMAIN v.s : v.s[c] # "foreign"
      /\ v.kind \in {"int32", "int64"} /\ v.n > 9 =>
           \A k \in 1..(i - 1) : \A c \in DOMAIN written[k].v.s : written[k].v.s[c] # "control"

Cells(i) ==
  CASE i = 1 -> WriteBinary(Version) [] written[i].kind \in {"end", "object"} -> <<>> [] OTHER -> WriteBinary(written[i].v)

(* What balanced calls wrote is read back: from JSON every value when the    *)
(* text is whole, and nothing when it lost its end; from the binary file     *)
(* every value before the first read that is short, which takes no byte.     *)
(* (JSONSerializer and JSONDeserializer, BinarySerializer and                *)
(* BinaryDeserializer)                                                       *)
SavedIsRead ==
  loaded # <<>> =>
    /\ opened = <<>> => json.documentFinalized
    /\ \A i \in DOMAIN readBack :
         LET meant == IF i = 1 THEN Version ELSE written[i].v
         IN  /\ (\A k \in DOMAIN written : Carried(k)) =>
                  readBack[i].json = IF loaded.lost = 0 THEN meant ELSE Nothing
             /\ IF i = Len(readBack) /\ loaded.short THEN loaded.lost > 0 /\ readBack[i].binary = Nothing
                ELSE readBack[i].binary = meant
    /\ loaded.short => loaded.pos = Len(FlattenSeq([i \in 1..(Len(readBack) - 1) |-> Cells(i)]))
=============================================================================
