---------------------------- MODULE CookedFiles ------------------------------
(***************************************************************************)
(* What the offline compiler (tools/assetc) writes and the runtime reads:  *)
(* packages of assets (runtime/asset), and cell files with one payload or  *)
(* one per layer (world).                                                  *)
(*                                                                         *)
(* A file is a sequence of words.  A header or an index entry is one word, *)
(* a record of its fields; what is no such record fails its validation.  A *)
(* CRC-64 is the sequence it is taken of, but 0, which stands for "no      *)
(* checksum", for a sequence of zeros: its register starts at 0.  What a   *)
(* codec makes of a sequence is left open: it may shrink it or not, and    *)
(* what it made comes apart again as long as none of it was altered.       *)
(***************************************************************************)
EXTENDS Integers, Sequences, FiniteSets, SequencesExt

CONSTANTS
  Blobs,          \* asset files: an asset header, the rest of the type's header, data
  CellChunks,     \* the layers of a cell: sequences of [layer, data]
  NoChecksum, Refused,
  LargestField, LargestSize, HalfIndex,   \* of a field, of size_t, of a 16-bit index
  MaxDamage       \* bound: words of a file that are not as they were written

ASSUME CookedAssumption == {LargestField, LargestSize, HalfIndex, MaxDamage} \subseteq Nat

VARIABLES
  cooked,         \* what went into the file and in which form, and the words that were written
  file            \* the words on disk

cookedVars == <<cooked, file>>

Datum(v) == [kind |-> "data", value |-> v]

Crc(words) == IF \A k \in DOMAIN words : words[k] = Datum(0) THEN NoChecksum ELSE [of |-> words]

(* Where the payload of an asset begins; 0 for a type nobody knows.        *)
AssetPayloadOffset(type) == IF type \in {"Mesh", "Texture", "Material"} THEN 2 ELSE 0

PayloadOf(blob) == SubSeq(blob, AssetPayloadOffset(blob[1].type) + 1, Len(blob))

ValidAssetHeader(word) == word.kind = "asset" /\ word.valid /\ AssetPayloadOffset(word.type) # 0

Squeezed(words) == [k \in 1 .. Len(words) - 1 |-> [kind |-> "squeezed", of |-> words, nth |-> k]]

Unsqueezed(words, size) ==
  IF words # <<>> /\ words[1].kind = "squeezed" /\ Squeezed(words[1].of) = words /\ Len(words[1].of) = size
  THEN words[1].of ELSE Refused

-----------------------------------------------------------------------------
(* CreatePackage: which files it takes.                                    *)
AcceptsBlob(blob) ==
  /\ Len(blob) >= 1 /\ ValidAssetHeader(blob[1])
  /\ blob[1].checksum # NoChecksum =>
       /\ Len(blob) >= AssetPayloadOffset(blob[1].type)
       /\ Len(PayloadOf(blob)) = blob[1].dataSize
       /\ Crc(PayloadOf(blob)) = blob[1].checksum

AcceptsPackage(blobs) ==
  /\ blobs # <<>>
  /\ \A k \in DOMAIN blobs : AcceptsBlob(blobs[k])
  /\ \A j, k \in DOMAIN blobs : j # k => blobs[j][1].name # blobs[k][1].name

StoredSize(blobs, shrunk, k) == IF k \in shrunk THEN Len(blobs[k]) - 1 ELSE Len(blobs[k])

\* Mutant: an entry's place is counted in bytes before compression.
EntryByLogicalSize(blobs, shrunk, k) ==
  LET size == StoredSize(blobs, shrunk, k)
  IN  [kind |-> "entry", type |-> blobs[k][1].type, name |-> blobs[k][1].name, assetSize |-> size,
       dataOffset |-> FoldLeft(LAMBDA sum, j : sum + Len(blobs[j]), 0, [j \in 1 .. k - 1 |-> j]),
       codec |-> IF k \in shrunk THEN "LZ4" ELSE "None", compressedSize |-> IF k \in shrunk THEN size ELSE 0,
       decompressedSize |-> Len(blobs[k])]

Entry(blobs, shrunk, k) ==
  LET size == StoredSize(blobs, shrunk, k)
  IN  [kind |-> "entry", type |-> blobs[k][1].type, name |-> blobs[k][1].name, assetSize |-> size,
       dataOffset |-> FoldLeft(LAMBDA sum, j : sum + StoredSize(blobs, shrunk, j), 0, [j \in 1 .. k - 1 |-> j]),
       codec |-> IF k \in shrunk THEN "LZ4" ELSE "None", compressedSize |-> IF k \in shrunk THEN size ELSE 0,
       decompressedSize |-> Len(blobs[k])]

BuildPackagePayload(blobs, shrunk) ==
  [k \in DOMAIN blobs |-> Entry(blobs, shrunk, k)] \o
  FlattenSeq([k \in DOMAIN blobs |-> IF k \in shrunk THEN Squeezed(blobs[k]) ELSE blobs[k]])

PackageWords(blobs, shrunk) ==
  LET payload == BuildPackagePayload(blobs, shrunk)
  IN  <<[kind |-> "package", valid |-> TRUE, assetCount |-> Len(blobs), indexOffset |-> 1,
         dataOffset |-> 1 + Len(blobs), checksum |-> Crc(payload)]>> \o payload

CreatePackage ==
  /\ file = <<>>
  /\ \E blobs \in {<<b>> : b \in Blobs} \cup {<<b, c>> : b, c \in Blobs} : \E shrunk \in SUBSET DOMAIN blobs :
       /\ file' = IF AcceptsPackage(blobs) THEN PackageWords(blobs, shrunk) ELSE <<Datum(0)>>
       /\ cooked' = [form |-> "package", blobs |-> blobs, words |-> file']

-----------------------------------------------------------------------------
(* PackageContainer::Initialize.                                           *)
EntryFits(entry, dataWords) ==
  /\ entry.kind = "entry" /\ AssetPayloadOffset(entry.type) # 0
  /\ IF entry.codec # "None"
     THEN /\ entry.compressedSize = entry.assetSize
          /\ entry.decompressedSize >= AssetPayloadOffset(entry.type)
     ELSE /\ entry.assetSize >= AssetPayloadOffset(entry.type)
          /\ entry.compressedSize = 0
          /\ entry.decompressedSize = entry.assetSize
  /\ entry.dataOffset <= dataWords /\ entry.assetSize <= dataWords - entry.dataOffset

ValidPackageHeader(head) ==
  /\ head.kind = "package" /\ head.valid
  /\ head.indexOffset >= 1 /\ head.dataOffset > head.indexOffset

OpensPackage(words) ==
  /\ words # <<>> /\ ValidPackageHeader(words[1])
  /\ words[1].checksum # NoChecksum => Crc(Tail(words)) = words[1].checksum
  /\ words[1].indexOffset <= Len(words) /\ words[1].dataOffset <= Len(words)
  /\ words[1].assetCount \in 1 .. words[1].dataOffset - words[1].indexOffset
  /\ LET entries == SubSeq(words, words[1].indexOffset + 1, words[1].indexOffset + words[1].assetCount)
     IN  /\ \A k \in DOMAIN entries : EntryFits(entries[k], Len(words) - words[1].dataOffset)
         /\ \E k \in DOMAIN entries : entries[k].dataOffset + entries[k].assetSize > 0
         /\ \A j, k \in DOMAIN entries : j # k => entries[j].name # entries[k].name

EntriesOf(words) == SubSeq(words, words[1].indexOffset + 1, words[1].indexOffset + words[1].assetCount)

(* PackageContainer::ReadAssetData of an entry.                            *)
ReadAssetData(words, entry) ==
  LET first == words[1].dataOffset + entry.dataOffset
      stored == SubSeq(words, first + 1, first + entry.assetSize)
      data == IF entry.codec # "None" THEN Unsqueezed(stored, entry.decompressedSize) ELSE stored
  IN  IF /\ data # Refused /\ data # <<>>
         /\ ValidAssetHeader(data[1])
         /\ data[1].type = entry.type /\ data[1].name = entry.name
         /\ Len(data) >= AssetPayloadOffset(entry.type)
         /\ Len(PayloadOf(data)) = data[1].dataSize
         /\ data[1].checksum # NoChecksum => Crc(PayloadOf(data)) = data[1].checksum
      THEN data ELSE Refused

-----------------------------------------------------------------------------
(* CompileCell and InspectCellPayload: a file of one payload.  A file that *)
(* does not begin with the magic number is a payload itself.               *)
CompileCell ==
  /\ file = <<>>
  /\ \E chunks \in CellChunks : \E codec \in {"None", "LZ4"} :
       /\ chunks # <<>> /\ chunks[1].data # <<>>
       /\ LET data == chunks[1].data
              body == IF codec = "None" THEN data ELSE Squeezed(data)
          IN  /\ body # <<>>
              /\ file' = <<[kind |-> "cell", codec |-> codec, compressedSize |-> Len(body),
                            decompressedSize |-> Len(data)]>> \o body
              /\ cooked' = [form |-> "cell", blobs |-> <<data>>, words |-> file']

InspectCellPayload(words) ==
  LET head == words[1]
      body == Tail(words)
  IN  IF words = <<>> THEN Refused
      ELSE IF head.kind # "cell" THEN words
      ELSE IF head.compressedSize = 0 \/ head.decompressedSize = 0 \/ head.compressedSize # Len(body)
              \/ (head.codec = "None" /\ head.compressedSize # head.decompressedSize) THEN Refused
      ELSE IF head.codec = "None" THEN body ELSE Unsqueezed(body, head.decompressedSize)

(* PackLayeredCell: a chunk is squeezed where that shrinks it.             *)
ChunkPayload(chunks, shrunk, k) == IF k \in shrunk THEN Squeezed(chunks[k].data) ELSE chunks[k].data

PackLayeredCell ==
  /\ file = <<>>
  /\ \E chunks \in CellChunks : \E shrunk \in SUBSET {k \in DOMAIN chunks : Len(chunks[k].data) > 1} :
       /\ file' = <<[kind |-> "layers", layerCount |-> Len(chunks)]>> \o
                  [k \in DOMAIN chunks |->
                     [kind |-> "chunk", layer |-> chunks[k].layer, codec |-> IF k \in shrunk THEN "LZ4" ELSE "None",
                      offset |-> 1 + Len(chunks) +
                        FoldLeft(LAMBDA sum, j : sum + Len(ChunkPayload(chunks, shrunk, j)), 0, [j \in 1 .. k - 1 |-> j]),
                      compressedSize |-> Len(ChunkPayload(chunks, shrunk, k)),
                      decompressedSize |-> Len(chunks[k].data)]] \o
                  FlattenSeq([k \in DOMAIN chunks |-> ChunkPayload(chunks, shrunk, k)])
       /\ cooked' = [form |-> "layers", blobs |-> chunks, words |-> file']

ParseLayeredCellDirectory(words) ==
  IF words = <<>> \/ words[1].kind # "layers" \/ 1 + words[1].layerCount > Len(words) THEN Refused
  ELSE LET entries == SubSeq(words, 2, 1 + words[1].layerCount)
       IN  IF \A k \in DOMAIN entries :
                /\ entries[k].kind = "chunk"
                /\ entries[k].offset \in 1 + words[1].layerCount .. Len(words)
                /\ entries[k].compressedSize <= Len(words) - entries[k].offset
                /\ entries[k].codec = "None" => entries[k].compressedSize = entries[k].decompressedSize
           THEN entries ELSE Refused

DecodeLayeredCellChunk(words, entry) ==
  LET bytes == SubSeq(words, entry.offset + 1, entry.offset + entry.compressedSize)
  IN  IF entry.codec = "None" THEN bytes ELSE Unsqueezed(bytes, entry.decompressedSize)

(* The chunks before one that cannot be decoded stay in outChunks, which   *)
(* "returns false (clearing outChunks)" in layered_cell_file.h says is     *)
(* cleared.                                                                *)
ParseLayeredCell(words) ==
  LET entries == ParseLayeredCellDirectory(words)
      decoded == IF entries = Refused THEN <<>>
                 ELSE [k \in DOMAIN entries |->
                         [layer |-> entries[k].layer, data |-> DecodeLayeredCellChunk(words, entries[k])]]
      broken == SelectInSeq(decoded, LAMBDA chunk : chunk.data = Refused)
  IN  [ok |-> entries # Refused /\ broken = 0, chunks |-> IF broken = 0 THEN decoded ELSE SubSeq(decoded, 1, broken - 1)]

ExtractLayer(words, layer) ==
  LET parsed == ParseLayeredCell(words)
      first == SelectInSeq(parsed.chunks, LAMBDA chunk : chunk.layer = layer)
  IN  IF ~parsed.ok \/ first = 0 THEN Refused ELSE parsed.chunks[first].data

-----------------------------------------------------------------------------
(* Disks and copies: a word changes, or the end is missing.                *)
Altered(word) ==
  {Datum(0)} \cup
  CASE word.kind = "data" -> {Datum(1), Datum(2)}
    [] word.kind = "package" ->
         {[word EXCEPT !.checksum = NoChecksum], [word EXCEPT !.assetCount = @ - 1], [word EXCEPT !.assetCount = @ + 1],
          [word EXCEPT !.dataOffset = @ + 1], [word EXCEPT !.indexOffset = @ + 1]}
    [] word.kind = "entry" ->
         {[word EXCEPT !.dataOffset = @ + 1], [word EXCEPT !.assetSize = @ - 1], [word EXCEPT !.dataOffset = 0],
          [word EXCEPT !.decompressedSize = @ - 1]}
    [] word.kind = "asset" -> {[word EXCEPT !.dataSize = @ - 1], [word EXCEPT !.checksum = NoChecksum]}
    [] word.kind = "cell" -> {[word EXCEPT !.compressedSize = @ - 1]}
    [] word.kind = "chunk" -> {[word EXCEPT !.offset = @ + 1], [word EXCEPT !.compressedSize = @ + 1]}
    [] OTHER -> {}

Damaged == {k \in DOMAIN cooked.words : k > Len(file) \/ file[k] # cooked.words[k]}

WasCut == Len(file) < Len(cooked.words) /\ IsPrefix(file, cooked.words)

DamageFile ==
  /\ Cardinality(Damaged) < MaxDamage /\ file # <<>>
  /\ \/ \E k \in DOMAIN file \ Damaged : \E word \in Altered(file[k]) \ {file[k]} : file' = [file EXCEPT ![k] = word]
     \/ file' = Front(file)
  /\ UNCHANGED cooked

CookedInit == cooked = [form |-> "none", blobs |-> <<>>, words |-> <<>>] /\ file = <<>>

CookedNext == CreatePackage \/ CompileCell \/ PackLayeredCell \/ DamageFile

-----------------------------------------------------------------------------
(* CompileMesh: the payload of a mesh of so many vertices and indices, with*)
(* a vertex of three words, a 16-bit index of one and a submesh range of   *)
(* two; and how much of it the asset manager asks for.                     *)
IndexSize(indexType) == IF indexType = 0 THEN 1 ELSE 2

CompiledMesh(vertices, indices) ==
  LET indexType == IF vertices > HalfIndex THEN 1 ELSE 0
      payload == vertices * 3 + indices * IndexSize(indexType) + 2
  IN  IF {vertices, indices, payload} \subseteq 0 .. LargestField
      THEN [vertexCount |-> vertices, indexCount |-> indices, vertexStride |-> 3, indexType |-> indexType,
            materialCount |-> 1, dataSize |-> payload]
      ELSE Refused

ValidateMeshPayloadSize(mesh, payloadSize) ==
  LET required == mesh.vertexCount * mesh.vertexStride + mesh.indexCount * IndexSize(mesh.indexType)
                  + mesh.materialCount * 2
  IN  payloadSize = mesh.dataSize /\ required <= LargestSize /\ payloadSize >= required

(* CompileTexture: the size of the pixels is cut to a field, and the stamp *)
(* of the checksum refuses a header whose size is not that of the data.    *)
CompiledTexture(width, height) ==
  LET pixels == width * height * 4
      size == pixels % (LargestField + 1)
  IN  IF size = pixels THEN [width |-> width, height |-> height, depth |-> 1, arraySize |-> 1, dataSize |-> size]
      ELSE Refused

ValidateTexturePayloadSize(texture, payloadSize) ==
  LET required == 4 * texture.width * texture.height * texture.depth * texture.arraySize
  IN  payloadSize = texture.dataSize /\ required <= LargestSize /\ payloadSize >= required

CompiledLoads ==
  \A m, n \in 0 .. LargestField :
    /\ CompiledMesh(m, n) # Refused => ValidateMeshPayloadSize(CompiledMesh(m, n), CompiledMesh(m, n).dataSize)
    /\ CompiledTexture(m, n) # Refused =>
         ValidateTexturePayloadSize(CompiledTexture(m, n), CompiledTexture(m, n).dataSize)

-----------------------------------------------------------------------------
WellFormed(blob) == Len(blob) >= 2 /\ Len(PayloadOf(blob)) = blob[1].dataSize

(* What was packed is what is read (CreatePackage, Initialize and          *)
(* ReadAssetData; CompileCell and InspectCellPayload; PackLayeredCell and  *)
(* ExtractLayer), whichever parts were squeezed.  A package that was cut or*)
(* changed behind its header is refused as long as its checksum is there;  *)
(* when only the header was changed, or the checksum is gone, a read still *)
(* gives an asset that was packed under that name, or nothing: only the    *)
(* rest of a type's header, and assets without a checksum of their own, can*)
(* have changed unseen.  A cell file that was cut is refused, and leaves   *)
(* nothing behind; of one whose payload was changed nothing is said: its   *)
(* chunks have no checksum, and those before a broken one stay in          *)
(* outChunks, against layered_cell_file.h:67.                              *)
ReadsWhatWasPacked ==
  /\ CompiledLoads
  /\ cooked.form = "package" =>
       LET entries == EntriesOf(file) IN
       /\ (Damaged = {} /\ AcceptsPackage(cooked.blobs)) =>
            /\ OpensPackage(file)
            /\ \A k \in DOMAIN cooked.blobs : WellFormed(cooked.blobs[k]) =>
                 ReadAssetData(file, entries[k]) = cooked.blobs[k]
       /\ OpensPackage(file) =>
            /\ file[1].checksum = NoChecksum \/ Damaged \subseteq {1}
            /\ \A k \in DOMAIN entries :
                 LET data == ReadAssetData(file, entries[k]) IN
                 data # Refused => \E blob \in ToSet(cooked.blobs) :
                   /\ blob[1].name = entries[k].name
                   /\ \/ data = blob
                      \/ /\ file[1].checksum = NoChecksum
                         /\ data[1].checksum = NoChecksum \/ (data[1] = blob[1] /\ PayloadOf(data) = PayloadOf(blob))
  /\ cooked.form = "cell" =>
       /\ Damaged = {} => InspectCellPayload(file) = cooked.blobs[1]
       /\ WasCut => InspectCellPayload(file) = Refused
  /\ cooked.form = "layers" =>
       /\ Damaged = {} => ParseLayeredCell(file) = [ok |-> TRUE, chunks |-> cooked.blobs]
       /\ WasCut => ParseLayeredCell(file) = [ok |-> FALSE, chunks |-> <<>>]
       /\ \A k \in DOMAIN cooked.blobs :
            LET layer == cooked.blobs[k].layer IN
            /\ (Damaged = {} /\ \A j \in 1 .. k - 1 : cooked.blobs[j].layer # layer) =>
                 ExtractLayer(file, layer) = cooked.blobs[k].data
            /\ WasCut => ExtractLayer(file, layer) = Refused
=============================================================================
