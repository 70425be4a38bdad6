------------------------------- MODULE NoteProto -------------------------------
(***************************************************************************)
(* The notes of a balance: from the gRPC message to the protobuf object    *)
(* the client returns (grpc/convert.ts), and from there to a note          *)
(* (proto/note.ts).  Every operator has a companion that says when the     *)
(* code throws.                                                            *)
(***************************************************************************)
EXTENDS ProtoValues, SequencesExt

(* grpcHashToDigest: an empty string where there is no hash; it throws if  *)
(* a number is missing.                                                    *)
NoDigest == Text(<< >>)
GrpcHashToDigest(hash) ==
  IF hash = << >> THEN NoDigest ELSE DigestFromProtobuf(hash[1])
BadHash(hash) == hash # << >> /\ ~HasBelts(hash[1])

(* undefined unless both halves are there. *)
IsWholeName(name) == name # << >> /\ name[1].first # << >> /\ name[1].last # << >>
GrpcNameToPb(name) ==
  IF ~IsWholeName(name) THEN << >>
  ELSE <<[first |-> GrpcHashToDigest(name[1].first), last |-> GrpcHashToDigest(name[1].last)]>>
BadName(name) == IsWholeName(name) /\ (BadHash(name[1].first) \/ BadHash(name[1].last))

ValueOr(box, default) == IF box = << >> THEN default ELSE box[1].value[1]

(* A legacy note is passed on as it is. *)
GrpcNoteToPb(note) ==
  IF note = << >> \/ note[1].note_version = << >> THEN << >>
  ELSE LET version == note[1].note_version[1]
           v1 == version.content
       IN  IF version.case = "legacy" THEN <<[Legacy |-> version.content]>>
           ELSE <<[V1 |-> [version |-> ValueOr(v1.version, 1),
                           origin_page |-> ValueOr(v1.origin_page, 0),
                           name |-> GrpcNameToPb(v1.name),
                           note_data |-> IF v1.note_data = << >> THEN [entries |-> << >>]
                                         ELSE v1.note_data[1],
                           assets |-> ValueOr(v1.assets, 0)]]>>
BadNote(note) ==
  /\ note # << >> /\ note[1].note_version # << >>
  /\ note[1].note_version[1].case = "v1"
  /\ BadName(note[1].note_version[1].content.name)

BalanceEntryToPb(entry) ==
  [note |-> GrpcNoteToPb(entry.note), name |-> GrpcNameToPb(entry.name)]

(* grpcBalanceToPb: entries with neither a name nor a note are left out.   *)
(* The page token is in the object; the client does not return it.         *)
FilledEntries(balance) ==
  SelectSeq(balance.notes, LAMBDA e : e.name # << >> \/ e.note # << >>)

GrpcBalanceToPb(balance) ==
  [notes |-> [i \in DOMAIN FilledEntries(balance) |->
                BalanceEntryToPb(FilledEntries(balance)[i])],
   block_id |-> GrpcHashToDigest(balance.block_id),
   height |-> IF balance.height = << >> THEN << >> ELSE balance.height[1].value,
   page |-> IF balance.page = << >> THEN << >> ELSE balance.page[1].next_page_token]

BadBalance(balance) ==
  \/ BadHash(balance.block_id)
  \/ \E e \in Range(FilledEntries(balance)) : BadName(e.name) \/ BadNote(e.note)

-----------------------------------------------------------------------------
(* proto/note.ts noteFromProtobuf and noteToProtobuf. *)

(* What a message calls coinbase is not seen here, where it is is_coinbase. *)
LegacySource(source) ==
  [hash |-> IF source = << >> THEN << >> ELSE source[1].hash,
   is_coinbase |-> IF source # << >> /\ "is_coinbase" \in DOMAIN source[1]
                   THEN source[1].is_coinbase ELSE <<0>>]

(* A legacy note keeps the form its name has, and no timelock. *)
NoteFromProtobuf(pb) ==
  IF "V1" \in DOMAIN pb
  THEN [version |-> pb.V1.version, origin_page |-> pb.V1.origin_page,
        name |-> pb.V1.name[1], note_data |-> NoteDataOf(pb.V1.note_data),
        assets |-> pb.V1.assets]
  ELSE [version |-> ValueOr(pb.Legacy.version, 0),
        origin_page |-> pb.Legacy.origin_page[1].value[1],
        name |-> pb.Legacy.name[1], sig |-> pb.Legacy.lock,
        source |-> LegacySource(pb.Legacy.source), assets |-> pb.Legacy.assets[1].value[1]]

NoteMissesParts(pb) ==
  IF "V1" \in DOMAIN pb
  THEN \/ pb.V1.name = << >> \/ pb.V1.version \notin {0, 1}
       \/ \E e \in Range(pb.V1.note_data.entries) : ~NounIsBased(Cue(e.blob[1]))
  ELSE \/ pb.Legacy.origin_page = << >> \/ pb.Legacy.name = << >>
       \/ pb.Legacy.assets = << >> \/ ValueOr(pb.Legacy.version, 0) \notin {0, 1}

NoteToProtobuf(note) ==
  IF "sig" \notin DOMAIN note
  THEN [V1 |-> [version |-> note.version, origin_page |-> note.origin_page,
                name |-> <<note.name>>, note_data |-> NoteDataMessage(note.note_data),
                assets |-> note.assets]]
  ELSE [Legacy |-> [version |-> Box(note.version), origin_page |-> Box(note.origin_page),
                    name |-> <<note.name>>, lock |-> note.sig, source |-> <<note.source>>,
                    assets |-> Box(note.assets)]]
=============================================================================
