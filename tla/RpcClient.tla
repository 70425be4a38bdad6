------------------------------- MODULE RpcClient -------------------------------
(***************************************************************************)
(* The RPC client (rpc/client.ts), its requests and answers (grpc/rpc.ts)  *)
(* and the gRPC-web transport (grpc/transport.ts), with what is on the     *)
(* other side of fetch: a network that loses, refuses and cuts, and a node *)
(* that takes transactions, mines them and answers questions.  The node    *)
(* and the network are outside this repository.                            *)
(*                                                                         *)
(* Calls are promises: any number may be under way, and the node goes on   *)
(* while they are.  fetch has no timeout here, and nothing is retried; a   *)
(* caller whose call threw may call again.                                 *)
(***************************************************************************)
EXTENDS TxMessages, NoteProto

CONSTANTS
  Asks,         \* the calls there are, each with the questions it may ask
  Ledger,       \* the notes under each address and first name, by height
  PageSize,     \* notes in one answer of the node
  Cuts,         \* bound: how many units of a body may arrive, if not all
  MaxAttempts,  \* bound on how often a caller asks
  MaxBlocks     \* bound on the height of the chain

VARIABLES
  call,         \* of each call: its stage and what is on the wire
  held,         \* the transactions the node has taken, as it reads them
  blocks        \* the ids of the transactions in each block

vars == <<call, held, blocks>>

-----------------------------------------------------------------------------
(* grpc/transport.ts                                                       *)

(* Mutant: as if no message were longer than a byte can say. *)
GrpcWebFrameOfByte(message) == <<0, 0, 0, 0, Len(message) % 256>> \o message

GrpcWebFrame(message) ==
  LET n == Len(message)
  IN  <<0, n \div 2 ^ 24, (n \div 2 ^ 16) % 256, (n \div 256) % 256, n % 256>> \o message

FrameLength(body, off) ==
  2 ^ 24 * body[off + 2] + 2 ^ 16 * body[off + 3] + 256 * body[off + 4] + body[off + 5]

(* Every frame is a message, trailers too; a frame may be cut short.       *)
RECURSIVE UnwrapFrom(_, _)
UnwrapFrom(body, off) ==
  IF off + 5 > Len(body) THEN << >>
  ELSE LET end == off + 5 + FrameLength(body, off)
           stop == IF end < Len(body) THEN end ELSE Len(body)
       IN  <<SubSeq(body, off + 6, stop)>> \o UnwrapFrom(body, end)
UnwrapGrpcWebFrames(body) == UnwrapFrom(body, 0)

Threw(why) == [threw |-> TRUE, why |-> why]
Returned(value) == [threw |-> FALSE, value |-> value]

(* grpcWebCall: a status in the header counts only if there is no body.    *)
GrpcWebCall(response) ==
  IF ~response.ok THEN Threw("http")
  ELSE IF response.status # 0 /\ response.body = << >> THEN Threw("grpc")
  ELSE Returned(response.body)

-----------------------------------------------------------------------------
(* grpc/rpc.ts: requests.  A question is a record with its method.         *)

FirstPage(limit) ==
  <<[client_page_items_limit |-> <<limit>>, page_token |-> << << >> >>, max_bytes |-> <<0>>]>>

SendRequest(tx) ==
  [tx_id |-> <<DigestToGrpcHash(tx.id)>>, raw_tx |-> <<RawTxV1ToGrpc(tx)>>]

AcceptedRequest(id) == [tx_id |-> <<[hash |-> <<id.text>>]>>]

BalanceRequest(selector, text) ==
  [selector |-> <<[case |-> selector,
                   content |-> IF selector = "address" THEN [key |-> <<text>>]
                               ELSE [hash |-> <<text>>]]>>,
   page |-> FirstPage(0)]

BlocksRequest(limit) == [page |-> FirstPage(limit)]

RequestType(ask) ==
  CASE ask.method = "send" -> Public2!WalletSendTransactionRequest
    [] ask.method = "accepted" -> Public2!TransactionAcceptedRequest
    [] ask.method = "balance" -> Public2!WalletGetBalanceRequest
    [] ask.method = "blocks" -> Public2!GetBlocksRequest

RequestFor(ask) ==
  CASE ask.method = "send" -> SendRequest(ask.tx)
    [] ask.method = "accepted" -> AcceptedRequest(ask.id)
    [] ask.method = "balance" -> BalanceRequest(ask.selector, ask.text)
    [] ask.method = "blocks" -> BlocksRequest(ask.limit)

EncodeRequest(ask) == GrpcWebFrame(Encode(RequestType(ask), RequestFor(ask)))

ResponseType(ask) ==
  CASE ask.method = "send" -> Public2!WalletSendTransactionResponse
    [] ask.method = "accepted" -> Public2!TransactionAcceptedResponse
    [] ask.method = "balance" -> Public2!WalletGetBalanceResponse
    [] ask.method = "blocks" -> Public2!GetBlocksResponse

-----------------------------------------------------------------------------
(* grpc/rpc.ts: answers, and what rpc/client.ts makes of them.             *)

NoBlocks == [currentHeight |-> 0, blocks |-> << >>]

BlockOf(entry) ==
  [height |-> entry.height[1], blockId |-> GrpcHashToDigest(entry.block_id),
   parent |-> IF entry.parent = << >> THEN << >> ELSE <<GrpcHashToDigest(entry.parent)>>,
   timestamp |-> entry.timestamp[1],
   txIds |-> Mapped(entry.tx_ids, LAMBDA h : Text(h.hash[1]))]

BlocksAnswer(data) ==
  IF \E b \in Range(data.blocks) : BadHash(b.parent) \/ BadHash(b.block_id)
  THEN Threw("decode")
  ELSE Returned([currentHeight |-> data.current_height[1],
                 blocks |-> Mapped(data.blocks, BlockOf)])

(* getBalance and getBalanceByFirstName: the page token is not returned.   *)
BalanceAnswer(balance) ==
  LET pb == GrpcBalanceToPb(balance)
  IN  IF BadBalance(balance) THEN Threw("decode")
      ELSE Returned([notes |-> pb.notes, block_id |-> pb.block_id, height |-> pb.height])

(* Mutant: an answer that is not an error is a success. *)
ResultMissingIsAck(ask) ==
  IF ask.method = "send" THEN Returned("Transaction acknowledged") ELSE Threw("empty")

(* Mutant: no answer to whether a transaction was accepted means no. *)
ResultMissingIsNo(ask) ==
  IF ask.method = "blocks" THEN Returned(NoBlocks)
  ELSE IF ask.method = "accepted" THEN Returned(0)
  ELSE Threw("empty")

(* An answer without a result; for getBlocks it is a page without blocks.  *)
ResultMissing(ask) ==
  IF ask.method = "blocks" THEN Returned(NoBlocks) ELSE Threw("empty")

Answer(ask, result) ==
  IF result = << >> THEN ResultMissing(ask)
  ELSE IF result[1].case = "error" THEN Threw("server")
  ELSE CASE ask.method = "send" -> Returned("Transaction acknowledged")
         [] ask.method = "accepted" -> Returned(result[1].content)
         [] ask.method = "balance" -> BalanceAnswer(result[1].content)
         [] ask.method = "blocks" -> BlocksAnswer(result[1].content)

(* decodeFirstFrame and the decoder after it. *)
DecodeAnswer(ask, body) ==
  LET frames == UnwrapGrpcWebFrames(body)
      read == Decode(ResponseType(ask), frames[1])
  IN  IF frames = << >> THEN Threw("empty")
      ELSE IF read.failed THEN Threw("decode")
      ELSE Answer(ask, read.message.result)

-----------------------------------------------------------------------------
(* The node (outside this repository).                                     *)

Height == Len(blocks)
Mined(height) == UNION {Range(blocks[h]) : h \in 1..height}
NotesAt(selector, text, height) == Ledger[selector][text][height]

LeastOf(a, b) == IF a < b THEN a ELSE b

BlockId(height) == Text([i \in 1..5 |-> height])

NoteMessage(note) ==
  IF "sig" \in DOMAIN note
  THEN [note_version |-> <<[case |-> "legacy", content |->
          [origin_page |-> Box(note.origin_page), name |-> <<NameToGrpcName(note.name)>>,
           lock |-> note.sig, source |-> note.source, assets |-> Box(note.assets),
           version |-> Box(note.version)]]>>]
  ELSE [note_version |-> <<[case |-> "v1", content |->
          [version |-> Box(note.version), origin_page |-> Box(note.origin_page),
           name |-> <<NameToGrpcName(note.name)>>,
           note_data |-> <<NoteDataMessage(note.note_data)>>, assets |-> Box(note.assets)]]>>]

(* The first page of the notes at the height of the chain. *)
BalanceMessage(selector, text) ==
  LET notes == NotesAt(selector, text, Height)
  IN  [notes |-> [i \in 1..LeastOf(PageSize, Len(notes)) |->
                    [name |-> <<NameToGrpcName(notes[i].name)>>, note |-> <<NoteMessage(notes[i])>>]],
       height |-> Box(Height), block_id |-> <<DigestToGrpcHash(BlockId(Height))>>,
       page |-> <<[next_page_token |-> <<IF Len(notes) > PageSize THEN <<1>> ELSE << >> >>]>>]

(* The latest blocks, the latest first; the first of all has no parent.    *)
BlocksMessage(limit) ==
  [blocks |-> [i \in 1..LeastOf(limit, Height) |->
     LET h == Height + 1 - i
     IN  [block_id |-> <<DigestToGrpcHash(BlockId(h))>>, height |-> <<h>>,
          parent |-> IF h = 1 THEN << >> ELSE <<DigestToGrpcHash(BlockId(h - 1))>>,
          timestamp |-> <<10 * h>>,
          tx_ids |-> Mapped(blocks[h], LAMBDA id : [hash |-> <<id.text>>])]],
   current_height |-> <<Height>>]

Result(case, value) == [result |-> <<[case |-> case, content |-> value]>>]
NodeError == Result("error", [code |-> <<3>>, message |-> << <<4>> >>])

(* The answer to a request that the node read and does not refuse.         *)
NodeAnswer(ask, request) ==
  CASE ask.method = "send" -> Result("ack", [p \in {} |-> << >>])
    [] ask.method = "accepted" ->
         Result("accepted", IF Text(request.tx_id[1].hash[1]) \in Mined(Height) THEN 1 ELSE 0)
    [] ask.method = "balance" ->
         LET selector == request.selector[1]
         IN  Result("balance",
               BalanceMessage(selector.case, IF selector.case = "address" THEN selector.content.key[1]
                                             ELSE selector.content.hash[1]))
    [] ask.method = "blocks" ->
         Result("blocks", BlocksMessage(request.page[1].client_page_items_limit[1]))

Trailers == <<128, 0, 0, 0, 2, 103, 114>>   \* "grpc-status..." as a frame

NewerResult == <<8 * 15 + 2, 0>>   \* a result this code does not know

-----------------------------------------------------------------------------
Idle == [stage |-> "idle"]

Init ==
  /\ call = [c \in DOMAIN Asks |-> Idle]
  /\ held = {} /\ blocks = << << >> >>

Attempts(c) == IF call[c] = Idle THEN 0 ELSE call[c].attempts

(* A caller calls a method of the client, or once more if that threw.      *)
Ask(c, ask) ==
  /\ \/ call[c] = Idle
     \/ /\ call[c].stage = "settled" /\ call[c].answer.threw
        /\ call[c].ask = ask /\ call[c].attempts < MaxAttempts
  /\ call' = [call EXCEPT ![c] =
       [stage |-> "asked", ask |-> ask, request |-> EncodeRequest(ask),
        since |-> Height, attempts |-> Attempts(c) + 1]]
  /\ UNCHANGED <<held, blocks>>

Responded(c, ok, status, body) ==
  [call EXCEPT ![c] = [stage |-> "answered", ask |-> call[c].ask, since |-> call[c].since,
                       attempts |-> call[c].attempts, whole |-> TRUE,
                       response |-> [ok |-> ok, status |-> status, body |-> body]]]

Settled(c, answer) ==
  [call EXCEPT ![c] =
     [stage |-> "settled", ask |-> call[c].ask, attempts |-> call[c].attempts,
      answer |-> answer, heights |-> IF answer.threw THEN {} ELSE call[c].since..Height]]

(* The node answers; a transaction it reads is held unless it refuses.     *)
NodeAnswers(c) ==
  LET ask == call[c].ask
      frame == SubSeq(call[c].request, 6, Len(call[c].request))
      read == Decode(RequestType(ask), frame)
      body == GrpcWebFrame(Encode(ResponseType(ask), NodeAnswer(ask, read.message)))
  IN  /\ call[c].stage = "asked" /\ ~read.failed
      /\ held' = IF ask.method = "send"
                 THEN held \union {NodeReads(read.message.raw_tx[1])} ELSE held
      /\ call' = Responded(c, TRUE, 0, body \o Trailers)
      /\ UNCHANGED blocks

(* It refuses, in a message or by a status and no message, or in a way     *)
(* newer than this code; or something before it does.                      *)
NodeRefuses(c) ==
  LET ask == call[c].ask
  IN  /\ call[c].stage = "asked"
      /\ call' \in {Responded(c, TRUE, 3, GrpcWebFrame(Encode(ResponseType(ask), NodeError))),
                    Responded(c, TRUE, 3, << >>), Responded(c, TRUE, 3, Trailers),
                    Responded(c, TRUE, 0, GrpcWebFrame(NewerResult)),
                    Responded(c, FALSE, 0, << >>)}
      /\ UNCHANGED <<held, blocks>>

(* fetch rejects; the request may have got through, or not.                *)
Lost(c) ==
  /\ call[c].stage \in {"asked", "answered"}
  /\ call' = Settled(c, Threw("network"))
  /\ UNCHANGED <<held, blocks>>

(* A body that ends early. *)
Cut(c, length) ==
  /\ call[c].stage = "answered" /\ call[c].whole
  /\ length < Len(call[c].response.body)
  /\ call' = [call EXCEPT ![c].response.body = SubSeq(@, 1, length), ![c].whole = FALSE]
  /\ UNCHANGED <<held, blocks>>

(* The promise of the call is settled. *)
Settle(c) ==
  LET body == GrpcWebCall(call[c].response)
  IN  /\ call[c].stage = "answered"
      /\ call' = Settled(c, IF body.threw THEN body
                            ELSE DecodeAnswer(call[c].ask, body.value))
      /\ UNCHANGED <<held, blocks>>

(* A block with some of the transactions the node holds. *)
Mine(txs) ==
  /\ Height < MaxBlocks
  /\ blocks' = Append(blocks, SetToSeq({tx.id : tx \in txs}))
  /\ \A tx \in txs : tx.id \notin Mined(Height)
  /\ UNCHANGED <<call, held>>

Next ==
  \/ \E c \in DOMAIN Asks :
       \/ \E ask \in Asks[c] : Ask(c, ask)
       \/ NodeAnswers(c) \/ NodeRefuses(c) \/ Lost(c) \/ Settle(c)
       \/ \E length \in Cuts : Cut(c, length)
  \/ \E txs \in SUBSET held : Mine(txs)

Spec == Init /\ [][Next]_vars

-----------------------------------------------------------------------------
Done(c) == call[c] # Idle /\ call[c].stage = "settled"
Answered(c) == Done(c) /\ ~call[c].answer.threw

(* A request is one frame that says how long it is. *)
IsFrame(request) ==
  LET frames == UnwrapGrpcWebFrames(request)
  IN  Len(frames) = 1 /\ Len(frames[1]) = Len(request) - 5

TypeInvariant ==
  /\ \A c \in DOMAIN Asks :
       \/ call[c] = Idle
       \/ /\ call[c].stage \in {"asked", "answered", "settled"}
          /\ call[c].ask \in Asks[c] /\ call[c].attempts \in 1..MaxAttempts
          /\ call[c].stage = "asked" => IsFrame(call[c].request)
  /\ Height \in 1..MaxBlocks
  /\ Mined(Height) \subseteq {tx.id : tx \in held}

Sends == {ask \in UNION Range(Asks) : ask.method = "send"}

(* A call that returns that the transaction is acknowledged has brought    *)
(* it, as it is, to a node that has taken it; whatever was cut, lost or    *)
(* sent again on the way (sendTransaction).                                *)
AcknowledgedIsHeld ==
  /\ \A c \in DOMAIN Asks :
       Answered(c) /\ call[c].ask.method = "send" => AsSent(call[c].ask.tx) \in held
  /\ held \subseteq {AsSent(ask.tx) : ask \in Sends}

(* What a note in an answer becomes; a legacy one keeps its name in belts, *)
(* and has no coinbase.                                                    *)
AsRead(note) ==
  IF "sig" \notin DOMAIN note THEN note
  ELSE [note EXCEPT !.name = NameToGrpcName(@),
                    !.source = [hash |-> @[1].hash, is_coinbase |-> <<0>>]]

IsNote(pb, note) ==
  /\ NoteMissesParts(pb) <=>
       "note_data" \in DOMAIN note /\ \E d \in Range(note.note_data) : ~NounIsBased(d.noun)
  /\ ~NoteMissesParts(pb) =>
       LET read == NoteFromProtobuf(pb)
       IN  read = AsRead(note) /\ NoteFromProtobuf(NoteToProtobuf(read)) = read
  /\ "V1" \in DOMAIN pb => NoteToProtobuf(note) = pb

WasBalance(balance, ask, height) ==
  LET notes == NotesAt(ask.selector, ask.text, height)
  IN  /\ balance.height = <<height>> /\ balance.block_id = BlockId(height)
      /\ Len(balance.notes) = LeastOf(PageSize, Len(notes))
      /\ \A i \in DOMAIN balance.notes :
            /\ balance.notes[i].name = <<notes[i].name>>
            /\ IsNote(balance.notes[i].note[1], notes[i])

WasChain(answer, limit, height) ==
  /\ answer.currentHeight = height
  /\ Len(answer.blocks) = LeastOf(limit, height)
  /\ \A i \in DOMAIN answer.blocks :
       LET h == height + 1 - i
       IN  answer.blocks[i] =
             [height |-> h, blockId |-> BlockId(h), timestamp |-> 10 * h, txIds |-> blocks[h],
              parent |-> IF h = 1 THEN << >> ELSE <<BlockId(h - 1)>>]

(* What a call returns was so at the node at one moment while the call was *)
(* under way: no answer is stale, mixed of two moments or cut short.  The  *)
(* first page of a balance is returned as the balance; and getBlocks       *)
(* returns no blocks and height 0 when the answer has no result it knows   *)
(* (getBalance, transactionAccepted, getBlocks).                           *)
AnswersWereTrue ==
  \A c \in DOMAIN Asks :
    Answered(c) =>
      LET ask == call[c].ask
          value == call[c].answer.value
      IN  \/ ask.method = "send"
          \/ ask.method = "blocks" /\ value = NoBlocks
          \/ \E h \in call[c].heights :
               CASE ask.method = "accepted" -> (value = 1) <=> ask.id \in Mined(h)
                 [] ask.method = "balance" -> WasBalance(value, ask, h)
                 [] OTHER -> WasChain(value, ask.limit, h)
=============================================================================
