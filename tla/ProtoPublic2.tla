----------------------------- MODULE ProtoPublic2 -----------------------------
(***************************************************************************)
(* The requests and responses of nockchain.public.v2, with what they are   *)
(* made of. One definition per message of the generated code               *)
(* (src/grpc/gen/nockchain/public/v2/nockchain.ts), the sequence of its    *)
(* fields in the order of their numbers, after the messages it is made of; *)
(* ProtoWire says what the functions generated for a message do with them. *)
(***************************************************************************)
EXTENDS ProtoFields

WalletGetBalanceRequest ==
  <<Case("selector", 1, "address", Message("common1", "Base58Pubkey")),
    Case("selector", 2, "first_name", Message("common1", "Base58Hash")),
    Optional(3, "page", Message("common1", "PageRequest"))>>

WalletGetBalanceResponse ==
  <<Case("result", 1, "balance", Message("common2", "Balance")),
    Case("result", 2, "error", Message("common1", "ErrorStatus"))>>

WalletSendTransactionRequest ==
  <<Optional(1, "tx_id", Message("common1", "Hash")),
    Optional(2, "raw_tx", Message("common2", "RawTransaction"))>>

WalletSendTransactionResponse ==
  <<Case("result", 1, "ack", Message("common1", "Acknowledged")),
    Case("result", 2, "error", Message("common1", "ErrorStatus"))>>

TransactionAcceptedRequest == <<Optional(1, "tx_id", Message("common1", "Base58Hash"))>>

TransactionAcceptedResponse ==
  <<Case("result", 1, "accepted", Bool),
    Case("result", 2, "error", Message("common1", "ErrorStatus"))>>

GetBlocksRequest == <<Optional(1, "page", Message("common1", "PageRequest"))>>

BlockEntry ==
  <<Optional(1, "block_id", Message("common1", "Hash")),
    Plain(2, "height", Uint64),
    Optional(3, "parent", Message("common1", "Hash")),
    Plain(4, "timestamp", Uint64),
    Repeated(5, "tx_ids", Message("common1", "Base58Hash"))>>

BlocksData ==
  <<Repeated(1, "blocks", Message("public2", "BlockEntry")),
    Plain(2, "current_height", Uint64),
    Optional(3, "page", Message("common1", "PageResponse"))>>

GetBlocksResponse ==
  <<Case("result", 1, "blocks", Message("public2", "BlocksData")),
    Case("result", 2, "error", Message("common1", "ErrorStatus"))>>

GetTransactionBlockRequest == <<Optional(1, "tx_id", Message("common1", "Base58Hash"))>>

TransactionBlockData ==
  <<Optional(1, "block_id", Message("common1", "Hash")),
    Plain(2, "height", Uint64),
    Optional(3, "parent", Message("common1", "Hash")),
    Plain(4, "timestamp", Uint64)>>

TransactionPending == << >>

GetTransactionBlockResponse ==
  <<Case("result", 1, "block", Message("public2", "TransactionBlockData")),
    Case("result", 2, "pending", Message("public2", "TransactionPending")),
    Case("result", 3, "error", Message("common1", "ErrorStatus"))>>

GetTransactionDetailsRequest == <<Optional(1, "tx_id", Message("common1", "Base58Hash"))>>

TransactionInput ==
  <<Plain(1, "note_name_b58", String),
    Optional(2, "amount", Message("common1", "Nicks")),
    Plain(3, "source_tx_id", String), Plain(4, "coinbase", Bool),
    Repeated(5, "signer_pubkey_b58", String)>>

TransactionOutput ==
  <<Plain(1, "note_name_b58", String),
    Case("amount_required", 2, "amount", Message("common1", "Nicks")),
    Plain(3, "lock_summary", String),
    Optional(4, "note_data", Message("common2", "NoteData"))>>

TransactionDetails ==
  <<Plain(1, "tx_id", String),
    Optional(2, "block_id", Message("common1", "Hash")),
    Plain(3, "height", Uint64), Plain(4, "timestamp", Uint64),
    Plain(5, "version", Uint64), Plain(6, "size_bytes", Uint64),
    Optional(7, "total_input", Message("common1", "Nicks")),
    Case("total_output_required", 8, "total_output",
         Message("common1", "Nicks")),
    Case("fee_required", 9, "fee", Message("common1", "Nicks")),
    Repeated(10, "inputs", Message("public2", "TransactionInput")),
    Repeated(11, "outputs", Message("public2", "TransactionOutput")),
    Optional(12, "parent", Message("common1", "Hash"))>>

GetTransactionDetailsResponse ==
  <<Case("result", 1, "details", Message("public2", "TransactionDetails")),
    Case("result", 2, "pending", Message("public2", "TransactionPending")),
    Case("result", 3, "error", Message("common1", "ErrorStatus"))>>

GetBlockDetailsRequest ==
  <<Case("selector", 1, "height", Uint64),
    Case("selector", 2, "block_id", Message("common1", "Base58Hash"))>>

ProofOfWork == <<Plain(1, "present", Bool), Optional(2, "raw_proof", Bytes)>>

BigNum ==
  <<Plain(1, "display", String), Plain(2, "raw_bytes", Bytes),
    Plain(3, "hex", String)>>

CoinbaseSplitV0Entry ==
  <<Optional(1, "pubkey", Message("common1", "Base58Pubkey")),
    Optional(2, "amount", Message("common1", "Nicks"))>>

CoinbaseSplitV0 ==
  <<Repeated(1, "entries", Message("public2", "CoinbaseSplitV0Entry")),
    Plain(2, "entry_count", Uint32), Plain(3, "note", String)>>

CoinbaseSplitV1Entry ==
  <<Optional(1, "lock_hash", Message("common1", "Base58Hash")),
    Optional(2, "amount", Message("common1", "Nicks"))>>

CoinbaseSplitV1 == <<Repeated(1, "entries", Message("public2", "CoinbaseSplitV1Entry"))>>

CoinbaseSplit ==
  <<Case("version", 1, "v0", Message("public2", "CoinbaseSplitV0")),
    Case("version", 2, "v1", Message("public2", "CoinbaseSplitV1"))>>

PageMsg == <<Plain(1, "raw", Bytes), Plain(2, "decoded", String)>>

BlockDetails ==
  <<Optional(1, "block_id", Message("common1", "Hash")),
    Plain(2, "height", Uint64),
    Optional(3, "parent", Message("common1", "Hash")),
    Optional(4, "pow", Message("public2", "ProofOfWork")),
    Plain(5, "timestamp", Uint64), Plain(6, "epoch_counter", Uint64),
    Optional(7, "target", Message("public2", "BigNum")),
    Optional(8, "accumulated_work", Message("public2", "BigNum")),
    Repeated(9, "tx_ids", Message("common1", "Base58Hash")),
    Optional(10, "coinbase", Message("public2", "CoinbaseSplit")),
    Optional(11, "msg", Message("public2", "PageMsg")),
    Plain(12, "tx_count", Uint32), Plain(13, "has_pow", Bool),
    Plain(14, "version", Uint32), Optional(15, "raw_page_bytes", Uint64)>>

GetBlockDetailsResponse ==
  <<Case("result", 1, "details", Message("public2", "BlockDetails")),
    Case("result", 2, "error", Message("common1", "ErrorStatus"))>>

GetExplorerMetricsRequest == << >>

ExplorerMetrics ==
  <<Plain(1, "cache_height", Uint64), Plain(2, "heaviest_height", Uint64),
    Plain(3, "cache_lowest_height", Uint64), Plain(4, "cache_span", Uint64),
    Plain(5, "cache_coverage_ratio", Double),
    Plain(6, "refresh_age_seconds", Double),
    Plain(7, "backfill_age_seconds", Double), Plain(8, "seed_ready", Bool),
    Plain(9, "seed_time_seconds", Double),
    Plain(10, "backfill_resume_height", Int64),
    Plain(11, "cache_age_seconds", Double),
    Plain(12, "refresh_success_count", Uint64),
    Plain(13, "refresh_error_count", Uint64),
    Plain(14, "backfill_success_count", Uint64),
    Plain(15, "backfill_error_count", Uint64),
    Plain(16, "get_blocks_p50_ms", Double),
    Plain(17, "get_blocks_p90_ms", Double),
    Plain(18, "get_blocks_p99_ms", Double),
    Plain(19, "get_block_details_p50_ms", Double),
    Plain(20, "get_block_details_p90_ms", Double),
    Plain(21, "get_block_details_p99_ms", Double)>>

GetExplorerMetricsResponse ==
  <<Case("result", 1, "metrics", Message("public2", "ExplorerMetrics")),
    Case("result", 2, "error", Message("common1", "ErrorStatus"))>>

GetPeerStatsRequest == << >>

PeerStat ==
  <<Plain(1, "peer_id", String),
    Plain(2, "protocol_generation", PeerReqResGeneration),
    Plain(3, "request_count", Uint64), Plain(4, "bytes_sent", Uint64),
    Plain(5, "bytes_received", Uint64),
    Plain(6, "average_round_trip_ms", Double),
    Plain(7, "average_batch_size", Double),
    Plain(8, "failure_count", Uint64), Plain(9, "timeout_count", Uint64),
    Plain(10, "blocks_received", Uint64),
    Plain(11, "average_block_propagation_ms", Double),
    Plain(12, "connection_duration_seconds", Uint64)>>

PeerStatsData ==
  <<Plain(1, "collected_at_unix_ms", Uint64),
    Repeated(2, "peers", Message("public2", "PeerStat"))>>

GetPeerStatsResponse ==
  <<Case("result", 1, "stats", Message("public2", "PeerStatsData")),
    Case("result", 2, "error", Message("common1", "ErrorStatus"))>>

GetReqResMetricsRequest == << >>

ReqResMetricsData ==
  <<Plain(1, "gen1_outbound_timeouts", Uint64),
    Plain(2, "gen2_outbound_timeouts", Uint64),
    Plain(3, "gen2_batch_requests_sent", Uint64),
    Plain(4, "gen2_batch_requests_received", Uint64),
    Plain(5, "req_res_fallback_total", Uint64),
    Plain(6, "req_res_block_by_height_gen1_routed", Uint64)>>

GetReqResMetricsResponse ==
  <<Case("result", 1, "metrics", Message("public2", "ReqResMetricsData")),
    Case("result", 2, "error", Message("common1", "ErrorStatus"))>>

-----------------------------------------------------------------------------
Messages ==
  [WalletGetBalanceRequest |-> WalletGetBalanceRequest,
   WalletGetBalanceResponse |-> WalletGetBalanceResponse,
   WalletSendTransactionRequest |-> WalletSendTransactionRequest,
   WalletSendTransactionResponse |-> WalletSendTransactionResponse,
   TransactionAcceptedRequest |-> TransactionAcceptedRequest,
   TransactionAcceptedResponse |-> TransactionAcceptedResponse,
   GetBlocksRequest |-> GetBlocksRequest, BlockEntry |-> BlockEntry,
   BlocksData |-> BlocksData, GetBlocksResponse |-> GetBlocksResponse,
   GetTransactionBlockRequest |-> GetTransactionBlockRequest,
   TransactionBlockData |-> TransactionBlockData,
   TransactionPending |-> TransactionPending,
   GetTransactionBlockResponse |-> GetTransactionBlockResponse,
   GetTransactionDetailsRequest |-> GetTransactionDetailsRequest,
   TransactionInput |-> TransactionInput,
   TransactionOutput |-> TransactionOutput,
   TransactionDetails |-> TransactionDetails,
   GetTransactionDetailsResponse |-> GetTransactionDetailsResponse,
   GetBlockDetailsRequest |-> GetBlockDetailsRequest,
   ProofOfWork |-> ProofOfWork, BigNum |-> BigNum,
   CoinbaseSplitV0Entry |-> CoinbaseSplitV0Entry,
   CoinbaseSplitV0 |-> CoinbaseSplitV0,
   CoinbaseSplitV1Entry |-> CoinbaseSplitV1Entry,
   CoinbaseSplitV1 |-> CoinbaseSplitV1, CoinbaseSplit |-> CoinbaseSplit,
   PageMsg |-> PageMsg, BlockDetails |-> BlockDetails,
   GetBlockDetailsResponse |-> GetBlockDetailsResponse,
   GetExplorerMetricsRequest |-> GetExplorerMetricsRequest,
   ExplorerMetrics |-> ExplorerMetrics,
   GetExplorerMetricsResponse |-> GetExplorerMetricsResponse,
   GetPeerStatsRequest |-> GetPeerStatsRequest, PeerStat |-> PeerStat,
   PeerStatsData |-> PeerStatsData,
   GetPeerStatsResponse |-> GetPeerStatsResponse,
   GetReqResMetricsRequest |-> GetReqResMetricsRequest,
   ReqResMetricsData |-> ReqResMetricsData,
   GetReqResMetricsResponse |-> GetReqResMetricsResponse]
=============================================================================
