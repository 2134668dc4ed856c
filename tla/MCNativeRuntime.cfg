CONSTANTS
  max_sequences = 2
  token_capacity = 32
  GenerationModulus = 8
  StartMarker <- MCStart
  EndMarker <- MCEnd
  reasoning_budget = 2
  final_budget = 2
  total_budget = 4
  EOG = "EOG"
  TokenBytes <- MCTokenBytes
  byte_budget = 3
  max_entries = 2
  MIN_PREFIX_CACHE_TOKENS = 1
  Requests <- MCRequests
  PromptOf <- MCPromptOf
  ScopeOf <- MCScopeOf
  SessionOf <- MCSessionOf
  CommitOf <- MCCommitOf
  PrefixOf <- MCPrefixOf
  Parents = {0, 1}
  SampledTokens = {"m", "t", "EOG"}
  sequence_context_tokens = 16
  prefill_chunk_tokens = 2
  decode_quantum_tokens = 3
  max_decode_batch = 2
  tick_token_budget = 6
  PREFIX_CACHE_CHECKPOINT_TOKENS = 2
  MaxOpens = 3
  MaxFaults = 1
SPECIFICATION Spec
INVARIANTS KvMatches EngineAgrees SnapshotsFaithful CompletionIsWhole
CHECK_DEADLOCK FALSE
