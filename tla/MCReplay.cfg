CONSTANTS
  Call = {k1, k2, k3}
  Claim = {"paid", "forged", "next"}
  IdOf <- MCIdOf
  AgentOf <- MCAgentOf
  KeyOf <- MCKeyOf
  NonceOf <- MCNonceOf
  SeqOf <- MCSeqOf
  Human <- ReplayHuman
  Fresh = {"next"}
  Poller = {"gateway"}
  MaxApprovals = 1
  MaxCrashes = 0
SPECIFICATION ReplaySpec
INVARIANTS ReplayRevalidated
CHECK_DEADLOCK FALSE
