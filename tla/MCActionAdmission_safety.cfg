CONSTANTS
  Call = {k1, k2, k3}
  Claim = {"paid", "forged", "next"}
  IdOf <- MCIdOf
  AgentOf <- MCAgentOf
  KeyOf <- MCKeyOf
  NonceOf <- MCNonceOf
  SeqOf <- MCSeqOf
  Human <- MCHuman
  Fresh = {"next"}
  Poller = {"gateway"}
  MaxApprovals = 2
  MaxCrashes = 1
SPECIFICATION UpSpec
INVARIANTS TypeOK ReplayLedgerSound AllowedByHuman TaskFollowsApproval
PROPERTIES DecidedOnce LapsedEnds
CHECK_DEADLOCK FALSE
