CONSTANTS
  Call = {k1}
  Claim = {"paid", "forged", "next"}
  IdOf <- MCIdOf
  AgentOf <- MCAgentOf
  KeyOf <- MCKeyOf
  NonceOf <- MCNonceOf
  SeqOf <- MCSeqOf
  Human <- MCHuman
  Fresh = {"next"}
  Poller = {"gateway", "request"}
  MaxApprovals = 1
  MaxCrashes = 1
SPECIFICATION UpSpec
PROPERTIES StartsServe
CHECK_DEADLOCK FALSE
