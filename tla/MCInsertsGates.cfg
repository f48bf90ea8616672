SPECIFICATION Spec
CONSTANTS
  g1 = g1
  g2 = g2
  g3 = g3
  k1 = k1
  k2 = k2
  k3 = k3
  Gates = {g1, g2, g3}
  Keys = {k1, k2, k3}
  Orders <- Proposals
  Rank <- ByRank
  MaxRank = 3
  MaxKills = 1
INVARIANTS TypeOK EveryProposalStands OrderedGatesNeverFail
PROPERTIES GatesPresentAtOnce GatesEnd
CHECK_DEADLOCK FALSE
