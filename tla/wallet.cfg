CONSTANTS
  spender = spender
  opponent = opponent
  Player = {spender, opponent}
  Deposits = {d1}
  Withdrawals = {w1}
  Owner <- FirstOwner
  Amount = 5
  Stake = 5
  Opening = 5
  MaxDeliveries = 2
  MaxCrashes = 1
  Settlements = {g1, g2}
SYMMETRY SettlementSymmetry
SPECIFICATION Spec
INVARIANTS
  WalletTypeOK
  NoOverdraft
  PayoutsAreDeducted
  ReturnedOnce
  RecordsExplainBalance
  PotIsShared
PROPERTIES
  SettledOnce
CHECK_DEADLOCK FALSE
