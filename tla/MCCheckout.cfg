SPECIFICATION Spec
CONSTANTS
  t1 = t1
  t2 = t2
  k1 = k1
  k2 = k2
  NoKey = NoKey
  Tabs = {t1}
  Keys = {k1, k2}
  Amount <- TwoAndOne
  Cash = {k1}
  MaxSends = 2
  MaxLines = 2
INVARIANTS  SettlementStands NoMoneyOnCancelled
PROPERTIES VerdictsArePromised
CHECK_DEADLOCK FALSE
