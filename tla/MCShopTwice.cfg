SPECIFICATION MCSpec
CONSTANTS
  Parts = {"received", "issued"}
  r1 = r1
  r2 = r2
  t1 = t1
  c1 = c1
  s1 = s1
  Receipts = {r1, r2}
  Price <- MCPrice
  Freight <- MCFreight
  BuyMethods = {"last_purchase", "average"}
  MaxBuy = 2
  MaxSold = 1
  Transfers = {t1}
  Counts = {c1}
  Sales = {s1}
  Methods = {"average", "fifo"}
  Costs = {4, 11}
  MaxQty = 2
  MaxArrived = 2
  MaxLost = 1
  d1 = d1
  d2 = d2
  p1 = p1
  p2 = p2
  w1 = w1
  w2 = w2
  q1 = q1
  q2 = q2
  k1 = k1
  k2 = k2
  in1 = in1
  out1 = out1
  None = None
  Shifts = {d1, d2}
  UserOf <- MCUserOf
  Pos = {p1, p2}
  Sites = {w1, w2}
  Known = {p1, p2}
  Returns = {q1, q2}
  Limit = 1
  MaxUnits = 2
  MaxCash = 2
  LastDay = 2
  Taken = {in1}
  Given = {out1}
  Keys = {k1, k2}
  MaxCrash = 1
  j1 = j1
  j2 = j2
  Jobs = {j1, j2}
  First = First
  Absent = Absent
  MaxFaults = 2
  MaxDeaths = 2
INVARIANT MoveOnce
CHECK_DEADLOCK FALSE
