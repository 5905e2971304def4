SPECIFICATION Spec
CONSTANTS
  Threads = {t1, t2}
  Customers = {c1, c2}
  Items = {i1, i2}
  DIST_PER_WARE = 2
  Undelivered <- OneAndNone
  Levels = {"RR", "RC"}
  MaxLines = 2
  MaxEvents = 3
  NoItem = NoItem
  NoRow = NoRow
SYMMETRY Symmetry
INVARIANTS TypeOK MoneyAgrees OrdersAgree DeliveryAgrees BalancesAgree NoRowMissing
CHECK_DEADLOCK FALSE
