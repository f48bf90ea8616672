SPECIFICATION Spec
CONSTANTS
  Rates = {1, 2, 3}
  Invoices = {1, 2}
  Orders = {1, 2}
  Absent = Absent
  Words = Words
  Automatic = Automatic
  po1 = po1
  PO1 = PO1
  po2 = po2
  References = {po1, PO1, po2}
  Normal <- Upper
  NetDaysLimit = 2
  NoticeLimit = 2
  Piles <- Topics
  Stated <- Facts
INVARIANT RateInForceIsBilled
PROPERTIES LaterRatesDoNotMatter  OrdersOnlyClear
CHECK_DEADLOCK FALSE
