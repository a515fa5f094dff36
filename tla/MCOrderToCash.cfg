CONSTANTS
  r1 = r1
  r2 = r2
  i1 = i1
  i2 = i2
  s1 = s1
  s2 = s2
  Requests <- MCRequests
  Invoices <- MCInvoices
  InvoiceTotal = 1
  Shipments <- MCShipments
  MaxOrdered = 2
  Given <- MCGiven
  MaxShipped = 2
  Limit = 1
  MaxTotal = 2
SPECIFICATION ScenesSpec
SYMMETRY Symmetric
INVARIANTS
  PastDraftWasTested
PROPERTIES
  HeldOrderNotConfirmed
  CreditFollowsInvoices
  DeliveriesCountedOnce
  OrderNotExceeded
  BilledOnce
CHECK_DEADLOCK FALSE
