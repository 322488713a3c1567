\* Requests no larger than a page, on a device that counts pages.
SPECIFICATION TlsfSpec
CONSTANTS
  Total = 20
  Requests <- MCRequests
  Granularities = {4}
  MaxAllocs = 4
  WithinPage = TRUE
  Shift = 2
  SecondLevel = 2
  MaxLow = 2
PROPERTIES
  TlsfIsHeap
