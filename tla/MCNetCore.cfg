CONSTANTS
  Fds = {3, 4, 5, 6, 7, 8}
  RxWired = TRUE
  TxWired = TRUE
  RxWireless = TRUE
  LocalPlay = TRUE
  EventsFail = TRUE
SPECIFICATION FairSpec
INVARIANTS EventOnOwnSocket BaseOutlivesEvents ClosedRxRetried
PROPERTIES HupServed StopsWhenTold RxComesBack
