CONSTANTS
  Fds = {3, 4, 5, 6, 7, 8}
  RxWired = TRUE
  TxWired = TRUE
  RxWireless = TRUE
  LocalPlay = FALSE
  EventsFail = FALSE
SPECIFICATION FairSpec
PROPERTIES Redistributes
