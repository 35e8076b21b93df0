\* With a backlog of 0 three clients are enough to keep one waiting in connect.
CONSTANTS
  Clients = {c1, c2, c3}
  Queries = {"stat", "exit", "fec_toggle", "fec_set"}
  Stalled = {c1}
  Backlog = 0
  MaxErrors = 1
  IgnoresSigpipe = TRUE
SPECIFICATION FairSpec
PROPERTIES Linearizable ClientReturns ExitObeyed
