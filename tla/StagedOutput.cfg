SPECIFICATION Spec
CONSTANTS
  main = main
  h1 = h1
  h2 = h2
  SIGINT = SIGINT
  SIGTERM = SIGTERM
  SIGHUP = SIGHUP
  Main = main
  Helpers = {h1, h2}
  Signals = {SIGINT, SIGTERM, SIGHUP}
  MaxSignals = 1
INVARIANTS
  StagingRemoved
  SignalNotOutrun
PROPERTY PublishesAtomically
