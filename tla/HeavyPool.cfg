\* The pipelines that compete: for CPU permits, for the GPU token, and for the
\* handle of the enhancement worker.
SPECIFICATION FairSpec
CONSTANTS
  Cpu = 2
  Cores = 2
  Dispatcher = d
  Tasks = {k1, k2}
  Exotics = {e1}
  Prepare = p
  Infer = i
  Enhancers = {h1, h2}
  Previews = {h2}
  Teams = {{d, e1}, {p, i, h1}, {h1, h2}}
  Activities = {"idle", "scanning", "interacting"}
INVARIANTS PermitsConserved NoTicketLeaks IdleHoldsNothing NobodyWaitsInVain
PROPERTIES PoolsAreFair WaitsEnd StopsEnd
CHECK_DEADLOCK FALSE
