\* Two users of the handle, two Sleeps, Destroy and Stop, over one connection.
SPECIFICATION FairSpec
CONSTANTS
  Users = {u1, u2}
  Sleeper = sleeper
  Destroyer = destroyer
  Stopper = stopper
  Nobody = nobody
  Dead = dead
  Ids = {1}
  MaxOps = 2
  MaxSleeps = 2
  MaxTx = 1
  MayBreak = TRUE
INVARIANTS TypeOK OwnResponse EndedOnce  ClosedIdle
PROPERTIES DrainsComplete
