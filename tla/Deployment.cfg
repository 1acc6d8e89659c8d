\* A rolling deployment: an old container restarts beside two new ones, with
\* three failures or kills.
CONSTANTS
  old = old
  new1 = new1
  new2 = new2
  Apps = {old, new1, new2}
  Head <- TwoImages
  MaxFaults = 3
SPECIFICATION FairSpec
INVARIANTS TypeOK OneMigratesAtATime ServesMigrated
PROPERTY NewestServe
CHECK_DEADLOCK FALSE
