\* Two workers, with migrations to run.
CONSTANTS
  Workers = {w1, w2}
  Migrations = TRUE
SPECIFICATION FairSpec
INVARIANTS DeploymentInv NothingLeftOpen NeverStuck
PROPERTY StopEnds
