\* Two workers, and no alembic directory, as in the repository.
CONSTANTS
  Workers = {w1, w2}
  Migrations = FALSE
SPECIFICATION FairSpec
PROPERTY EveryWorkerServes
