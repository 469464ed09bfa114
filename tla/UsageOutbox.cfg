SPECIFICATION FairSpec
CONSTANTS
  Procs = {p, q}
  Commands <- CommandLines
  MaxEvents = 2
  BatchSize = 2
INVARIANT TypeOK
INVARIANT SentImpliesAccepted
PROPERTY Delivers
PROPERTY EventuallySent
