SPECIFICATION FairSpec
CONSTANTS
  Sockets = {s1, s2, s3}
  MaxOrphans = 2
INVARIANTS NeverGivesUp ConnectedMeansOpen
PROPERTY Reopens
