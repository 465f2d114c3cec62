SPECIFICATION FairSpec
CONSTANTS
  Deliveries = {d1, d2}
  MaxFiles = 2
INVARIANTS TypeOK InOrderOnce CountsArePublished GracefulShutdown
PROPERTIES DeliveriesEnd ShutdownEnds
