SPECIFICATION PipelineFairSpec
CONSTANTS
  Deliveries = {d1}
  MaxFiles = 1
  MaxRecords = 2
  MaxRuns = 1
PROPERTIES CodeIsAnalysed
