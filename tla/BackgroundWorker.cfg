SPECIFICATION FairSpec
CONSTANTS
  s1 = s1
  s2 = s2
  export = export
  plugin = plugin
  loop = loop
  adapterName = adapterName
  exportName = exportName
  pluginName = pluginName
  loopName = loopName
  NoJob = NoJob
  Jobs <- MCJobs
  Names <- MCNames
  NameOf <- MCNameOf
  Endless <- MCEndless
  Fragile <- MCFragile
  Workers = {w1, w2}
  QueueSize = 1
INVARIANTS TypeOK UnfinishedCount ActiveIsHeld
PROPERTIES SkipIsJustified QueuedJobsRun StopReturns ImplementsPool
CHECK_DEADLOCK FALSE
