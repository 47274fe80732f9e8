SPECIFICATION BootSpec
CONSTANTS
  plugin = plugin
  backup = backup
  metrics = metrics
  reenable = reenable
  prune = prune
  export = export
  NoJob = NoJob
  Jobs <- MCJobs
  Names <- MCJobs
  NameOf <- MCNameOf
  Endless <- MCEndless
  Fragile = {}
  Workers = {w1, w2}
  QueueSize = 6
  BootJobs <- MCBoot
  Requests = {export}
PROPERTY ExportEnds
CHECK_DEADLOCK FALSE
