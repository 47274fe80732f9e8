SPECIFICATION Spec
CONSTANTS
  Rules <- MCRules
  NameOf <- MCNameOf
  Saved <- MCSaved
  EventOf <- MCEventOf
  Debounced <- MCDebounced
  TriggerOf <- MCTriggerOf
  NFlows = 2
  Threshold = 2
  Slots = 3
  MaxRuns = 9
  MaxInputs = 1
  MaxChanges = 2
INVARIANTS TypeOK OncePerInterval EveryRuleHears QuietMeansDisabled RunsAccounted ChainIsBounded
PROPERTIES ImplementsRuns
CHECK_DEADLOCK FALSE
