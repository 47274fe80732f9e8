SPECIFICATION Spec
CONSTANTS
  m1 = m1
  ping = ping
  shutdown = shutdown
  other = other
  system = system
  remote = remote
  rival = rival
  third = third
  w1 = w1
  w2 = w2
  w3 = w3
  w4 = w4
  w5 = w5
  NoPlugin = NoPlugin
  Messages <- MCMessages
  Calls <- MCMessages
  Plugins <- MCPlugins
  Words <- MCWords
  System = system
  Remote = remote
  Overlap = FALSE
  Probed <- MCProbed
  Ping = ping
  Shutdown = shutdown
  BootOrder <- MCBootOrder
  Declared <- MCDeclared
  MaxCaps = 2
  HighWater = 1
INVARIANTS TypeOK RegistryTrue BooksBalance NoneForgotten StopLeavesNothing
PROPERTIES StopReturns ImplementsCalls
CHECK_DEADLOCK FALSE
