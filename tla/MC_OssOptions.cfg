CONSTANTS
  Hosts <- MCHosts
  OptionLists <- MCOptionLists
SPECIFICATION Spec
INVARIANT OptionsAsSpecified
CHECK_DEADLOCK FALSE
