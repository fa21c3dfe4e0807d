SPECIFICATION Spec
CONSTANTS
  Publishers = {p1}
  Topics = {a, b}
  NoTopic = NoTopic
  PrefixOf <- PrefixFreePairs
  AliasModulus = 4
  TxMaxes = {1, 2}
  RxMax = 1
  Connectors = {"recv"}
  BrokerRebinds = FALSE
INVARIANTS TypeOK NeverWrongTopic RxRightTopic
SYMMETRY Symmetry
