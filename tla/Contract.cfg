SPECIFICATION Spec
CONSTANTS
  ChannelName = {news, sport, blank}
  WhitespaceName = {blank}
  EmptyName = EmptyName
  Content = {p1}
  Fd = {c1, c2}
  ServerFd = ServerFd
  MaxChannels = 3
SYMMETRY Symmetry
INVARIANTS
  ChannelNamesUnique
PROPERTIES
  HalvesAreOfMissingClients
  OperationsStayLocal
