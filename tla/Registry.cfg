SPECIFICATION Spec
CONSTANTS
  news = news
  blank = blank
  p1 = p1
  ChannelName = {news, blank}
  WhitespaceName = {blank}
  EmptyName = EmptyName
  Content = {p1}
  Fd = {c1, c2}
  ServerFd = ServerFd
  Traffic <- RegistryTraffic
  ConnLimit = 2
  MaxInbox = 1
  SocketBuffer = 1
  DeadBacklog = 1
  MaxChannels = 2
SYMMETRY Symmetry
INVARIANTS
  TypeOK
  SubscriptionsMatchSubscribers
  PollFdsMatchClients
  DescriptorsBelongToClients
  EventsAreForClients
  BranchIsUnreachable
PROPERTIES
  SubscriptionsAreTheClients
  RejectedRequestsChangeNothing
CHECK_DEADLOCK FALSE
