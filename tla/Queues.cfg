SPECIFICATION Spec
CONSTANTS
  news = news
  blank = blank
  p1 = p1
  ChannelName = {news, blank}
  WhitespaceName = {blank}
  EmptyName = EmptyName
  Content = {p1}
  Fd = {c1, c2}
  ServerFd = ServerFd
  Traffic <- PublishTraffic
  ConnLimit = 2
  MaxInbox = 1
  SocketBuffer = 1
  DeadBacklog = 2
  MaxChannels = 1
SYMMETRY Symmetry
INVARIANTS
  BacklogIsPolled
PROPERTIES
  ImplementsPubSub
CHECK_DEADLOCK FALSE
