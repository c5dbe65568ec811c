SPECIFICATION Spec
CONSTANTS
  news = news
  blank = blank
  p1 = p1
  ChannelName = {news, blank}
  WhitespaceName = {blank}
  EmptyName = EmptyName
  Content = {p1}
  Fd = {c1}
  ServerFd = ServerFd
  Traffic <- SingleTraffic
  ConnLimit = 1
  MaxInbox = 2
  SocketBuffer = 2
  DeadBacklog = 3
  MaxChannels = 2
INVARIANTS
  ErasedClientsAreLeftAlone
CHECK_DEADLOCK FALSE
