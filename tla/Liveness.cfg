SPECIFICATION FairSpec
CONSTANTS
  news = news
  blank = blank
  p1 = p1
  ChannelName = {news, blank}
  WhitespaceName = {blank}
  EmptyName = EmptyName
  Content = {p1}
  Fd = {c1, c2}
  ServerFd = ServerFd
  Traffic <- SchedulingTraffic
  ConnLimit = 2
  MaxInbox = 1
  SocketBuffer = 1
  DeadBacklog = 2
  MaxChannels = 1
PROPERTIES
  RequestsAreServed
  BacklogsAreFlushed
  DisconnectsAreNoticed
CHECK_DEADLOCK FALSE
