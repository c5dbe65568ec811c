SPECIFICATION RsSpec
CONSTANTS
  news = news
  chat = chat
  p1 = p1
  ChannelName = {news, chat}
  WhitespaceName = {}
  EmptyName = EmptyName
  Content = {p1}
  me = me
  Peer = {me, other}
  MyTraffic <- MyRequests
  OthersTraffic <- OthersRequests
  MaxSubscriptions = 2
  MaxMail = 1
  MaxMisread = 2
PROPERTY
  AwaitsOnlyResponses
CHECK_DEADLOCK FALSE
