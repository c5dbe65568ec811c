SPECIFICATION RsFairSpec
CONSTANTS
  news = news
  chat = chat
  p1 = p1
  ChannelName = {news, chat}
  WhitespaceName = {}
  EmptyName = EmptyName
  Content = {p1}
  me = me
  Peer = {me, other}
  MyTraffic <- MyRequests
  OthersTraffic <- OthersRequests
  MaxSubscriptions = 2
  MaxMail = 1
  MaxMisread = 2
INVARIANTS
  TypeOK
  NothingUnsolicited
  OutOfStepByMisread
  OkMeansSubscribed
PROPERTIES
  CallsReturn
CHECK_DEADLOCK FALSE
