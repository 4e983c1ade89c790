SPECIFICATION Spec
CONSTANTS
  a = a b = b c = c j1 = j1 j2 = j2 TV = TV IOS = IOS
  anon = anon user = user en = en fr = fr
  feed = feed like = like text = text token = token
  NoCall = NoCall NoKey = NoKey
  Calls = {a, b, c}
  Jobs = {j1, j2}
  Requests = {feed, text, like, token}
  Clients = {TV, IOS}
  JobOf <- FeedJob
  RequestOf <- FeedRequest
  ClientOf <- RequestClient
  KindOf <- RequestKind
  OmitVisitor = {}
  BearerClients = {TV}
  Bearers = {user}
  NoBearer = anon
  Locales = {en, fr}
  MaxCache = 1
  MaxChanges = 1
INVARIANTS
  NoLostCall
  TimerArmed
  MemoOK
  InflightOK
PROPERTIES ServiceSpec
SYMMETRY LocaleSymmetry
CHECK_DEADLOCK FALSE
