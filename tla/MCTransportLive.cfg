SPECIFICATION FairSpec
CONSTANTS
  a = a b = b c = c j1 = j1 j2 = j2 TV = TV IOS = IOS
  anon = anon user = user en = en fr = fr
  feed = feed like = like text = text token = token
  NoCall = NoCall NoKey = NoKey
  Calls = {a, b, c}
  Jobs = {j1, j2}
  Requests = {feed, text, like, token}
  Clients = {TV, IOS}
  JobOf <- LikeJob
  RequestOf <- LikeRequest
  ClientOf <- RequestClient
  KindOf <- RequestKind
  OmitVisitor = {IOS}
  BearerClients = {IOS}
  Bearers = {user}
  NoBearer = anon
  Locales = {en}
  MaxCache = 1
  MaxChanges = 0
INVARIANTS
  TypeOK
PROPERTIES
  EveryCallAnswered
CHECK_DEADLOCK FALSE
