\* Claims of the repository that the code does not keep, one at a time: TLC checks
\* the one that is not commented out.
\* The values written behind it take the place of those above.
SPECIFICATION Spec
CONSTANTS
  a = a b = b c = c j1 = j1 j2 = j2 TV = TV IOS = IOS
  anon = anon user = user en = en fr = fr
  feed = feed like = like text = text token = token
  NoCall = NoCall NoKey = NoKey
  Calls = {a, b, c}
  Jobs = {j1, j2}
  Requests = {feed, text, like, token}
  Clients = {TV, IOS}
  JobOf <- FeedJob
  RequestOf <- FeedRequest
  ClientOf <- RequestClient
  KindOf <- RequestKind
  OmitVisitor = {}
  BearerClients = {TV}
  Bearers = {user}
  NoBearer = anon
  Locales = {en}
  MaxCache = 1
  MaxChanges = 2
INVARIANT NoForeignPayload
\* PROPERTY WritesHitTheNetwork    \* JobOf <- LikeJob RequestOf <- LikeRequest MaxChanges = 1
CHECK_DEADLOCK FALSE
