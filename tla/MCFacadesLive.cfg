SPECIFICATION FairSpec
CONSTANTS
  a = a b = b Nothing = Nothing
  Kinds = {"videos", "playlists", "channels", "comments", "suggest", "channel", "streams"}
  Offers <- Catalogues
  Feeds = {a, b}
  Channels = {a, b}
  Watched = {a, b}
  Tracks <- Itags
  LastPage = 2
  MaxActs <- Bounds
INVARIANTS TypeOK
PROPERTIES LoadEnds
CHECK_DEADLOCK FALSE
