\* Claims of the repository that the code does not keep, one at a time: TLC checks
\* the one that is not commented out.
SPECIFICATION Spec
CONSTANTS
  a = a b = b Nothing = Nothing
  Kinds = {"comments", "streams"}
  Offers <- Catalogues
  Feeds = {a, b}
  Channels = {a, b}
  Watched = {a, b}
  Tracks <- Itags
  LastPage = 2
  MaxActs <- Bounds
INVARIANT DefaultIsTheFirst
\* INVARIANT PostedUnderItsVideo
CHECK_DEADLOCK FALSE
