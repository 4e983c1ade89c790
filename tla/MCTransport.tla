---------------------------- MODULE MCTransport ----------------------------
(* Small instances of Transport for TLC. *)
EXTENDS Transport, TLC

CONSTANTS a, b, c, j1, j2, TV, IOS, anon, user, en, fr, feed, like, text, token

\* Two jobs ask the same personalized feed, and one of them gets a page.
FeedJob == (a :> j1) @@ (b :> j2) @@ (c :> j1)
FeedRequest == (a :> feed) @@ (b :> feed) @@ (c :> text)

\* Two operations write the same like, and one of them polls for a token.
LikeJob == (a :> j1) @@ (b :> j2) @@ (c :> j1)
LikeRequest == (a :> like) @@ (b :> like) @@ (c :> token)

RequestClient == (feed :> TV) @@ (text :> TV) @@ (like :> IOS) @@ (token :> TV)
RequestKind == (feed :> "cached") @@ (text :> "get") @@ (like :> "uncached")
               @@ (token :> "form")

\* Nothing tells one locale from another.
LocaleSymmetry == Permutations(Locales)

=============================================================================
