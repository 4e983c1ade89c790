----------------------------- MODULE HlsSource ------------------------------
(***************************************************************************)
(* media::HlsSource (core/media/hlssource.cpp): a master playlist names an *)
(* audio playlist, which names the segments; each request for data fetches *)
(* the next one.  A source is a record, and an operator is what a method   *)
(* does to it.  A playlist is the sequence of its lines.                   *)
(***************************************************************************)
EXTENDS Naturals, Sequences, SequencesExt

CONSTANT NoFetch   \* m_reply = 0

\* A line of a playlist: what it starts with and the address it carries.
\*   audio    #EXT-X-MEDIA with TYPE=AUDIO and a URI     map   #EXT-X-MAP
\*   variant  #EXT-X-STREAM-INF                          uri   http...
\*   bare     an address without http                    other any other line
Tags == {"audio", "variant", "map", "uri", "bare", "other"}

Fetches == {"master", "variant", "segment"}
NewHls == [segments |-> <<>>, next |-> 1, reply |-> NoFetch]

Is(line, tags) == line.tag \in tags

\* pickAudioPlaylist(): the first audio rendition, else the first address
\* after the first variant; FALSE when the master has neither.
HasAudio(master) ==
  \/ \E i \in DOMAIN master : Is(master[i], {"audio"})
  \/ \E i, j \in DOMAIN master : i < j /\ Is(master[i], {"variant"})
                                       /\ Is(master[j], {"uri", "bare"})

PickAudioPlaylist(master) ==
  LET audio == SelectSeq(master, LAMBDA line : Is(line, {"audio"}))
      first == SelectInSeq(master, LAMBDA line : Is(line, {"variant"}))
      rest == SelectSeq(SubSeq(master, first, Len(master)),
                        LAMBDA line : Is(line, {"uri", "bare"}))
  IN IF audio # <<>> THEN audio[1].url ELSE rest[1].url

\* parseSegments(): the init segment and the media segments, as listed.
ParseSegments(variant) ==
  LET segments == {i \in DOMAIN variant : Is(variant[i], {"map", "uri"})}
      at(k) == CHOOSE i \in segments : Cardinality({j \in segments : j <= i}) = k
  IN [k \in 1..Cardinality(segments) |-> variant[at(k)].url]

\* close(): the reply is disconnected and aborted, the playlist stays.
CloseHls(h) == [h EXCEPT !.reply = NoFetch]

\* get() of a url: a reply in flight is given up.
Get(h, what, url) == [h EXCEPT !.reply = [what |-> what, url |-> url]]

\* Mutant: the place in the playlist before is not forgotten.
OpenHls_KeepsPlace(h, url) == Get([h EXCEPT !.segments = <<>>], "master", url)

OpenHls(h, url) == Get([h EXCEPT !.segments = <<>>, !.next = 1], "master", url)

\* onMasterFinished(), onVariantFinished() with an answer of use.
MasterRead(h, master) == Get(h, "variant", PickAudioPlaylist(master))
VariantRead(h, variant) == [h EXCEPT !.reply = NoFetch, !.segments = ParseSegments(variant)]

\* requestData(): the next segment, or the end.
AtEnd(h) == h.next > Len(h.segments)
GetSegment(h) == Get([h EXCEPT !.next = @ + 1], "segment", h.segments[h.next])

=============================================================================
