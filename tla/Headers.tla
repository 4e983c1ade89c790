------------------------------ MODULE Headers -------------------------------
(***************************************************************************)
(* The two facades that hold one thing instead of a list: ChannelDetails   *)
(* (core/innertube/channeldetails.cpp), with the subscribe state it checks *)
(* and changes beside its load, and StreamSet (streamset.cpp), which cuts  *)
(* a /player catalogue into what the player page may play.                 *)
(***************************************************************************)
EXTENDS Chains

CONSTANTS
  Channels,  \* channels to open
  Watched,   \* videos to play
  Tracks     \* by itag: what a stream is, its codec, height and bitrate

NoChannel == [job |-> NoJob, actionJob |-> NoJob, checkJob |-> NoJob, asked |-> Nothing,
              id |-> Nothing, subscribed |-> FALSE, status |-> "Null"]
NoStreams == [job |-> NoJob, asked |-> Nothing, status |-> "Null", hls |-> Nothing,
              progressive |-> Nothing, audio |-> Nothing, video |-> Nothing, audios |-> Nothing,
              subtitles |-> Nothing]

-----------------------------------------------------------------------------
(* ChannelDetails.                                                         *)

\* Mutant: cancelJob() without the subscribe check's token.
ChannelTokens_NoCheck == {self.actionJob}

ChannelTokens == {self.actionJob, self.checkJob}

LoadById(ch) ==
  /\ Act("channel")
  /\ CancelJob(self.job, ChannelTokens)
  /\ self' = [self EXCEPT !.job = NewJob, !.asked = ch, !.id = Nothing,
                          !.subscribed = FALSE, !.status = "Loading"]
  /\ Ask("channel", ch, NoPage)

CancelChannel ==
  /\ Act("channel")
  /\ CancelJob(self.job, ChannelTokens)
  /\ self' = [self EXCEPT !.job = NoJob, !.status = "Canceled"]
  /\ UNCHANGED <<calls, made>>

\* subscribe() and unsubscribe(): the button offers the one that changes the
\* state, and works before the channel has arrived.  A new action disarms the
\* revert of the one before.
ApplySubscribe ==
  /\ Act("channel") /\ signedIn /\ self.asked # Nothing
  /\ self' = [self EXCEPT !.subscribed = ~@, !.actionJob = NewJob]
  /\ canceled' = canceled \cup ({self.actionJob} \ {NoJob})
  /\ Ask(IF self.subscribed THEN "unfollow" ELSE "follow", self.id, self.subscribed)
  /\ UNCHANGED aborts

\* The header is anonymous: who is signed in asks for the state besides.
applyChannel(m) ==
  /\ m.call.op = "channel"
  /\ \/ /\ ~m.out.ok /\ self' = [self EXCEPT !.status = "Failed"] /\ Quiet
     \/ /\ m.out.ok
        /\ self' = [self EXCEPT !.id = m.out.id, !.subscribed = FALSE, !.status = "Ready",
                                !.checkJob = IF signedIn THEN NewJob ELSE @]
        /\ \/ ~signedIn /\ Quiet
           \/ /\ signedIn /\ Ask("check", m.out.id, NoPage)
              /\ canceled' = canceled \cup ({self.checkJob} \ {NoJob})
              /\ UNCHANGED aborts

applySubscribedState(m) ==
  /\ m.call.op = "check"
  /\ self' = [self EXCEPT !.subscribed = m.out.subscribed]
  /\ Quiet

revertSubscribe(m) ==
  /\ m.call.op \in {"follow", "unfollow"}
  /\ self' = [self EXCEPT !.subscribed = m.call.arg]
  /\ Quiet

-----------------------------------------------------------------------------
(* StreamSet.                                                              *)

\* Mutant: load() that leaves the default audio of the video before.
Cleared_KeepAudio == [NoStreams EXCEPT !.audio = self.audio]

\* What load() leaves: nothing of the video before.
Cleared == NoStreams

LoadStreams(v) ==
  /\ Act("streams")
  /\ CancelJob(self.job, {})
  /\ self' = [Cleared EXCEPT !.job = NewJob, !.asked = v, !.status = "Loading"]
  /\ Ask("player", v, [left |-> Ladder, captions |-> Nothing])

CancelStreams ==
  /\ Act("streams")
  /\ CancelJob(self.job, {})
  /\ self' = [self EXCEPT !.job = NoJob, !.status = "Canceled"]
  /\ UNCHANGED <<calls, made>>

\* What plays on the device: muxed streams, and AAC.
Muxed(s) == Tracks[s].kind = "video" /\ Tracks[s].hasAudio
Aac(s) == Tracks[s].kind = "audio" /\ Tracks[s].codec = "aac"
Heights(streams) == {Tracks[streams[i]].height : i \in {j \in DOMAIN streams : Muxed(streams[j])}}

\* Mutant: Candidates by container instead of codec.
Dual_AnyMp4(s, muxed) == LET t == Tracks[s] IN
  /\ t.kind = "video" /\ ~t.hasAudio /\ t.codec \in {"avc1", "av01"}
  /\ t.height <= 720 /\ \A h \in muxed : t.height > h

\* A video-only stream worth a second connection: H.264, no higher than the
\* decoder goes, better than anything muxed.
Dual(s, muxed) == LET t == Tracks[s] IN
  /\ t.kind = "video" /\ ~t.hasAudio /\ t.codec = "avc1"
  /\ t.height <= 720 /\ \A h \in muxed : t.height > h

\* betterVideo: highest first, at one height the lower bitrate.
Better(s, t) == \/ Tracks[s].height > Tracks[t].height
                \/ Tracks[s].height = Tracks[t].height /\ Tracks[s].bitrate < Tracks[t].bitrate

\* The video picker: one stream of each height, the best of it, highest first;
\* muxed streams come before the others in a tie.
Picked[streams \in Offers] ==
  LET muxed == Heights(streams)
      pool == SelectSeq(streams, Muxed) \o SelectSeq(streams, LAMBDA s : Dual(s, muxed))
      height(i) == Tracks[pool[i]].height
      best == {i \in DOMAIN pool : \A j \in DOMAIN pool \ {i} :
                 height(j) = height(i) =>
                   \/ Better(pool[i], pool[j])
                   \/ ~Better(pool[j], pool[i]) /\ i < j}
      rank(i) == Cardinality({j \in best : height(j) >= height(i)})
  IN [r \in 1..Cardinality(best) |-> pool[CHOOSE i \in best : rank(i) = r]]

\* The first of the lowest muxed streams.
Progressive[streams \in Offers] ==
  LET muxed == SelectSeq(streams, Muxed)
      low == {i \in DOMAIN muxed : \A h \in Heights(streams) : Tracks[muxed[i]].height <= h}
  IN IF low = {} THEN Nothing ELSE muxed[CHOOSE i \in low : \A j \in low : i <= j]

LastOf(s) == IF s = <<>> THEN Nothing ELSE s[Len(s)]
\* Itag 140 if it is there, else the last AAC stream.
DefaultAudio[streams \in Offers] ==
  LET aac == SelectSeq(streams, Aac)
      named == SelectSeq(aac, LAMBDA s : s = "140")
  IN IF named # <<>> THEN LastOf(named) ELSE LastOf(aac)
Manifest[streams \in Offers] == LastOf(SelectSeq(streams, LAMBDA s : Tracks[s].kind = "hls"))

Audios[streams \in Offers] == SelectSeq(streams, Aac)

\* The streams arrive with the captions of whichever client had them; what the
\* catalogue lacks stays as load() left it.
applyPlayer(m) ==
  /\ m.call.op = "player"
  /\ LET Set(f, x) == IF x \in {Nothing, <<>>} THEN self[f] ELSE [of |-> m.call.about, is |-> x]
         s == m.out.streams
     IN self' = IF ~m.out.ok THEN [self EXCEPT !.status = "Failed"]
                ELSE [self EXCEPT !.status = "Ready",
                        !.hls = Set("hls", Manifest[s]),
                        !.progressive = Set("progressive", Progressive[s]),
                        !.audio = Set("audio", DefaultAudio[s]),
                        !.video = Set("video", Picked[s]),
                        !.audios = Set("audios", Audios[s]),
                        !.subtitles = Set("subtitles", m.out.captions)]
  /\ Quiet

HeaderActs ==
  \/ \E ch \in Channels : LoadById(ch)
  \/ \E v \in Watched : LoadStreams(v)
  \/ CancelChannel \/ ApplySubscribe \/ CancelStreams

HeaderApplies(m) == \/ applyChannel(m) \/ applySubscribedState(m) \/ revertSubscribe(m)
                    \/ applyPlayer(m)

-----------------------------------------------------------------------------
HeaderOK ==
  /\ kind \in {"channel", "streams"} =>
       /\ self.status \in {"Null", "Loading", "Ready", "Failed", "Canceled"}
       /\ self.job \in 0..made
  /\ kind = "channel" =>
       /\ {self.asked, self.id} \subseteq Channels \cup {Nothing}
       /\ self.subscribed \in BOOLEAN
       /\ {self.actionJob, self.checkJob} \subseteq 0..made
  /\ kind = "streams" => self.asked \in Watched \cup {Nothing}

\* The one ChannelDetails shows the channel asked for last, and an answer about
\* who is subscribed can only move the button of the channel it is about
\* (loadById, cancelJob, refreshSubscribed).
HeaderOfTheAsked ==
  kind = "channel" =>
    /\ self.id \in {Nothing, self.asked}
    /\ \A c \in calls \cup {mail[i].call : i \in DOMAIN mail} :
         c.op = "check" /\ Live(c.job) => c.about = self.id

\* Nothing that the player page may play belongs to another video than the one
\* loaded last, even when a catalogue lacks what the one before had (load,
\* applyPlayer).
CatalogOfTheAsked ==
  kind = "streams" =>
    \A f \in {"hls", "progressive", "audio", "video", "audios", "subtitles"} :
      self[f] = Nothing \/ self[f].of = self.asked

\* No client's answer is wasted: a load fails only when no client it asked had
\* streams, and captions that some client sent are there ("without the
\* emptiness guard that empty list latches and shadows the mobile clients' real
\* caption tracks", playerTry).
OffersAreUsed ==
  kind = "streams" =>
    \A o \in offered : o.job = self.job =>
      /\ self.status = "Failed" => ~o.streams
      /\ self.status = "Ready" /\ o.captions => self.subtitles # Nothing

\* The picker's streams decode on the device, one of each height, the tallest
\* first; nothing muxed is missing and no height has a better twin
\* (applyPlayer, betterVideo).
PickerPlays ==
  kind = "streams" =>
    \A i \in DOMAIN mail :
      LET streams == mail[i].out.streams
          picked == [k \in DOMAIN Picked[streams] |-> Tracks[Picked[streams][k]]]
          tracks == {Tracks[streams[k]] : k \in DOMAIN streams}
      IN mail[i].out.ok =>
           /\ \A k, l \in DOMAIN picked : k < l => picked[k].height > picked[l].height
           /\ \A k \in DOMAIN picked : picked[k].codec = "avc1" /\ picked[k].height <= 720
           /\ \A t \in tracks : t.kind = "video" /\ t.hasAudio =>
                \E k \in DOMAIN picked : picked[k].height = t.height
           /\ \A t \in tracks, k \in DOMAIN picked :
                /\ t.kind = "video" /\ t.codec = "avc1" /\ t.hasAudio = picked[k].hasAudio
                /\ t.height = picked[k].height
                => picked[k].bitrate <= t.bitrate

\* "audio default: itag 140 (or first AAC found)" (streamset.cpp).
DefaultIsTheFirst ==
  kind = "streams" =>
    \A i \in DOMAIN mail :
      LET aac == SelectSeq(mail[i].out.streams, Aac)
      IN mail[i].out.ok /\ aac # <<>> /\ (\A k \in DOMAIN aac : aac[k] # "140")
           => DefaultAudio[mail[i].out.streams] = aac[1]

\* What a load gathers over its clients and cuts up is all used, and only what
\* plays is offered.
StreamsAreUsable == OffersAreUsed /\ PickerPlays

=============================================================================
