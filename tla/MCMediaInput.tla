---------------------------- MODULE MCMediaInput ----------------------------
(* Small instances of MediaInput for TLC. *)
EXTENDS MediaInput, TLC

BoxOf(type, hdr, size) == [type |-> type, hdr |-> hdr, size |-> size]
Moof(time, offset, sizes) ==
  BoxOf("moof", 1, 2) @@
  [traf |-> [ours |-> TRUE, time |-> time, runs |-> <<[offset |-> offset, sizes |-> sizes]>>]]
Sidx(sizes) ==
  BoxOf("sidx", 1, 2) @@
  [index |-> [time |-> 0, first |-> 0,
              refs |-> [i \in DOMAIN sizes |-> [size |-> sizes[i], dur |-> 2, nested |-> FALSE]]]]
Moov == BoxOf("moov", 1, 2)
Mdat(size) == BoxOf("mdat", 1, size)

\* As YouTube writes them: an index and two fragments.
PlainFile == <<Moov, Sidx(<<5, 5>>), Moof(0, 3, <<1, 1>>), Mdat(3), Moof(2, 3, <<1, 1>>), Mdat(3)>>
\* A box between, a 64-bit header, a fragment that does not time itself.
OddFile == <<Moov, Sidx(<<8, 5>>), Moof(0, 4, <<2>>), BoxOf("mdat", 2, 4),
             BoxOf("free", 1, 2), Moof(NoTime, 3, <<2>>), Mdat(3)>>
\* The second fragment points past its data.
FaultyFile == <<Moov, Sidx(<<4, 6>>), Moof(0, 3, <<1>>), Mdat(2), Moof(1, 3, <<1, 2>>), Mdat(3)>>
\* What else ends a stream: an error page, an open-ended box, a run without a
\* place, a foreign track.
JunkFile == <<Moov, BoxOf("junk", 1, 1)>>
EndlessFile == <<Moov, Moof(0, 3, <<1>>), Mdat(2), BoxOf("mdat", 1, 0)>>
PlacelessFile == <<Moov, BoxOf("free", 1, 1), Moof(0, NoOffset, <<1>>), Mdat(2)>>
ForeignFile == <<Moov, [Moof(0, 3, <<1>>) EXCEPT !.traf.ours = FALSE], Mdat(2)>>
SomeFiles == {PlainFile, OddFile, FaultyFile, JunkFile, EndlessFile, PlacelessFile,
              ForeignFile}
GoodFiles == {PlainFile, OddFile}
\* The first sample is said to be inside the moof itself.
BackFiles == {<<Moov, Moof(0, 1, <<1>>), Mdat(2)>>}

Line(tag, url) == [tag |-> tag, url |-> url]
SomeMasters == {<<Line("other", 0), Line("variant", 0), Line("bare", 1)>>, <<Line("bare", 1)>>}
SomeVariants == {<<Line("map", 1), Line("uri", 2), Line("uri", 3)>>, <<Line("bare", 1)>>}

=============================================================================
