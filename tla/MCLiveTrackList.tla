--------------------------- MODULE MCLiveTrackList ---------------------------
(* Small instances of LiveTrackList for TLC.                               *)
EXTENDS LiveTrackList, TLC

CONSTANTS h1, h2

MCHandlers == {h1, h2}

\* Two video renditions of different bitrate and size, and an audio track.
MCLow == [type |-> "video", bps |-> 2, w |-> 2, h |-> 1, idx |-> 0]
MCHigh == [type |-> "video", bps |-> 4, w |-> 4, h |-> 2, idx |-> 1]
MCAudio == [type |-> "audio", bps |-> 1, w |-> 0, h |-> 0, idx |-> 2]
MCTracks == {MCLow, MCHigh, MCAudio}

\* The two request goroutines are interchangeable.
MCSymmetry == Permutations(MCHandlers)

=============================================================================
