--------------------------- MODULE MC_MediaStream ---------------------------
(* Instances of MediaStream for TLC. *)
EXTENDS MediaStream

G(w, h, fps) == [width |-> w, height |-> h, framerate |-> fps]
E(profile, level, cea) == [profile |-> profile, level |-> level, cea |-> cea]

\* One entry, over many bitmaps: levels in every combination, and the modes around
\* which sizes, rates, interlacing and levels change the outcome.
Single == {<<E({0, 1}, level, cea)>> :
             level \in SUBSET LevelBits, cea \in SUBSET {1, 5, 6, 7, 8}}

\* Several entries, in order and out of order, with ones nothing can be made of.
Few == {E({0}, {0}, {5, 6, 31}), E({0, 1}, {3, 4}, {6, 7, 13}), E({1}, {4}, {7, 8}),
        E({0}, {2, 31}, {7, 9, 12}), E({0}, {}, {8}), Malformed}
Several == {<<a, b>> : a, b \in Few} \cup {<<a, b, c>> : a, b, c \in Few}

MCOffers == Single \cup Several \cup {None, <<>>}
MCLaterOffers == {<<a>> : a \in Few} \cup {None, <<>>}

\* The last is one that a capture is not started for.
MCConfigs == {G(1920, 1080, 30), G(1280, 720, 60), G(640, 480, 30), G(3840, 2160, 120)}
MCForced  == {None, "H265"}
=============================================================================
