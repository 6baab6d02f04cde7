----------------------------- MODULE ModeChoice -----------------------------
(***************************************************************************)
(* The choice of the video mode: from what the sink offers in M3           *)
(* (wfd_video_formats) to the one mode the source promises in M4.          *)
(*                                                                         *)
(* A bitmap is the set of its bits; a codec entry that does not parse is   *)
(* Malformed; the fields M4 passes through unread are left out.            *)
(***************************************************************************)
EXTENDS Integers, Sequences

CONSTANTS
  Offers,      \* what sinks send as wfd_video_formats: sequences of entries, or None
  LaterOffers, \* what the sink of a later session of the same daemon may send
  Configs,     \* the geometries the daemon is configured for
  Malformed,
  None

Bitmap   == SUBSET Nat
Entry    == [profile : Bitmap, level : Bitmap, cea : Bitmap]
Geometry == [width : Nat, height : Nat, framerate : Nat]
Choice   == [geometry : Geometry, entry : Entry]

ASSUME ConstantsAssumption ==
  /\ Offers \cup LaterOffers \subseteq Seq(Entry \cup {Malformed}) \cup {None}
  /\ Configs \subseteq Geometry
  /\ None \notin Geometry \cup Choice \cup Entry

---------------------------------------------------------------------------
\* The resolutions a sink can name: rtsp's CEA_MODES, by bit.

Mode(w, h, fps, interlaced) == [width |-> w, height |-> h, framerate |-> fps, interlaced |-> interlaced]

ModeBits == 0..16
CeaTable ==
  <<Mode(640, 480, 60, FALSE),   Mode(720, 480, 60, FALSE),   Mode(720, 480, 60, TRUE),
    Mode(720, 576, 50, FALSE),   Mode(720, 576, 50, TRUE),    Mode(1280, 720, 30, FALSE),
    Mode(1280, 720, 60, FALSE),  Mode(1920, 1080, 30, FALSE), Mode(1920, 1080, 60, FALSE),
    Mode(1920, 1080, 60, TRUE),  Mode(1280, 720, 25, FALSE),  Mode(1280, 720, 50, FALSE),
    Mode(1920, 1080, 25, FALSE), Mode(1920, 1080, 50, FALSE), Mode(1920, 1080, 50, TRUE),
    Mode(1280, 720, 24, FALSE),  Mode(1920, 1080, 24, FALSE)>>
CeaModes == [bit \in ModeBits |-> CeaTable[bit + 1]]

\* H.264 levels 3.1 to 4.2, by bit: macroblocks per frame and per second.
Level(frame, second) == [frame |-> frame, second |-> second]
LevelBits == 0..4
Levels == [bit \in LevelBits |->
  <<Level(3600, 108000), Level(5120, 216000), Level(8192, 245760),
    Level(8192, 245760), Level(8704, 522240)>>[bit + 1]]

\* Profile bit 0 is constrained baseline, the one the encoder produces.
Baseline == 0

GeometryOf(mode) == [width |-> mode.width, height |-> mode.height, framerate |-> mode.framerate]

---------------------------------------------------------------------------
\* Choosing

CeilDiv(a, b) == (a + b - 1) \div b
FrameBlocks(mode) == CeilDiv(mode.width, 16) * CeilDiv(mode.height, 16)

\* Mutant: the rate is not looked at.
CarriesFrame(bit, mode) == FrameBlocks(mode) <= Levels[bit].frame

Carries(bit, mode) ==
  /\ FrameBlocks(mode) <= Levels[bit].frame
  /\ FrameBlocks(mode) * mode.framerate <= Levels[bit].second

Sufficient(advertised, mode) == {bit \in advertised \cap LevelBits : Carries(bit, mode)}

\* Mutant: the lowest level the sink advertises.
LowestLevel(advertised, mode) ==
  CHOOSE bit \in advertised \cap LevelBits : \A b \in advertised \cap LevelBits : bit <= b

\* lowest_sufficient_level
LowestSufficientLevel(advertised, mode) ==
  CHOOSE bit \in Sufficient(advertised, mode) : \A b \in Sufficient(advertised, mode) : bit <= b

\* parse_sink_video_formats: the first entry must be in order, others that are
\* not are skipped.
Readable(formats) == formats # None /\ formats # <<>> /\ formats[1] # Malformed

Within(mode, limit) ==
  mode.width <= limit.width /\ mode.height <= limit.height /\ mode.framerate <= limit.framerate

\* Progressive, and never larger or faster than what the source produces.
Fits(mode, limit) == ~mode.interlaced /\ Within(mode, limit)

\* What could be selected: an entry of the offer and the bit of a mode.
Candidates(entries, limit) ==
  {c \in (DOMAIN entries) \X ModeBits :
     /\ entries[c[1]] # Malformed
     /\ c[2] \in entries[c[1]].cea
     /\ Fits(CeaModes[c[2]], limit)
     /\ Sufficient(entries[c[1]].level, CeaModes[c[2]]) # {}
     /\ Baseline \in entries[c[1]].profile}

Pixels(c)  == CeaModes[c[2]].width * CeaModes[c[2]].height
Beats(c, d) ==
  \/ Pixels(c) > Pixels(d)
  \/ Pixels(c) = Pixels(d) /\ CeaModes[c[2]].framerate > CeaModes[d[2]].framerate
Before(c, d) == c[1] < d[1] \/ (c[1] = d[1] /\ c[2] < d[2])

\* Mutant: a mode of the same size replaces a faster one.
BestBySize(cs) ==
  CHOOSE c \in cs : /\ \A d \in cs : Pixels(c) >= Pixels(d)
                    /\ \A d \in cs : Pixels(c) = Pixels(d) /\ d # c => Before(d, c)

\* The first that no other beats, in the order entries and modes are gone through.
Best(cs) ==
  CHOOSE c \in cs : \A d \in cs : ~Beats(d, c) /\ (~Beats(c, d) /\ d # c => Before(c, d))

\* select_video_mode: the geometry, and the entry of M4 that names it.
SelectVideoMode(formats, limit) ==
  IF ~Readable(formats) \/ Candidates(formats, limit) = {} THEN None
  ELSE LET best == Best(Candidates(formats, limit))
           mode == CeaModes[best[2]]
       IN [geometry |-> GeometryOf(mode),
           entry |-> [profile |-> {Baseline},
                      level |-> {LowestSufficientLevel(formats[best[1]].level, mode)},
                      cea |-> {best[2]}]]

\* build_video_formats, the source's own string: 1080p30 at level 4.0.
OwnFormats == [profile |-> {Baseline}, level |-> {2}, cea |-> {7}]

\* What a virtual output is made for: extend mode sets the configuration to it.
OwnGeometry == GeometryOf(CeaModes[7])
=============================================================================
