----------------------------- MODULE VideoModes -----------------------------
(***************************************************************************)
(* What a session promises of the picture: M4 names one choice, the stream *)
(* is built with its geometry, and nothing of it outlives the session.     *)
(* MediaStream implements this, with ModeChoice's selection.               *)
(***************************************************************************)
CONSTANTS
  Offers, LaterOffers, Configs, None,  \* as in ModeChoice
  Select(_, _),   \* what is made of an offer and the configured geometry: a choice, or None
  OwnFormats,     \* what M4 names when there is no choice
  OwnGeometry     \* what extend mode configures

VARIABLES
  at,          \* "asked": the sink's answer to M3 is in; "promised"; "streaming"; "ended"
  config,      \* the configured geometry
  extend,      \* is the desktop extended, rather than mirrored
  offer,       \* what this sink sent
  selected,    \* Daemon.selected_video_mode
  m4,          \* the wfd_video_formats of M4
  stream       \* the geometry of the pipeline that plays

vars == <<at, config, extend, offer, selected, m4, stream>>

Init ==
  /\ at = "asked"
  /\ config \in Configs /\ extend \in BOOLEAN
  /\ extend => config = OwnGeometry
  /\ offer \in Offers
  /\ selected = None /\ m4 = None /\ stream = None

\* exchange_rtsp_capabilities: M3's answer, the selection, M4.
Exchange ==
  /\ at = "asked"
  /\ LET choice == Select(offer, config) IN
       IF choice = None THEN selected' = None /\ m4' = OwnFormats
       ELSE selected' = choice.geometry /\ m4' = choice.entry
  /\ at' = "promised"
  /\ UNCHANGED <<config, extend, offer, stream>>

\* What a virtual output has when nothing was selected.
Unselected ==
  IF extend THEN [width |-> 1920, height |-> 1080, framerate |-> config.framerate] ELSE config

\* start_negotiated_stream: what M4 committed to wins.
StartNegotiatedStream ==
  /\ at = "promised"
  /\ stream' = (IF selected # None THEN selected ELSE Unselected)
  /\ at' = "streaming"
  /\ UNCHANGED <<config, extend, offer, selected, m4>>

\* A session may end, fail or be stopped at any point: nothing of it is kept.
Teardown ==
  /\ at # "ended" /\ at' = "ended"
  /\ selected' = None /\ m4' = None /\ stream' = None
  /\ UNCHANGED <<config, extend, offer>>

\* The daemon runs again, against another sink.
NextSession ==
  /\ at = "ended" /\ at' = "asked"
  /\ offer' \in LaterOffers
  /\ UNCHANGED <<config, extend, selected, m4, stream>>

Next == Exchange \/ StartNegotiatedStream \/ Teardown \/ NextSession

Spec == Init /\ [][Next]_vars
=============================================================================
