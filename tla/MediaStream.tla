---------------------------- MODULE MediaStream ----------------------------
(***************************************************************************)
(* A session of the daemon from M3 to its end, as one thread of steps that *)
(* can fail: the exchange (daemon), the screen cast asked of the desktop   *)
(* portal over D-Bus (capture), the GStreamer pipeline fed by it (stream), *)
(* and what teardown makes of all that.                                    *)
(*                                                                         *)
(* VideoModes is what the session promises of the picture's geometry.      *)
(*                                                                         *)
(* The portal is external, and modelled from how capture uses it: a        *)
(* request is answered by a signal, which only a subscriber receives; a    *)
(* cast lives as long as the D-Bus connection it was asked for over, or    *)
(* until the user stops it.                                                *)
(***************************************************************************)
EXTENDS ModeChoice

CONSTANTS Forced    \* what the daemon is told to encode with: codecs, or None

VARIABLES
  at,          \* how far the session is; "gone" when the daemon panicked
  config,      \* the configured geometry
  extend,      \* is the desktop extended, rather than mirrored
  forced,      \* the configured codec
  offer,       \* what the sink sent in M3
  selected,    \* Daemon.selected_video_mode
  m4,          \* the wfd_video_formats of M4
  cast,        \* the portal's session for the capture that is being started
  kept,        \* the one for Daemon.capture
  request,     \* the request of the portal that is being made
  listening,   \* is its Response signal subscribed to
  answer,      \* what the portal makes of it; None before it was asked
  inbox,       \* what the subscription has received
  pipeline,    \* the StreamPipeline
  strays       \* the states in which GStreamer was left with dropped pipelines

setup   == <<config, extend, forced, offer>>
promise == <<selected, m4>>
portal  == <<cast, request, listening, answer, inbox>>
media   == <<kept, pipeline, strays>>
vars    == <<at, setup, promise, portal, media>>

Codecs == {"H264", "H264Hardware", "H265", "H265Hardware", "AV1"}

\* VideoCodec::profile: which profile of H.264 is encoded, if any.
ProfileOf(codec) == IF codec \in {"H264", "H264Hardware"} THEN Baseline ELSE None

\* A cast is "open" when it has a session, and "casting" when it was started.
Casts    == {"none", "open", "casting", "ended"}
Answers  == {"pending", "granted", "denied"}
GstStates == {"null", "half", "playing"}

\* StreamPipelineInner: what it was built with, the state it believes to be in, and
\* the one GStreamer is in, "half" when only some elements have changed theirs.
Pipeline == [geometry : Geometry, codec : Codecs, state : {"null", "playing"}, gst : GstStates]

ASSUME ForcedAssumption ==
  /\ Forced \subseteq Codecs \cup {None}
  /\ None \notin Codecs \cup Answers \cup Pipeline

Playing == pipeline # None /\ pipeline.gst = "playing"

\* The steps between the PLAY and the stream.
Starting == {"capture", "asking", "subscribed", "waiting", "granted", "remote", "built",
             "configured", "started"}

Init ==
  /\ at = "asked"
  /\ config \in Configs /\ extend \in BOOLEAN /\ forced \in Forced
  /\ extend => config = OwnGeometry
  /\ offer \in Offers
  /\ selected = None /\ m4 = None
  /\ cast = "none" /\ kept = "none"
  /\ request = None /\ listening = FALSE /\ answer = None /\ inbox = None
  /\ pipeline = None /\ strays = {}

---------------------------------------------------------------------------
\* M3 to PLAY

\* exchange_rtsp_capabilities
Exchange ==
  /\ at = "asked" /\ at' = "promised"
  /\ LET choice == SelectVideoMode(offer, config) IN
       IF choice = None THEN selected' = None /\ m4' = OwnFormats
       ELSE selected' = choice.geometry /\ m4' = choice.entry
  /\ UNCHANGED <<setup, portal, media>>

\* Presentation URL, SETUP trigger, and the TV's PLAY: the state is Streaming from here.
Play ==
  /\ at = "promised" /\ at' = "capture"
  /\ UNCHANGED <<setup, promise, portal, media>>

\* Mutant: what is configured wins.
Configured == config

\* What M4 committed to wins.
Negotiated ==
  IF selected # None THEN selected
  ELSE IF extend THEN [width |-> 1920, height |-> 1080, framerate |-> config.framerate]
  ELSE config

\* Capture::new looks at the size of the stream, but at the configured rate.
CaptureAllowed == Negotiated.width > 0 /\ Negotiated.height > 0 /\ config.framerate \in 1..60

NewCapture ==
  /\ at = "capture" /\ CaptureAllowed
  /\ at' = "asking" /\ request' = "create"
  /\ UNCHANGED <<setup, promise, cast, listening, answer, inbox, media>>

---------------------------------------------------------------------------
\* capture.start: three requests, each subscribed to before it is made

Subscribe ==
  /\ at = "asking" /\ at' = "subscribed"
  /\ listening' = TRUE
  /\ UNCHANGED <<setup, promise, cast, request, answer, inbox, media>>

Call ==
  /\ at = "subscribed" /\ at' = "waiting"
  /\ answer' = "pending"
  /\ UNCHANGED <<setup, promise, cast, request, listening, inbox, media>>

\* Mutant: subscribed to once the call has returned.
AskFirst ==
  \/ /\ at = "asking" /\ at' = "subscribed"
     /\ answer' = "pending"
     /\ UNCHANGED <<setup, promise, cast, request, listening, inbox, media>>
  \/ /\ at = "subscribed" /\ at' = "waiting"
     /\ listening' = TRUE
     /\ UNCHANGED <<setup, promise, cast, request, answer, inbox, media>>

Ask == Subscribe \/ Call

\* The portal answers, after the user did: at once, late, or never.
PortalAnswers ==
  /\ answer = "pending" /\ cast # "ended"
  /\ \/ /\ answer' = "granted"
        /\ cast' = IF request = "start" THEN "casting" ELSE "open"
     \/ answer' = "denied" /\ UNCHANGED cast
  /\ inbox' = IF listening THEN answer' ELSE inbox
  /\ UNCHANGED <<at, setup, promise, request, listening, media>>

After(asked) == IF asked = "create" THEN "select" ELSE IF asked = "select" THEN "start" ELSE None

\* await_response, with results that hold what is looked for in them.
Granted ==
  /\ at = "waiting" /\ inbox = "granted"
  /\ at' = IF request = "start" THEN "granted" ELSE "asking"
  /\ request' = After(request)
  /\ listening' = FALSE /\ answer' = None /\ inbox' = None
  /\ UNCHANGED <<setup, promise, cast, media>>

OpenRemote ==
  /\ at = "granted" /\ cast = "casting" /\ at' = "remote"
  /\ UNCHANGED <<setup, promise, portal, media>>

\* The user stops sharing, or the portal ends the cast: nobody is told.
UserStops ==
  /\ \/ cast \in {"open", "casting"} /\ cast' = "ended" /\ UNCHANGED kept
     \/ kept = "casting" /\ kept' = "ended" /\ UNCHANGED cast
  /\ UNCHANGED <<at, setup, promise, request, listening, answer, inbox, pipeline, strays>>

---------------------------------------------------------------------------
\* The pipeline

\* negotiate_video_codec: wfd_video_formats is about H.264 only.
NegotiatesHevc(formats) == FALSE

\* select_best_codec: hardware if there is any.
BestCodecs(hevc) == IF hevc THEN {"H265", "H265Hardware"} ELSE {"H264", "H264Hardware"}

\* get_negotiated_codec: one Samsung model is sent software H.264.
NegotiatedCodecs ==
  IF forced # None THEN {forced}
  ELSE {"H264"} \cup BestCodecs(NegotiatesHevc(offer) /\ ~extend)

\* new_pipewire_with_audio
Build ==
  /\ at = "remote" /\ at' = "built"
  /\ \E codec \in NegotiatedCodecs :
       pipeline' = [geometry |-> Negotiated, codec |-> codec, state |-> "null", gst |-> "null"]
  /\ UNCHANGED <<setup, promise, portal, kept, strays>>

\* set_output and set_transport: to where SETUP said, from the sockets reserved there.
Configure ==
  /\ at = "built" /\ pipeline.state = "null" /\ at' = "configured"
  /\ UNCHANGED <<setup, promise, portal, media>>

Start ==
  /\ at = "configured" /\ at' = "started"
  /\ pipeline' = [pipeline EXCEPT !.state = "playing", !.gst = "playing"]
  /\ UNCHANGED <<setup, promise, portal, kept, strays>>

\* Mutant: the capture is dropped once the pipeline has its descriptor.
PublishDropping ==
  /\ at = "started" /\ at' = "streaming"
  /\ cast' = "none"
  /\ UNCHANGED <<setup, promise, request, listening, answer, inbox, media>>

\* Daemon.capture and Daemon.stream; a previous capture is dropped, and its connection.
Publish ==
  /\ at = "started" /\ at' = "streaming"
  /\ kept' = cast /\ cast' = "none"
  /\ UNCHANGED <<setup, promise, request, listening, answer, inbox, pipeline, strays>>

---------------------------------------------------------------------------
\* Endings

\* Mutant: without the Drop.
LeftAsIs(p) == IF p = None THEN {} ELSE {p.gst} \ {"null"}

\* StreamPipelineInner::drop sets what believes to have been started to Null.
LeftBy(p) == IF p = None \/ p.state # "null" THEN {} ELSE {p.gst} \ {"null"}

\* run_inner is left: what it had not recorded is dropped, the pipeline first.
Locals ==
  /\ pipeline' = None
  /\ cast' = "none" /\ request' = None /\ listening' = FALSE /\ answer' = None /\ inbox' = None

\* Mutant: the selection outlives the session.
TeardownKeeping == at' = "ended" /\ m4' = None /\ UNCHANGED <<setup, selected, kept>>

\* teardown: what the next session must not find. The capture is not of it.
Teardown == at' = "ended" /\ selected' = None /\ m4' = None /\ UNCHANGED <<setup, kept>>

\* Before PLAY a step fails or a signal comes; the TV's and the helper's part of the
\* steps is in RtspControl and NetHelper.
FailsBefore ==
  /\ at \in {"asked", "promised"}
  /\ Locals /\ strays' = strays
  /\ Teardown

\* A step of the media's start fails: the call itself, or what it returns.
Fails ==
  /\ at \in {"capture", "asking", "subscribed", "granted", "remote", "built"}
  /\ Locals /\ strays' = strays \cup LeftBy(pipeline)
  /\ Teardown

\* The user says no, or the results do not hold what is looked for in them.
Refused ==
  /\ at = "waiting" /\ inbox = "denied"
  /\ Locals /\ strays' = strays
  /\ Teardown

\* 30 s without the signal, or the bus is gone.
TimesOut ==
  /\ at = "waiting" /\ inbox = None
  /\ Locals /\ strays' = strays
  /\ Teardown

\* set_state(Playing) fails, some elements having followed it.
StartFails ==
  /\ at = "configured"
  /\ \E gst \in {"null", "half"} : strays' = strays \cup LeftBy([pipeline EXCEPT !.gst = gst])
  /\ Locals
  /\ Teardown

\* A signal, the TV or the helper ends the stream: stop_stream drops the pipeline.
Stop ==
  /\ at = "streaming"
  /\ Locals /\ strays' = strays \cup LeftBy(pipeline)
  /\ Teardown

\* A signal during the media's start: the daemon panics (DaemonSession), and all of
\* it is dropped.
Panic ==
  /\ at \in Starting /\ at' = "gone"
  /\ Locals /\ strays' = strays \cup LeftBy(pipeline)
  /\ kept' = "none" /\ selected' = None /\ m4' = None
  /\ UNCHANGED setup

\* The same daemon runs again.
NextSession ==
  /\ at = "ended" /\ at' = "asked"
  /\ offer' \in LaterOffers
  /\ UNCHANGED <<config, extend, forced, promise, portal, media>>

Next ==
  \/ Exchange \/ Play \/ NewCapture \/ Ask \/ PortalAnswers \/ Granted \/ OpenRemote \/ UserStops
  \/ Build \/ Configure \/ Start \/ Publish
  \/ FailsBefore \/ Fails \/ Refused \/ TimesOut \/ StartFails \/ Stop \/ Panic \/ NextSession

Spec == Init /\ [][Next]_vars

---------------------------------------------------------------------------
\* Properties

\* Of VideoModes' sessions this is one: the stream is what the pipeline plays.
ModesAt ==
  IF at \in {"ended", "gone"} THEN "ended" ELSE IF Playing THEN "streaming"
  ELSE IF at = "asked" THEN "asked" ELSE "promised"
ModesStream == IF Playing THEN pipeline.geometry ELSE None

Modes == INSTANCE VideoModes WITH Select <- SelectVideoMode, at <- ModesAt, stream <- ModesStream

\* Whatever fails or is stopped, and in however many sessions of one daemon, M4, the
\* geometry of the stream and what is remembered of them are as VideoModes has them.
ImplementsModes == Modes!Spec

\* When a mode could be selected, M4 names one mode, profile and level, all of them of
\* one entry of the sink's, a level that can carry the mode, and a mode the source can
\* produce.  (Otherwise M4 is the source's own string, whatever the sink said.)
PromiseIsConsistent ==
  m4 # None /\ selected # None =>
    \E i \in DOMAIN offer, bit \in ModeBits, level \in LevelBits :
      /\ m4 = [profile |-> {Baseline}, level |-> {level}, cea |-> {bit}]
      /\ offer[i] # Malformed
      /\ bit \in offer[i].cea /\ level \in offer[i].level /\ Baseline \in offer[i].profile
      /\ FrameBlocks(CeaModes[bit]) <= Levels[level].frame
      /\ FrameBlocks(CeaModes[bit]) * CeaModes[bit].framerate <= Levels[level].second
      /\ ~CeaModes[bit].interlaced /\ Within(CeaModes[bit], config)
      /\ selected = GeometryOf(CeaModes[bit])

\* Of the progressive modes of a readable offer that fit, no larger one, and none of
\* the same size that is faster, was passed over for a promise that could name it.
PromiseIsBest ==
  m4 # None /\ offer # None /\ offer # <<>> /\ offer[1] # Malformed =>
    \A i \in DOMAIN offer, bit \in ModeBits, level \in LevelBits :
      /\ offer[i] # Malformed
      /\ bit \in offer[i].cea /\ level \in offer[i].level /\ Baseline \in offer[i].profile
      /\ ~CeaModes[bit].interlaced /\ Within(CeaModes[bit], config)
      /\ FrameBlocks(CeaModes[bit]) <= Levels[level].frame
      /\ FrameBlocks(CeaModes[bit]) * CeaModes[bit].framerate <= Levels[level].second
      => /\ selected # None
         /\ selected.width * selected.height >= CeaModes[bit].width * CeaModes[bit].height
         /\ selected.width * selected.height = CeaModes[bit].width * CeaModes[bit].height
              => selected.framerate >= CeaModes[bit].framerate

\* What plays has the geometry that this session's M4 promised (in extend mode always,
\* otherwise when there was a mode to select, or what is configured is the mode that
\* the source's own string names), and, unless a codec was asked for, the profile.
StreamKeepsPromise ==
  Playing =>
    /\ SelectVideoMode(offer, config) # None \/ extend \/ config = OwnGeometry
         => \E bit \in m4.cea : pipeline.geometry = GeometryOf(CeaModes[bit])
    /\ forced = None => ProfileOf(pipeline.codec) \in m4.profile

\* The portal may answer before the call that asked returns, or long after: while an
\* answer is awaited, what was answered has been received.
AnswersAreHeard == at = "waiting" /\ answer \in {"granted", "denied"} => inbox = answer

\* While the pipeline plays, the connection its cast lives on is held: only the user or
\* the portal can end the cast.
CastOutlivesPipeline == Playing => (IF at = "started" THEN cast ELSE kept) \in {"casting", "ended"}

\* No pipeline that was started is left running by the end of its session, or without
\* anyone who could stop it.
NothingStrays == "playing" \notin strays /\ (at \in {"ended", "gone"} => pipeline = None)

---------------------------------------------------------------------------
\* The inductive invariant of the proofs

TypeOK ==
  /\ at \in {"asked", "promised", "streaming", "ended", "gone"} \cup Starting
  /\ config \in Configs /\ extend \in BOOLEAN /\ (extend => config = OwnGeometry)
  /\ forced \in Forced /\ offer \in Offers \cup LaterOffers
  /\ cast \in Casts /\ kept \in Casts \ {"open"}
  /\ request \in {None, "create", "select", "start"} /\ listening \in BOOLEAN
  /\ {answer, inbox} \subseteq Answers \cup {None}
  /\ strays \subseteq GstStates

\* What was asked of the portal, and heard of it, at each step.
PortalInv ==
  /\ at \notin {"subscribed", "waiting"} => ~listening /\ answer = None /\ inbox = None
  /\ at = "subscribed" => listening /\ answer = None /\ inbox = None
  /\ at = "waiting" => /\ listening /\ answer # None
                       /\ inbox = (IF answer = "pending" THEN None ELSE answer)
                       /\ request = "start" /\ answer = "granted" => cast \in {"casting", "ended"}
  /\ at \in {"granted", "remote", "built", "configured", "started"} => cast \in {"casting", "ended"}
  /\ at = "streaming" => kept \in {"casting", "ended"}

\* What M4 names and what is remembered of it are one choice, of this session's offer.
Chosen ==
  LET choice == SelectVideoMode(offer, config) IN
    IF choice = None THEN selected = None /\ m4 = OwnFormats
    ELSE selected = choice.geometry /\ m4 = choice.entry

ChoiceInv ==
  IF at \in {"promised", "streaming"} \cup Starting THEN Chosen ELSE selected = None /\ m4 = None

\* The pipeline there is at each step, and what it was built with.
Stage == IF at \in {"started", "streaming"} THEN "playing" ELSE "null"
PipelineInv ==
  /\ IF at \in {"built", "configured", "started", "streaming"}
     THEN \E codec \in NegotiatedCodecs :
            pipeline = [geometry |-> Negotiated, codec |-> codec, state |-> Stage, gst |-> Stage]
     ELSE pipeline = None
  /\ "playing" \notin strays

IInv == TypeOK /\ ChoiceInv /\ PortalInv /\ PipelineInv
=============================================================================
