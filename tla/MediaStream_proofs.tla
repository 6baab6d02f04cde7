------------------------- MODULE MediaStream_proofs -------------------------
(***************************************************************************)
(* Proofs about MediaStream, for any offers, configured geometries and     *)
(* forced codecs.                                                          *)
(***************************************************************************)
EXTENDS MediaStream, ModeChoice_proofs

\* What is selected and what is negotiated of it.
LEMMA GeometryTyped ==
  ASSUME TypeOK, ChoiceInv
  PROVE  selected \in Geometry \cup {None} /\ Negotiated \in Geometry
<1>1. selected \in Geometry \cup {None}
  <2> DEFINE choice == SelectVideoMode(offer, config)
  <2>1. CASE selected # None
    <3>1. choice # None /\ selected = choice.geometry
      BY <2>1 DEF ChoiceInv, Chosen
    <3>2. PICK i \in DOMAIN offer, bit \in ModeBits, level \in LevelBits : choice = ChoiceOf(bit, level)
      BY <3>1, ChoiceMade DEF TypeOK
    <3> HIDE DEF choice
    <3>3. selected = GeometryOf(CeaModes[bit])
      BY <3>1, <3>2 DEF ChoiceOf
    <3> QED BY <3>3, NamesTyped
  <2> QED BY <2>1
<1>2. config \in Geometry
  BY ConstantsAssumption DEF TypeOK
<1>3. [width |-> Widest, height |-> Tallest, framerate |-> config.framerate] \in Geometry
  BY <1>2 DEF Geometry, Widest, Tallest
<1>4. Negotiated = IF selected # None THEN selected
                   ELSE IF extend THEN [width |-> Widest, height |-> Tallest, framerate |-> config.framerate]
                   ELSE config
  BY Zenon DEF Negotiated, Widest, Tallest
<1> QED BY <1>1, <1>2, <1>3, <1>4

\* In extend mode, and when it is configured, what is negotiated without a choice is the
\* mode that the source's own string names.
LEMMA NegotiatedOwn == selected = None /\ config = OwnGeometry => Negotiated = OwnGeometry
<1>1. Negotiated = IF selected # None THEN selected
                   ELSE IF extend THEN [width |-> Widest, height |-> Tallest, framerate |-> config.framerate]
                   ELSE config
  BY Zenon DEF Negotiated, Widest, Tallest
<1>2. OwnGeometry.framerate = 30
  BY OwnGeometryIs
<1> QED BY <1>1, <1>2, OwnGeometryIs

\* What is built can be told from nothing, and what is known of it at a step.
LEMMA PipelineKnown ==
  ASSUME IInv, at \in {"built", "configured", "started", "streaming"}
  PROVE  /\ pipeline # None /\ pipeline.geometry = Negotiated /\ pipeline.codec \in NegotiatedCodecs
         /\ pipeline.state = Stage /\ pipeline.gst = Stage
<1>1. PICK codec \in NegotiatedCodecs :
        pipeline = [geometry |-> Negotiated, codec |-> codec, state |-> Stage, gst |-> Stage]
  BY DEF IInv, PipelineInv
<1>2. codec \in Codecs
  BY ForcedAssumption DEF NegotiatedCodecs, BestCodecs, NegotiatesHevc, IInv, TypeOK, Codecs
<1>3. Stage \in {"null", "playing"}
  BY DEF Stage
<1>4. Negotiated \in Geometry
  BY GeometryTyped DEF IInv
<1>5. pipeline \in Pipeline
  BY <1>1, <1>2, <1>3, <1>4 DEF Pipeline, GstStates
<1> QED BY <1>1, <1>5, ForcedAssumption

LEMMA InitInv == Init => IInv
BY DEF Init, IInv, TypeOK, ChoiceInv, PortalInv, PipelineInv, Starting, Casts, Answers, GstStates

---------------------------------------------------------------------------
\* Steps that leave what was chosen alone

Setup == UNCHANGED <<config, extend, forced, offer, selected, m4>>

LEMMA SetupKeeps ==
  ASSUME Setup
  PROVE  Chosen' = Chosen /\ Negotiated' = Negotiated /\ NegotiatedCodecs' = NegotiatedCodecs
BY DEF Setup, Chosen, Negotiated, NegotiatedCodecs, BestCodecs, NegotiatesHevc

LEMMA ExchangeInv == IInv /\ Exchange => IInv'
<1> SUFFICES ASSUME IInv, Exchange PROVE IInv'
  OBVIOUS
<1>1. /\ at = "asked" /\ at' = "promised" /\ config' = config /\ offer' = offer /\ extend' = extend
      /\ forced' = forced /\ UNCHANGED portal /\ UNCHANGED media
  BY DEF Exchange, setup
<1>2. Chosen'
  BY <1>1 DEF Exchange, Chosen
<1>3. TypeOK'
  BY <1>1 DEF IInv, TypeOK, portal, media
<1>4. PortalInv' /\ PipelineInv'
  BY <1>1 DEF IInv, PortalInv, PipelineInv, portal, media
<1> QED BY <1>1, <1>2, <1>3, <1>4 DEF IInv, ChoiceInv

\* The steps towards the stream that do not touch the pipeline.
LEMMA PortalStepInv ==
  ASSUME IInv, Play \/ NewCapture \/ Ask \/ PortalAnswers \/ Granted \/ OpenRemote \/ UserStops
  PROVE  IInv'
<1>1. Setup /\ UNCHANGED <<pipeline, strays>>
  BY DEF Setup, setup, promise, media, Play, NewCapture, Ask, Subscribe, Call, PortalAnswers, Granted,
         OpenRemote, UserStops
<1>2. SUFFICES TypeOK' /\ PortalInv' /\ (at' = at \/ (at \in {"promised"} \cup Starting /\ at' \in Starting /\ {at, at'} \cap {"built", "configured", "started", "streaming"} = {}))
  <2>1. ChoiceInv'
    BY <1>1, <1>2, SetupKeeps DEF IInv, ChoiceInv, Setup, Starting
  <2>2. PipelineInv'
    BY <1>1, <1>2, SetupKeeps DEF IInv, PipelineInv, Stage
  <2> QED BY <1>2, <2>1, <2>2 DEF IInv
<1>3. CASE Play
  BY ForcedAssumption, <1>1, <1>3 DEF Setup, Play, IInv, TypeOK, PortalInv, portal, media, Starting
<1>4. CASE NewCapture
  BY ForcedAssumption, <1>1, <1>4 DEF Setup, NewCapture, IInv, TypeOK, PortalInv, media, Starting
<1>5. CASE Ask
  BY ForcedAssumption, <1>1, <1>5 DEF Setup, Ask, Subscribe, Call, IInv, TypeOK, PortalInv, media, Starting, Answers
<1>6. CASE PortalAnswers
  BY ForcedAssumption, <1>1, <1>6 DEF Setup, PortalAnswers, IInv, TypeOK, PortalInv, media, Starting, Answers, Casts
<1>7. CASE Granted
  BY ForcedAssumption, <1>1, <1>7 DEF Setup, Granted, After, IInv, TypeOK, PortalInv, media, Starting, Answers
<1>8. CASE OpenRemote
  BY ForcedAssumption, <1>1, <1>8 DEF Setup, OpenRemote, IInv, TypeOK, PortalInv, portal, media, Starting
<1>9. CASE UserStops
  BY ForcedAssumption, <1>1, <1>9 DEF Setup, UserStops, IInv, TypeOK, PortalInv, Starting, Casts
<1> QED BY <1>3, <1>4, <1>5, <1>6, <1>7, <1>8, <1>9

---------------------------------------------------------------------------
\* Steps of the pipeline

LEMMA BuildInv == IInv /\ Build => IInv'
<1> SUFFICES ASSUME IInv, Build PROVE IInv'
  OBVIOUS
<1>1. /\ at = "remote" /\ at' = "built" /\ Setup /\ UNCHANGED portal /\ UNCHANGED <<kept, strays>>
  BY DEF Build, Setup, setup, promise
<1>2. TypeOK' /\ PortalInv'
  BY <1>1 DEF Setup, IInv, TypeOK, PortalInv, portal, Starting
<1>3. ChoiceInv'
  BY <1>1, SetupKeeps DEF IInv, ChoiceInv, Starting
<1>4. PipelineInv'
  <2>1. PICK codec \in NegotiatedCodecs :
          pipeline' = [geometry |-> Negotiated, codec |-> codec, state |-> "null", gst |-> "null"]
    BY DEF Build
  <2>2. Stage' = "null"
    BY <1>1 DEF Stage
  <2> QED BY <1>1, <2>1, <2>2, SetupKeeps DEF IInv, PipelineInv
<1> QED BY <1>2, <1>3, <1>4 DEF IInv

LEMMA ConfigureInv == IInv /\ Configure => IInv'
<1> SUFFICES ASSUME IInv, Configure PROVE IInv'
  OBVIOUS
<1>1. /\ at = "built" /\ at' = "configured" /\ Setup /\ UNCHANGED portal /\ UNCHANGED media
  BY DEF Configure, Setup, setup, promise
<1>2. TypeOK' /\ PortalInv'
  BY <1>1 DEF Setup, IInv, TypeOK, PortalInv, portal, media, Starting
<1>3. ChoiceInv'
  BY <1>1, SetupKeeps DEF IInv, ChoiceInv, Starting
<1>4. PipelineInv'
  <2>1. Stage' = "null" /\ Stage = "null"
    BY <1>1 DEF Stage
  <2> QED BY <1>1, <2>1, SetupKeeps DEF IInv, PipelineInv, media
<1> QED BY <1>2, <1>3, <1>4 DEF IInv

LEMMA StartInv == IInv /\ Start => IInv'
<1> SUFFICES ASSUME IInv, Start PROVE IInv'
  OBVIOUS
<1>1. /\ at = "configured" /\ at' = "started" /\ Setup /\ UNCHANGED portal /\ UNCHANGED <<kept, strays>>
  BY DEF Start, Setup, setup, promise
<1>2. TypeOK' /\ PortalInv'
  BY <1>1 DEF Setup, IInv, TypeOK, PortalInv, portal, Starting
<1>3. ChoiceInv'
  BY <1>1, SetupKeeps DEF IInv, ChoiceInv, Starting
<1>4. PipelineInv'
  <2>1. PICK codec \in NegotiatedCodecs :
          pipeline = [geometry |-> Negotiated, codec |-> codec, state |-> Stage, gst |-> Stage]
    BY <1>1 DEF IInv, PipelineInv
  <2>2. pipeline' = [geometry |-> Negotiated, codec |-> codec, state |-> "playing", gst |-> "playing"]
    BY <2>1 DEF Start
  <2>3. Stage' = "playing"
    BY <1>1 DEF Stage
  <2> QED BY <1>1, <2>2, <2>3, SetupKeeps DEF IInv, PipelineInv
<1> QED BY <1>2, <1>3, <1>4 DEF IInv

LEMMA PublishInv == IInv /\ Publish => IInv'
<1> SUFFICES ASSUME IInv, Publish PROVE IInv'
  OBVIOUS
<1>1. /\ at = "started" /\ at' = "streaming" /\ Setup /\ kept' = cast /\ cast' = "none"
      /\ UNCHANGED <<request, listening, answer, inbox, pipeline, strays>>
  BY DEF Publish, Setup, setup, promise
<1>2. TypeOK' /\ PortalInv'
  BY <1>1 DEF Setup, IInv, TypeOK, PortalInv, Starting, Casts
<1>3. ChoiceInv'
  BY <1>1, SetupKeeps DEF IInv, ChoiceInv, Starting
<1>4. PipelineInv'
  <2>1. Stage' = "playing" /\ Stage = "playing"
    BY <1>1 DEF Stage
  <2> QED BY <1>1, <2>1, SetupKeeps DEF IInv, PipelineInv
<1> QED BY <1>2, <1>3, <1>4 DEF IInv

---------------------------------------------------------------------------
\* Endings

\* The Drop leaves nothing behind of a pipeline at any step.
LEMMA NothingLeft == IInv => LeftBy(pipeline) = {}
<1>1. CASE IInv /\ at \in {"built", "configured", "started", "streaming"}
  <2>1. pipeline.state = pipeline.gst
    BY <1>1, PipelineKnown
  <2> QED BY <2>1 DEF LeftBy
<1>2. CASE IInv /\ at \notin {"built", "configured", "started", "streaming"}
  BY <1>2 DEF IInv, PipelineInv, LeftBy
<1> QED BY <1>1, <1>2

\* Whatever ends a session leaves what its beginning finds.
LEMMA EndingInv ==
  ASSUME IInv, Locals, at' \in {"ended", "gone"}, UNCHANGED setup, selected' = None, m4' = None,
         kept' \in {kept, "none"}, strays' \subseteq strays \cup {"half"}
  PROVE  IInv'
<1>1. TypeOK'
  BY DEF IInv, TypeOK, Locals, setup, Casts, GstStates
<1>2. ChoiceInv' /\ PortalInv' /\ PipelineInv'
  BY DEF IInv, Locals, ChoiceInv, PortalInv, PipelineInv, Starting
<1> QED BY <1>1, <1>2 DEF IInv

Ending == FailsBefore \/ Fails \/ Refused \/ TimesOut \/ StartFails \/ Stop \/ Panic

\* What an ending leaves of pipelines, and of the promise.
LEMMA EndingLeaves ==
  ASSUME IInv, Ending
  PROVE  /\ Locals /\ at' \in {"ended", "gone"} /\ UNCHANGED setup /\ selected' = None /\ m4' = None
         /\ kept' \in {kept, "none"} /\ strays' \subseteq strays \cup {"half"}
         /\ at \notin {"ended", "gone"}
<1>1. CASE FailsBefore \/ Refused \/ TimesOut
  BY <1>1 DEF FailsBefore, Refused, TimesOut, Teardown
<1>2. CASE Fails \/ Stop
  BY <1>2, NothingLeft DEF Fails, Stop, Teardown
<1>3. CASE Panic
  BY <1>3, NothingLeft DEF Panic, Starting
<1>4. CASE StartFails
  <2>1. PICK gst \in {"null", "half"} : strays' = strays \cup LeftBy([pipeline EXCEPT !.gst = gst])
    BY <1>4 DEF StartFails
  <2>2. PICK codec \in NegotiatedCodecs :
          pipeline = [geometry |-> Negotiated, codec |-> codec, state |-> Stage, gst |-> Stage]
    BY <1>4 DEF StartFails, IInv, PipelineInv
  <2>3. [pipeline EXCEPT !.gst = gst].gst = gst
    BY <2>2
  <2>4. LeftBy([pipeline EXCEPT !.gst = gst]) \subseteq {"half"}
    BY <2>1, <2>3, Zenon DEF LeftBy
  <2> QED BY <1>4, <2>1, <2>4 DEF StartFails, Teardown
<1> QED BY <1>1, <1>2, <1>3, <1>4 DEF Ending

LEMMA NextSessionInv == IInv /\ NextSession => IInv'
<1> SUFFICES ASSUME IInv, NextSession PROVE IInv'
  OBVIOUS
<1>1. TypeOK'
  BY DEF NextSession, IInv, TypeOK, promise, portal, media
<1>2. ChoiceInv' /\ PortalInv' /\ PipelineInv'
  BY DEF NextSession, IInv, ChoiceInv, PortalInv, PipelineInv, promise, portal, media, Starting
<1> QED BY <1>1, <1>2 DEF IInv

LEMMA NextInv == IInv /\ [Next]_vars => IInv'
<1> SUFFICES ASSUME IInv, [Next]_vars PROVE IInv'
  OBVIOUS
<1>1. CASE UNCHANGED vars
  <2>1. Setup /\ UNCHANGED <<at, portal, media>>
    BY <1>1 DEF vars, Setup, setup, promise
  <2>2. TypeOK' /\ PortalInv'
    BY <2>1 DEF Setup, IInv, TypeOK, PortalInv, portal, media
  <2>3. ChoiceInv'
    BY <2>1, SetupKeeps DEF IInv, ChoiceInv, Setup
  <2>4. PipelineInv'
    BY <2>1, SetupKeeps DEF IInv, PipelineInv, Stage, media
  <2> QED BY <2>2, <2>3, <2>4 DEF IInv
<1>2. CASE Ending
  BY <1>2, EndingLeaves, EndingInv
<1> QED BY <1>1, <1>2, ExchangeInv, PortalStepInv, BuildInv, ConfigureInv, StartInv, PublishInv,
           NextSessionInv DEF Next, Ending

\* What is chosen, asked of the portal and built belongs to this session.
THEOREM MediaInvariance == Spec => []IInv
BY InitInv, NextInv, PTL DEF Spec

---------------------------------------------------------------------------
\* Safety

\* Whatever the order in which call, answer and signal come, an answer that is waited
\* for has been received: a request's signal is subscribed to before it is made.
THEOREM AnswersHeard == Spec => []AnswersAreHeard
<1>1. IInv => AnswersAreHeard
  BY DEF IInv, PortalInv, AnswersAreHeard
<1> QED BY <1>1, MediaInvariance, PTL

\* While a pipeline plays, the connection its cast lives on is not given up by the daemon.
THEOREM CastsOutlivePipelines == Spec => []CastOutlivesPipeline
<1>1. IInv => CastOutlivesPipeline
  <2> SUFFICES ASSUME IInv, Playing
               PROVE  (IF at = "started" THEN cast ELSE kept) \in {"casting", "ended"}
    BY DEF CastOutlivesPipeline
  <2>1. at \in {"started", "streaming"}
    <3>1. CASE at \in {"built", "configured"}
      BY <3>1, PipelineKnown DEF Playing, Stage
    <3> QED BY <3>1 DEF IInv, PipelineInv, Playing
  <2> QED BY <2>1 DEF IInv, PortalInv
<1> QED BY <1>1, MediaInvariance, PTL

\* Every pipeline that was started is stopped by the end of its session, failures and
\* a panic of the daemon included.
THEOREM NothingIsLeft == Spec => []NothingStrays
<1>1. IInv => NothingStrays
  BY DEF IInv, PipelineInv, NothingStrays
<1> QED BY <1>1, MediaInvariance, PTL

\* After M4, this session's offer was chosen from.
LEMMA PromiseMade ==
  ASSUME IInv, m4 # None
  PROVE  offer \in Offers \cup LaterOffers /\ Chosen
BY DEF IInv, TypeOK, ChoiceInv

\* M4 names one mode, profile and level of one entry of the sink's, a level that can
\* carry the mode and a mode the source can produce, for any offer.
THEOREM PromisesAreConsistent == Spec => []PromiseIsConsistent
<1>1. IInv => PromiseIsConsistent
  <2> SUFFICES ASSUME IInv, m4 # None, selected # None
               PROVE  \E i \in DOMAIN offer, bit \in ModeBits, level \in LevelBits :
                        /\ m4 = [profile |-> {Baseline}, level |-> {level}, cea |-> {bit}]
                        /\ offer[i] # Malformed
                        /\ bit \in offer[i].cea /\ level \in offer[i].level /\ Baseline \in offer[i].profile
                        /\ FrameBlocks(CeaModes[bit]) <= Levels[level].frame
                        /\ FrameBlocks(CeaModes[bit]) * CeaModes[bit].framerate <= Levels[level].second
                        /\ ~CeaModes[bit].interlaced /\ Within(CeaModes[bit], config)
                        /\ selected = GeometryOf(CeaModes[bit])
    BY DEF PromiseIsConsistent
  <2> DEFINE choice == SelectVideoMode(offer, config)
  <2>1. offer \in Offers \cup LaterOffers /\ choice # None /\ selected = choice.geometry /\ m4 = choice.entry
    BY PromiseMade DEF Chosen
  <2>2. PICK i \in DOMAIN offer, bit \in ModeBits, level \in LevelBits :
          /\ <<i, bit>> \in Candidates(offer, config)
          /\ level \in Sufficient(offer[i].level, CeaModes[bit])
          /\ choice = ChoiceOf(bit, level)
    BY <2>1, ChoiceMade
  <2>3. /\ offer[i] # Malformed /\ bit \in offer[i].cea /\ Baseline \in offer[i].profile
        /\ ~CeaModes[bit].interlaced /\ Within(CeaModes[bit], config)
    BY <2>2 DEF Candidates, Fits
  <2>4. /\ level \in offer[i].level
        /\ FrameBlocks(CeaModes[bit]) <= Levels[level].frame
        /\ FrameBlocks(CeaModes[bit]) * CeaModes[bit].framerate <= Levels[level].second
    BY <2>2 DEF Sufficient, Carries
  <2> HIDE DEF choice
  <2>5. /\ selected = GeometryOf(CeaModes[bit])
        /\ m4 = [profile |-> {Baseline}, level |-> {level}, cea |-> {bit}]
    BY <2>1, <2>2 DEF ChoiceOf
  <2> QED BY <2>3, <2>4, <2>5
<1> QED BY <1>1, MediaInvariance, PTL

\* Of what the sink and the source can both do, M4 names the largest and, of that size,
\* the fastest, for any offer.
THEOREM PromisesAreBest == Spec => []PromiseIsBest
<1>1. IInv => PromiseIsBest
  <2> SUFFICES ASSUME IInv, m4 # None, offer # None, offer # <<>>, offer[1] # Malformed,
                      NEW j \in DOMAIN offer, NEW b \in ModeBits, NEW l \in LevelBits,
                      offer[j] # Malformed,
                      b \in offer[j].cea, l \in offer[j].level, Baseline \in offer[j].profile,
                      ~CeaModes[b].interlaced, Within(CeaModes[b], config),
                      FrameBlocks(CeaModes[b]) <= Levels[l].frame,
                      FrameBlocks(CeaModes[b]) * CeaModes[b].framerate <= Levels[l].second
               PROVE  /\ selected # None
                      /\ selected.width * selected.height >= CeaModes[b].width * CeaModes[b].height
                      /\ selected.width * selected.height = CeaModes[b].width * CeaModes[b].height
                           => selected.framerate >= CeaModes[b].framerate
    BY DEF PromiseIsBest
  <2> DEFINE choice == SelectVideoMode(offer, config)
  <2>1. offer \in Offers \cup LaterOffers /\ Chosen /\ Readable(offer)
    BY PromiseMade DEF Readable
  <2>2. <<j, b>> \in Candidates(offer, config)
    <3>1. l \in Sufficient(offer[j].level, CeaModes[b])
      BY DEF Sufficient, Carries
    <3> QED BY <3>1 DEF Candidates, Fits
  <2>3. PICK i \in DOMAIN offer, bit \in ModeBits, level \in LevelBits :
          /\ choice = ChoiceOf(bit, level) /\ choice # None
          /\ \A d \in Candidates(offer, config) : ~Beats(d, <<i, bit>>)
    BY <2>1, <2>2, ChoiceMade
  <2>4. ~Beats(<<j, b>>, <<i, bit>>)
    BY <2>2, <2>3
  <2>5. selected = GeometryOf(CeaModes[bit])
    BY <2>1, <2>3 DEF Chosen, ChoiceOf
  <2>6. /\ selected # None /\ selected.width = CeaModes[bit].width /\ selected.height = CeaModes[bit].height
        /\ selected.framerate = CeaModes[bit].framerate
    BY <2>5, NamesTyped, <2>3, ConstantsAssumption DEF GeometryOf
  <2>7. <<i, bit>> \in Nat \X ModeBits /\ <<j, b>> \in Nat \X ModeBits
    BY <2>1, <2>3, OffersTyped
  <2>8. /\ Pixels(<<i, bit>>) \in Nat /\ Pixels(<<j, b>>) \in Nat
        /\ CeaModes[bit].framerate \in Nat /\ CeaModes[b].framerate \in Nat
    <3>1. \A c \in Nat \X ModeBits : Pixels(c) \in Nat
      BY PixelsBounded
    <3> QED BY <2>7, <3>1, ModesTyped
  <2>9. /\ Pixels(<<i, bit>>) >= Pixels(<<j, b>>)
        /\ Pixels(<<i, bit>>) = Pixels(<<j, b>>) => CeaModes[bit].framerate >= CeaModes[b].framerate
    BY <2>4, <2>8, SMT DEF Beats
  <2> QED BY <2>6, <2>9 DEF Pixels
<1> QED BY <1>1, MediaInvariance, PTL

\* What plays has the geometry that this session's M4 promised, and the profile, unless
\* a codec was forced.
THEOREM StreamsKeepPromises == Spec => []StreamKeepsPromise
<1>1. ASSUME IInv, Playing
      PROVE  /\ at \in {"started", "streaming"} /\ Chosen /\ offer \in Offers \cup LaterOffers
             /\ pipeline.geometry = Negotiated /\ pipeline.codec \in NegotiatedCodecs
  <2>1. at \in {"started", "streaming"}
    <3>1. CASE at \in {"built", "configured"}
      BY <1>1, <3>1, PipelineKnown DEF Stage, Playing
    <3> QED BY <1>1, <3>1 DEF IInv, PipelineInv, Playing
  <2> QED BY <1>1, <2>1, PipelineKnown DEF IInv, TypeOK, ChoiceInv, Starting
<1>2. ASSUME IInv, Playing, SelectVideoMode(offer, config) # None \/ extend \/ config = OwnGeometry
      PROVE  \E bit \in m4.cea : pipeline.geometry = GeometryOf(CeaModes[bit])
  <2> DEFINE choice == SelectVideoMode(offer, config)
  <2>1. CASE choice = None
    <3>1. m4.cea = {7} /\ selected = None
      BY <1>1, <1>2, <2>1 DEF Chosen, OwnFormats
    <3>2. config = OwnGeometry
      BY <1>2, <2>1 DEF IInv, TypeOK
    <3>3. Negotiated = OwnGeometry
      BY <3>1, <3>2, NegotiatedOwn
    <3> QED BY <1>1, <1>2, <3>1, <3>3 DEF OwnGeometry
  <2>2. CASE choice # None
    <3>1. PICK i \in DOMAIN offer, bit \in ModeBits, level \in LevelBits : choice = ChoiceOf(bit, level)
      BY <1>1, <1>2, <2>2, ChoiceMade
    <3>2. selected = choice.geometry /\ m4 = choice.entry
      BY <1>1, <1>2, <2>2 DEF Chosen
    <3> HIDE DEF choice
    <3>3. selected = GeometryOf(CeaModes[bit]) /\ m4.cea = {bit}
      BY <3>1, <3>2 DEF ChoiceOf
    <3>4. Negotiated = selected
      BY <3>3, NamesTyped, ConstantsAssumption DEF Negotiated
    <3> QED BY <1>1, <1>2, <3>3, <3>4
  <2> QED BY <2>1, <2>2
<1>3. ASSUME IInv, Playing, forced = None
      PROVE  ProfileOf(pipeline.codec) \in m4.profile
  <2>1. pipeline.codec \in {"H264", "H264Hardware"}
    BY <1>1, <1>3 DEF NegotiatedCodecs, BestCodecs, NegotiatesHevc
  <2>2. m4.profile = {Baseline}
    <3> DEFINE choice == SelectVideoMode(offer, config)
    <3>1. CASE choice = None
      BY <1>1, <1>3, <3>1 DEF Chosen, OwnFormats
    <3>2. CASE choice # None
      <4>1. PICK i \in DOMAIN offer, bit \in ModeBits, level \in LevelBits : choice = ChoiceOf(bit, level)
        BY <1>1, <1>3, <3>2, ChoiceMade
      <4>2. m4 = choice.entry
        BY <1>1, <1>3, <3>2 DEF Chosen
      <4> HIDE DEF choice
      <4> QED BY <4>1, <4>2 DEF ChoiceOf
    <3> QED BY <3>1, <3>2
  <2> QED BY <2>1, <2>2 DEF ProfileOf
<1>4. IInv => StreamKeepsPromise
  BY <1>2, <1>3 DEF StreamKeepsPromise
<1> QED BY <1>4, MediaInvariance, PTL

---------------------------------------------------------------------------
\* Refinement

\* A pipeline plays in two of the steps, once it was started.
LEMMA PlayingKnown ==
  ASSUME IInv
  PROVE  /\ Playing <=> at \in {"started", "streaming"}
         /\ Playing => pipeline.geometry = Negotiated
<1>1. CASE at \in {"built", "configured", "started", "streaming"}
  BY <1>1, PipelineKnown DEF Playing, Stage
<1>2. CASE at \notin {"built", "configured", "started", "streaming"}
  BY <1>2 DEF IInv, PipelineInv, Playing
<1> QED BY <1>1, <1>2

\* How VideoModes sees the steps.
Seen ==
  /\ at \in {"ended", "gone"} => ModesAt = "ended" /\ ModesStream = None
  /\ at = "asked" => ModesAt = "asked" /\ ModesStream = None
  /\ at \in {"started", "streaming"} => ModesAt = "streaming" /\ ModesStream = Negotiated
  /\ at \in {"promised"} \cup (Starting \ {"started"}) => ModesAt = "promised" /\ ModesStream = None
  /\ at \in {"asked", "promised", "streaming", "ended", "gone"} \cup Starting

LEMMA ModesSeen == IInv => Seen
BY PlayingKnown DEF Seen, ModesAt, ModesStream, Starting, IInv, TypeOK

LEMMA ModesSeenNext == IInv' => Seen'
BY ModesSeen, PTL

LEMMA Stutters ==
  ASSUME IInv, IInv', Setup,
         \/ at' = at
         \/ {at, at'} \subseteq {"promised"} \cup (Starting \ {"started"})
         \/ {at, at'} \subseteq {"started", "streaming"}
  PROVE  UNCHANGED Modes!vars
<1>1. Negotiated' = Negotiated
  BY SetupKeeps
<1>2. Seen /\ Seen'
  BY ModesSeen, ModesSeenNext
<1>3. ModesAt' = ModesAt /\ ModesStream' = ModesStream
  BY <1>1, <1>2 DEF Seen, Starting
<1> QED BY <1>3 DEF Modes!vars, Setup

LEMMA StartRefined ==
  ASSUME IInv, IInv', Start
  PROVE  Modes!StartNegotiatedStream
<1>1. at = "configured" /\ at' = "started" /\ Setup
  BY DEF Start, Setup, setup, promise
<1>2. ModesAt = "promised" /\ ModesAt' = "streaming" /\ ModesStream' = Negotiated'
  <2>1. Seen /\ Seen'
    BY ModesSeen, ModesSeenNext
  <2> QED BY <1>1, <2>1 DEF Seen, Starting
<1>3. Negotiated' = IF selected # None THEN selected ELSE Modes!Unselected
  BY <1>1, SetupKeeps DEF Negotiated, Modes!Unselected
<1> QED BY <1>1, <1>2, <1>3 DEF Modes!StartNegotiatedStream, Setup

LEMMA StepRefined == IInv /\ IInv' /\ [Next]_vars => [Modes!Next]_(Modes!vars)
<1> SUFFICES ASSUME IInv, IInv', [Next]_vars PROVE [Modes!Next]_(Modes!vars)
  OBVIOUS
<1>1. CASE Exchange
  BY <1>1 DEF Exchange, Modes!Exchange, Modes!Next, ModesAt, ModesStream, Playing, setup, media, IInv, PipelineInv
<1>2. CASE Play \/ NewCapture \/ Ask \/ PortalAnswers \/ Granted \/ OpenRemote \/ UserStops
  <2>1. /\ Setup
        /\ at' = at \/ {at, at'} \subseteq {"promised"} \cup (Starting \ {"started"})
    BY <1>2 DEF Setup, setup, promise, Play, NewCapture, Ask, Subscribe, Call, PortalAnswers, Granted,
                OpenRemote, UserStops, Starting
  <2> QED BY <2>1, Stutters
<1>3. CASE Build \/ Configure \/ Publish
  <2>1. /\ Setup
        /\ \/ {at, at'} \subseteq {"promised"} \cup (Starting \ {"started"})
           \/ {at, at'} \subseteq {"started", "streaming"}
    BY <1>3 DEF Setup, setup, promise, Build, Configure, Publish, Starting
  <2> QED BY <2>1, Stutters
<1>4. CASE Start
  BY <1>4, StartRefined DEF Modes!Next
<1>5. CASE Ending
  <2>1. /\ at' \in {"ended", "gone"} /\ at \notin {"ended", "gone"} /\ UNCHANGED setup
        /\ selected' = None /\ m4' = None /\ pipeline' = None
    BY <1>5, EndingLeaves DEF Locals
  <2>2. ModesAt # "ended" /\ ModesAt' = "ended" /\ ModesStream' = None
    BY <2>1 DEF ModesAt, ModesStream, Playing
  <2> QED BY <2>1, <2>2 DEF Modes!Teardown, Modes!Next, setup
<1>6. CASE NextSession
  BY <1>6 DEF NextSession, Modes!NextSession, Modes!Next, ModesAt, ModesStream, Playing, promise, portal,
              media, IInv, PipelineInv
<1>7. CASE UNCHANGED vars
  <2>1. Setup /\ at' = at
    BY <1>7 DEF vars, Setup, setup, promise
  <2> QED BY <2>1, Stutters
<1> QED BY <1>1, <1>2, <1>3, <1>4, <1>5, <1>6, <1>7 DEF Next, Ending

\* Whatever fails or is stopped, in however many sessions, what is promised of the
\* picture is what VideoModes has of it.
THEOREM SessionsImplementModes == Spec => ImplementsModes
<1>1. Init => Modes!Init
  BY DEF Init, Modes!Init, ModesAt, ModesStream, Playing
<1> QED BY <1>1, StepRefined, MediaInvariance, PTL DEF Spec, ImplementsModes, Modes!Spec
=============================================================================
