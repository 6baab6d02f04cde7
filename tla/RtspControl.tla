---------------------------- MODULE RtspControl ----------------------------
(***************************************************************************)
(* The RTSP control connection of a cast: RtspClient, driven by the        *)
(* daemon's negotiation and then by its keepalive task, against a TV.      *)
(*                                                                         *)
(* One TCP connection carries requests and answers both ways.  The source  *)
(* drives M1-M5, then the TV asks for SETUP and PLAY, and afterwards       *)
(* run_keepalive serves the TV and probes it.  The source never compares   *)
(* an answer's CSeq with its request: while it awaits an answer it serves  *)
(* whatever requests of the TV come first and takes the first answer.      *)
(***************************************************************************)
EXTENDS Naturals, Sequences, SequencesExt

CONSTANTS
  Ports,        \* RTP ports a TV may ask for (its RTCP port comes with it)
  DefaultPort,  \* 5004, the destination port when SETUP named none
  TvMay,        \* what this TV may do beyond a WFD exchange, see Unusual
  MaxSeq,       \* CSeq values, used in turn (at most two requests are open)
  None          \* "no value"

\* "pause": ask for PAUSE or DESCRIBE, or for a parameter the source does not know;
\* "blanks": write blanks after the ; of a Transport header;
\* "stall": send the bytes of one message more than 25 s apart.
Unusual == {"pause", "blanks", "stall"}

ASSUME ConstantsAssumption ==
  /\ TvMay \subseteq Unusual
  /\ MaxSeq \in Nat \ {0}
  /\ None \notin Ports \cup {DefaultPort}

VARIABLES
  phase,      \* where the daemon's conversation is
  awaiting,   \* a request of ours has no answer yet (inside read_response)
  cseq,       \* CSeq of our last request
  handling,   \* the SETUP whose authorization we await, or None
  media,      \* reserved sockets, with the TV's RTCP port (media_transport)
  dest,       \* RTP port of the last SETUP (rtp_destination)
  allowed,    \* what the network helper last authorized for the sockets
  stream,     \* what PLAY told the pipeline: destination and sockets
  toTv, toSource,  \* the two directions of the TCP connection
  tv,         \* how far the TV is
  tvAsks,     \* the TV's request that has no answer yet, or None
  tvSeq,      \* CSeq of the TV's last request
  tvMedia,    \* the SETUP whose answer the TV last received, or None
  tvBlocks    \* does the TV answer nothing while its own request is open

source == <<phase, awaiting, cseq, handling, media, dest, allowed, stream>>
television == <<tv, tvAsks, tvSeq, tvMedia, tvBlocks>>
vars == <<source, toTv, toSource, television>>

---------------------------------------------------------------------------
\* Messages.  An answer is a copy of the request it is about: the source does
\* not look at what it copies, the properties do.

SourceRequests == {"options", "capabilities", "formats", "url", "trigger", "keepalive"}
TvRequests == {"OPTIONS", "GET_PARAMETER", "SET_PARAMETER", "SETUP", "PLAY",
               "TEARDOWN", "PAUSE"}

Message == [kind: {"request", "answer", "rest"},
            method: SourceRequests \cup TvRequests,
            seq: 1..MaxSeq,
            rtp: Ports \cup {None}, rtcp: Ports \cup {None},
            plain: BOOLEAN]

NextSeq(n) == (n % MaxSeq) + 1

Request(m, n)  == [kind |-> "request", method |-> m, seq |-> n,
                   rtp |-> None, rtcp |-> None, plain |-> TRUE]
Answer(msg)    == [msg EXCEPT !.kind = "answer"]
IsAnswer(msg)  == msg.kind = "answer"
IsRequest(msg) == msg.kind = "request"

\* Transport reserved for SETUP, and what the helper permits for it.
Media == [rtcp: Ports \cup {None}]
Stream == [rtp: Ports \cup {DefaultPort}, media: Media \cup {None}]

ASSUME NoneAssumption == None \notin Message \cup Media \cup Stream

\* "over": the task that owned the connection returned (and reported the end
\* of the session, if it was streaming).  "stopped": the user stopped us.
Exchange == {"options", "capabilities", "formats", "url", "trigger"}
Phases == {"dial", "listen", "wait_play", "starting", "streaming", "over", "stopped"}
            \cup Exchange
Connected == Exchange \cup {"wait_play", "starting", "streaming"}

NextPhase == [options |-> "capabilities", capabilities |-> "formats",
              formats |-> "url", url |-> "trigger", trigger |-> "wait_play"]

TvStages == {"exchange", "triggered", "ready", "playing", "torn_down", "closed"}

TypeOK ==
  /\ phase \in Phases
  /\ awaiting \in BOOLEAN
  /\ cseq \in 0..MaxSeq
  /\ handling \in Message \cup {None}
  /\ media \in Media \cup {None}
  /\ dest \in Ports \cup {None}
  /\ allowed \in Media \cup {None}
  /\ stream \in Stream \cup {None}
  /\ toTv \in Seq(Message)
  /\ toSource \in Seq(Message)
  /\ tv \in TvStages
  /\ tvAsks \in Message \cup {None}
  /\ tvSeq \in 0..MaxSeq
  /\ tvMedia \in Message \cup {None}
  /\ tvBlocks \in BOOLEAN

\* connect() has a group; the TV may dial us (default), or we dial it first.
Init ==
  /\ phase \in {"dial", "listen"}
  /\ awaiting = FALSE /\ cseq = 0 /\ handling = None
  /\ media = None /\ dest = None /\ allowed = None /\ stream = None
  /\ toTv = <<>> /\ toSource = <<>>
  /\ tv = "exchange" /\ tvAsks = None /\ tvSeq = 0 /\ tvMedia = None
  /\ tvBlocks \in BOOLEAN

---------------------------------------------------------------------------
\* Pieces of steps

Say(msg) == toTv' = Append(toTv, msg)

\* The source reads the connection: inside read_response, wait_for_peer_play
\* or the keepalive loop, and not while it awaits an authorization.
Reading ==
  /\ handling = None
  /\ awaiting \/ phase \in {"wait_play", "streaming"}
  /\ phase \in Connected

\* read_message takes the next message, if it is a request or an answer.
Incoming == Head(toSource)
Reads(kind) ==
  /\ Reading
  /\ toSource # <<>>
  /\ Incoming.kind = kind
  /\ toSource' = Tail(toSource)

\* An error ends the negotiation or the keepalive loop: the client is dropped.
Over ==
  /\ phase' = "over"
  /\ awaiting' = FALSE
  /\ handling' = None

\* Requests RtspMessage::parse or the session refuses.
Unsupported(msg) == msg.method = "PAUSE"

---------------------------------------------------------------------------
\* Connecting

\* negotiate_as_client: one of 20 attempts succeeds, or all fail (or the local
\* host turns out to own the group) and we listen instead.
Dial ==
  /\ phase = "dial"
  /\ phase' \in {"options", "listen"}
  /\ UNCHANGED <<awaiting, cseq, handling, media, dest, allowed, stream,
                 toTv, toSource, television>>

\* accept_reverse: the TV connects within 15 s, or not.
AcceptReverse ==
  /\ phase = "listen"
  /\ phase' \in {"options", "over"}
  /\ UNCHANGED <<awaiting, cseq, handling, media, dest, allowed, stream,
                 toTv, toSource, television>>

---------------------------------------------------------------------------
\* Our requests

\* send_options, send_get_parameter, send_set_parameter: the next of M1-M5.
SendRequest ==
  /\ phase \in Exchange
  /\ ~awaiting
  /\ cseq' = NextSeq(cseq)
  /\ Say(Request(phase, cseq'))
  /\ awaiting' = TRUE
  /\ UNCHANGED <<phase, handling, media, dest, allowed, stream, toSource, television>>

\* Mutant: a keepalive timer that does not wait for the last answer.
KeepaliveOverlapping ==
  /\ phase = "streaming" /\ handling = None
  /\ toSource = <<>>
  /\ cseq' = NextSeq(cseq)
  /\ Say(Request("keepalive", cseq'))
  /\ awaiting' = TRUE
  /\ UNCHANGED <<phase, handling, media, dest, allowed, stream, toSource, television>>

\* run_keepalive: 25 s without a complete message, so probe the TV.
SendKeepalive ==
  /\ phase = "streaming" /\ handling = None
  /\ ~awaiting
  /\ toSource = <<>>
  /\ cseq' = NextSeq(cseq)
  /\ Say(Request("keepalive", cseq'))
  /\ awaiting' = TRUE
  /\ UNCHANGED <<phase, handling, media, dest, allowed, stream, toSource, television>>

\* The same, but the 25 s end in the middle of a message: read_message is
\* dropped together with the bytes it had read.
SendKeepaliveTearing ==
  /\ "stall" \in TvMay
  /\ phase = "streaming" /\ handling = None
  /\ ~awaiting
  /\ toSource # <<>>
  /\ cseq' = NextSeq(cseq)
  /\ Say(Request("keepalive", cseq'))
  /\ awaiting' = TRUE
  /\ toSource' = <<[Head(toSource) EXCEPT !.kind = "rest"]>> \o Tail(toSource)
  /\ UNCHANGED <<phase, handling, media, dest, allowed, stream, television>>

\* read_response returns the first answer it sees, whatever its CSeq.
ReadAnswer ==
  /\ Reads("answer")
  /\ awaiting
  /\ awaiting' = FALSE
  /\ phase' = IF phase \in Exchange THEN NextPhase[phase] ELSE phase
  /\ UNCHANGED <<cseq, handling, media, dest, allowed, stream, toTv, television>>

\* wait_for_peer_play and the keepalive loop skip answers.
SkipAnswer ==
  /\ Reads("answer")
  /\ ~awaiting
  /\ UNCHANGED <<source, toTv, television>>

\* What is left of a torn message: nothing that parses as a request, or a line
\* that begins with RTSP/1.0 and passes for an answer.
ReadRest ==
  /\ Reads("rest")
  /\ \/ Over
     \/ /\ awaiting' = FALSE
        /\ UNCHANGED <<phase, handling>>
  /\ UNCHANGED <<cseq, media, dest, allowed, stream, toTv, television>>

---------------------------------------------------------------------------
\* The TV's requests: build_peer_request_response and what its callers do

ReadsRequest(methods) == Reads("request") /\ Incoming.method \in methods

\* Mutant: read_response drops the requests it meets.
AnswerPeerDropping ==
  /\ ReadsRequest({"OPTIONS", "GET_PARAMETER", "SET_PARAMETER"})
  /\ IF awaiting THEN UNCHANGED toTv ELSE Say(Answer(Incoming))
  /\ UNCHANGED <<source, television>>

\* OPTIONS, GET_PARAMETER, SET_PARAMETER: answered wherever they are read.
AnswerPeer ==
  /\ ReadsRequest({"OPTIONS", "GET_PARAMETER", "SET_PARAMETER"})
  /\ Say(Answer(Incoming))
  /\ UNCHANGED <<source, television>>

\* A request we cannot parse or refuse to serve is an error, not an answer.
RefusePeer ==
  /\ Reads("request")
  /\ Unsupported(Incoming)
  /\ Over
  /\ UNCHANGED <<cseq, media, dest, allowed, stream, toTv, television>>

\* SETUP: reserve the sockets once, note the TV's RTCP port (this parser trims
\* blanks), and ask the network helper to authorize them.
PeerSetup ==
  /\ ReadsRequest({"SETUP"})
  /\ media' = [rtcp |-> Incoming.rtcp]
  /\ handling' = Incoming
  /\ UNCHANGED <<phase, awaiting, cseq, dest, allowed, stream, toTv, television>>

\* Mutant: rtp_destination keeps the port of the first SETUP.
FirstDestination(setup) == IF setup.plain /\ dest = None THEN setup.rtp ELSE dest

\* process_setup_with_ports: the RTP port (this parser does not trim).
Destination(setup) == IF setup.plain THEN setup.rtp ELSE dest

\* Mutant: SETUP is answered whether or not the helper agreed.
SetupAnsweredAnyway ==
  /\ handling # None
  /\ \/ allowed' = media
     \/ UNCHANGED allowed
  /\ dest' = Destination(handling)
  /\ Say(Answer(handling))
  /\ handling' = None
  /\ UNCHANGED <<phase, awaiting, cseq, media, stream, toSource, television>>

\* The helper authorized the sockets: only now are they advertised.
SetupGranted ==
  /\ handling # None
  /\ allowed' = media
  /\ dest' = Destination(handling)
  /\ Say(Answer(handling))
  /\ handling' = None
  /\ UNCHANGED <<phase, awaiting, cseq, media, stream, toSource, television>>

\* The sockets could not be reserved, or the helper refused, is gone, or did
\* not answer within 10 s (it may have changed the rules all the same).
SetupRefused ==
  /\ handling # None
  /\ allowed' \in {allowed, media}
  /\ Over
  /\ UNCHANGED <<cseq, media, dest, stream, toTv, toSource, television>>

\* PLAY: always answered; its transport matters to wait_for_peer_play only.
PeerPlay ==
  /\ ReadsRequest({"PLAY"})
  /\ Say(Answer(Incoming))
  /\ IF phase = "wait_play"
     THEN /\ phase' = "starting"
          /\ stream' = [rtp |-> IF dest = None THEN DefaultPort ELSE dest,
                        media |-> media]
     ELSE UNCHANGED <<phase, stream>>
  /\ UNCHANGED <<awaiting, cseq, handling, media, dest, allowed, television>>

\* TEARDOWN: answered everywhere, but it is the keepalive loop that ends; inside
\* read_response and wait_for_peer_play the wait goes on.
PeerTeardown ==
  /\ ReadsRequest({"TEARDOWN"})
  /\ Say(Answer(Incoming))
  /\ IF phase = "streaming" /\ ~awaiting THEN Over ELSE UNCHANGED <<phase, awaiting, handling>>
  /\ UNCHANGED <<cseq, media, dest, allowed, stream, television>>

\* wait_for_peer_play gives up after 15 s.
PlayTimeout ==
  /\ phase = "wait_play" /\ handling = None
  /\ Over
  /\ UNCHANGED <<cseq, media, dest, allowed, stream, toTv, toSource, television>>

\* start_negotiated_stream: capture and pipeline start, or fail; nobody reads
\* the connection meanwhile.  Then the keepalive task owns it.
StartStream ==
  /\ phase = "starting"
  /\ phase' \in {"streaming", "over"}
  /\ UNCHANGED <<awaiting, cseq, handling, media, dest, allowed, stream,
                 toTv, toSource, television>>

\* Mutant: only the keepalive loop notices the end of the connection.
EofOutsideRead ==
  /\ tv = "closed"
  /\ Reading /\ ~awaiting
  /\ Over
  /\ UNCHANGED <<cseq, media, dest, allowed, stream, toTv, toSource, television>>

\* The TV closed the connection: what it sent has been read, or is lost because
\* a write of ours met the closed connection.
Eof ==
  /\ tv = "closed"
  /\ Reading
  /\ Over
  /\ UNCHANGED <<cseq, media, dest, allowed, stream, toTv, toSource, television>>

\* SIGINT or SIGTERM: the process ends its session and exits.
Stop ==
  /\ phase \notin {"over", "stopped"}
  /\ phase' = "stopped"
  /\ UNCHANGED <<awaiting, cseq, handling, media, dest, allowed, stream,
                 toTv, toSource, television>>

---------------------------------------------------------------------------
\* The TV: one request open at a time, served in order

TvConnected == phase \in Connected /\ tv # "closed"

\* The TV tells requests from answers: it may finish its own request before it
\* serves one of ours that came earlier, but takes each kind in order.
TvTakes(i, kind) ==
  /\ TvConnected
  /\ toTv[i].kind = kind
  /\ \A j \in 1..(i - 1) : toTv[j].kind # kind
  /\ toTv' = RemoveAt(toTv, i)

\* It answers a request of ours, and learns what the exchange has reached.
TvAnswer(i) ==
  /\ TvTakes(i, "request")
  /\ tvBlocks => tvAsks = None
  /\ toSource' = Append(toSource, Answer(toTv[i]))
  /\ tv' = IF toTv[i].method = "trigger" THEN "triggered" ELSE tv
  /\ UNCHANGED <<source, tvAsks, tvSeq, tvMedia, tvBlocks>>

\* It reads our answer to its request.
TvReadAnswer(i) ==
  /\ TvTakes(i, "answer")
  /\ tvAsks' = None
  /\ tvMedia' = IF toTv[i].method = "SETUP" THEN toTv[i] ELSE tvMedia
  /\ tv' = CASE toTv[i].method = "SETUP" -> "ready"
             [] toTv[i].method = "PLAY"  -> "playing"
             [] OTHER                    -> tv
  /\ UNCHANGED <<source, toSource, tvSeq, tvBlocks>>

TvAsk(msg) ==
  /\ TvConnected
  /\ tvAsks = None
  /\ tvSeq' = NextSeq(tvSeq)
  /\ tvAsks' = msg
  /\ toSource' = Append(toSource, msg)
  /\ UNCHANGED <<source, toTv, tvMedia, tvBlocks>>

\* M2, status queries and requests for a key frame.
TvAskParameter ==
  /\ \/ tv = "exchange" /\ TvAsk(Request("OPTIONS", NextSeq(tvSeq)))
     \/ tv = "playing" /\ \E m \in {"GET_PARAMETER", "SET_PARAMETER"} : TvAsk(Request(m, NextSeq(tvSeq)))
     \/ tv = "playing" /\ "pause" \in TvMay /\ TvAsk(Request("PAUSE", NextSeq(tvSeq)))
  /\ UNCHANGED tv

\* M6; it may try again with another port before it plays.
TvAskSetup(rtp, rtcp, plain) ==
  /\ tv \in {"triggered", "ready"}
  /\ plain \/ "blanks" \in TvMay
  /\ TvAsk([Request("SETUP", NextSeq(tvSeq)) EXCEPT !.rtp = rtp, !.rtcp = rtcp, !.plain = plain])
  /\ UNCHANGED tv

TvAskPlay ==
  /\ tv = "ready"
  /\ TvAsk(Request("PLAY", NextSeq(tvSeq)))
  /\ UNCHANGED tv

\* It ends the session; it need not answer, or close, anything after that.
TvTeardown ==
  /\ tv \in {"ready", "playing"}
  /\ TvAsk(Request("TEARDOWN", NextSeq(tvSeq)))
  /\ tv' = "torn_down"

TvClose ==
  /\ TvConnected
  /\ tv' = "closed"
  /\ UNCHANGED <<source, toTv, toSource, tvAsks, tvSeq, tvMedia, tvBlocks>>
---------------------------------------------------------------------------
Connecting == Dial \/ AcceptReverse

Asking == SendRequest \/ SendKeepalive \/ SendKeepaliveTearing

\* Everything the source does with what the TV sends, or has stopped sending.
Serving ==
  \/ ReadAnswer \/ SkipAnswer \/ ReadRest
  \/ AnswerPeer \/ RefusePeer \/ PeerSetup \/ SetupGranted \/ SetupRefused
  \/ PeerPlay \/ PeerTeardown \/ Eof

Tv ==
  \/ \E i \in DOMAIN toTv : TvAnswer(i) \/ TvReadAnswer(i)
  \/ TvAskParameter
  \/ \E rtp \in Ports, plain \in BOOLEAN : \E rtcp \in {rtp, None} : TvAskSetup(rtp, rtcp, plain)
  \/ TvAskPlay \/ TvTeardown \/ TvClose

Next == Connecting \/ Asking \/ Serving \/ PlayTimeout \/ StartStream \/ Stop \/ Tv

Spec == Init /\ [][Next]_vars

---------------------------------------------------------------------------
\* Safety

SetupOpen == tvAsks # None /\ tvAsks.method = "SETUP"

\* No TV learns of media ports the helper has not authorized: whenever an answer
\* to SETUP is on its way, or was received and not superseded by a new
\* SETUP, what the helper permits is exactly the RTCP flow that SETUP named.
AdvertisedIsAuthorized ==
  /\ \A i \in DOMAIN toTv :
       IsAnswer(toTv[i]) /\ toTv[i].method = "SETUP" => allowed = [rtcp |-> toTv[i].rtcp]
  /\ tvMedia # None /\ ~SetupOpen => allowed = [rtcp |-> tvMedia.rtcp]

\* Media goes where the TV's last SETUP said, on the authorized sockets, with
\* the RTCP port it named, however often it repeated SETUP before PLAY.
StreamMatchesSetup ==
  stream # None =>
    /\ tvMedia # None
    /\ stream.rtp = tvMedia.rtp
    /\ stream.media = allowed
    /\ stream.media.rtcp = tvMedia.rtcp

\* Although CSeq is never compared, an answer the source takes is the answer
\* to the request it is waiting on: no step ever abandons a request.
AnswersMatch ==
  [][ awaiting /\ ~awaiting' /\ phase' \in Connected =>
        Incoming.kind = "answer" /\ Incoming.seq = cseq ]_vars

\* daemon/lib.rs: "The keepalive loop only returns when the session is over: a
\* TEARDOWN from the sink, or the control connection dropping."  It does not
\* hold of every TV: one that asks for PAUSE, which our answer to OPTIONS offers,
\* or stalls in mid-message is ended too (README, section 5).
EndsOnlyWhenOver ==
  [][phase = "streaming" /\ phase' = "over" => tv \in {"torn_down", "closed"}]_vars

---------------------------------------------------------------------------
\* The inductive invariant of the proofs

Has(queue, kind)  == \E i \in DOMAIN queue : queue[i].kind = kind
Once(queue, kind) ==
  \A i \in DOMAIN queue, j \in DOMAIN queue : queue[i].kind = kind /\ queue[j].kind = kind => i = j

\* The TV's open request is in one place at most: on its way, in our hands, or
\* answered; and nothing else of the TV's is.
TvOpen ==
  /\ \A msg \in ToSet(toSource) : IsRequest(msg) => msg = tvAsks
  /\ \A msg \in ToSet(toTv) : IsAnswer(msg) => tvAsks # None /\ msg = Answer(tvAsks)
  /\ handling # None => handling = tvAsks /\ handling.method = "SETUP"
  /\ Once(toSource, "request") /\ Once(toTv, "answer")
  /\ Has(toSource, "request") => handling = None /\ ~Has(toTv, "answer")
  /\ handling # None => ~Has(toTv, "answer")

\* A SETUP in our hands has its sockets.
Reserved == handling # None => media = [rtcp |-> handling.rtcp]

IInv == TypeOK /\ TvOpen /\ Reserved /\ AdvertisedIsAuthorized

\* With a TV that sends a message in one go: so is our open request, and it is the
\* one we await.
OurOpen ==
  /\ ~Has(toSource, "rest")
  /\ phase \in {"dial", "listen"} => toTv = <<>> /\ toSource = <<>> /\ ~awaiting /\ handling = None
  /\ phase \in Connected =>
       /\ \A msg \in ToSet(toTv) :
            IsRequest(msg) => /\ awaiting /\ msg.seq = cseq
                              /\ msg.method = "trigger" => phase = "trigger"
       /\ \A msg \in ToSet(toSource) : IsAnswer(msg) => awaiting /\ msg.seq = cseq
       /\ Once(toTv, "request") /\ Once(toSource, "answer")
       /\ Has(toTv, "request") => ~Has(toSource, "answer")
       /\ phase \in {"wait_play", "starting"} => ~awaiting

\* ... and one that leaves no blanks in its headers: between one SETUP and the next,
\* what we noted is what the TV knows, and once we stream it asks for no other.
SetupFollowed ==
  /\ \A msg \in ToSet(toTv) :
       IsAnswer(msg) /\ msg.method = "SETUP" => dest = msg.rtp /\ media = allowed
  /\ tvMedia # None /\ ~SetupOpen => dest = tvMedia.rtp /\ media = allowed
  /\ SetupOpen => tvAsks.plain /\ tvAsks.rtp \in Ports
  /\ tvMedia # None => tvMedia.rtp \in Ports
  /\ tv = "ready" \/ (tvAsks # None /\ tvAsks.method = "PLAY") => tvMedia # None
  /\ phase \in Exchange \cup {"dial", "listen", "wait_play"} => stream = None
  /\ stream # None => \/ tv \in {"playing", "torn_down", "closed"}
                      \/ tvAsks # None /\ tvAsks.method = "PLAY"
  /\ SetupOpen => stream = None

\* Why a session ends.  A TV asks for SETUP only once it was triggered, and its TEARDOWN
\* is the last it says.
TriggerToCome ==
  \/ phase \in {"dial", "listen"} \cup (Exchange \ {"trigger"})
  \/ phase = "trigger" /\ ~awaiting
  \/ \E msg \in ToSet(toTv) : IsRequest(msg) /\ msg.method = "trigger"
AsksInTurn ==
  /\ TriggerToCome => tv \in {"exchange", "closed"}
  /\ tvAsks # None =>
       /\ tvAsks.method # "PAUSE"
       /\ tvAsks.method \in {"SETUP", "PLAY"} => tv \in {"triggered", "ready", "playing", "closed"}
       /\ tvAsks.method = "TEARDOWN" => tv \in {"torn_down", "closed"}

\* From its PLAY on the TV asks for no SETUP, so no authorization can fail under
\* the stream.
PlayIsLast ==
  phase \in {"starting", "streaming"} =>
    /\ ~SetupOpen
    /\ \/ tv \in {"playing", "torn_down", "closed"}
       \/ tvAsks # None /\ tvAsks.method = "PLAY"

IInvWhole == IInv /\ OurOpen
IInvTurns == IInvWhole /\ AsksInTurn /\ PlayIsLast
IInvPlain == IInvWhole /\ SetupFollowed /\ StreamMatchesSetup

---------------------------------------------------------------------------
\* Liveness

\* Every await of the source but read_response's reading is bounded by a timeout.
SourceFairness ==
  /\ WF_vars(Connecting \/ SendRequest \/ SendKeepalive \/ Serving \/ StartStream)
  /\ WF_vars(PlayTimeout)

\* A TV answers, until it has torn down or closed, and reads what we send it.
TvFairness ==
  /\ SF_vars(tv # "torn_down" /\ \E i \in DOMAIN toTv : TvAnswer(i))
  /\ WF_vars(\E i \in DOMAIN toTv : TvReadAnswer(i))

FairSpec == Spec /\ SourceFairness /\ TvFairness

\* The exchange has no timeouts and both sides may have a request open at the
\* same time: against a TV that answers it gets as far as waiting for PLAY, or
\* the connection ends.
ExchangeEnds == phase \in Exchange ~> phase \notin Exchange

\* Every request of the TV is answered, in whatever phase it arrives, unless
\* the TV leaves or the connection ends; or a keepalive tears a message.
Torn == \E i \in DOMAIN toSource : toSource[i].kind = "rest"
PeerIsAnswered ==
  \/ <>Torn
  \/ tvAsks # None ~> tvAsks = None \/ ~TvConnected \/ tv = "torn_down"

\* When the TV closes the connection, the source's side of it ends too.
CloseIsNoticed == tv = "closed" ~> phase \in {"over", "stopped"}

\* docs/networking.md: "TCP EOF or TEARDOWN ends the session."
TeardownEnds == tv = "torn_down" ~> phase \in {"over", "stopped"}
=============================================================================
