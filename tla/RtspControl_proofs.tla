------------------------- MODULE RtspControl_proofs -------------------------
(***************************************************************************)
(* Proofs about RtspControl, for any ports, and for TVs of every kind      *)
(* where nothing else is said.                                             *)
(***************************************************************************)
EXTENDS RtspControl, SequenceTheorems, TLAPS

USE ConstantsAssumption, NoneAssumption

---------------------------------------------------------------------------
\* Queues

\* What a new last element adds.
LEMMA Appended ==
  ASSUME NEW queue \in Seq(Message), NEW new \in Message
  PROVE  /\ Append(queue, new) \in Seq(Message)
         /\ ToSet(Append(queue, new)) = ToSet(queue) \cup {new}
         /\ \A kind : Has(Append(queue, new), kind) <=> Has(queue, kind) \/ new.kind = kind
         /\ \A kind : Once(queue, kind) /\ (new.kind = kind => ~Has(queue, kind))
                        => Once(Append(queue, new), kind)
<1> DEFINE longer == Append(queue, new)
<1>1. /\ longer \in Seq(Message)
      /\ DOMAIN longer = 1..(Len(queue) + 1) /\ DOMAIN queue = 1..Len(queue) /\ Len(queue) \in Nat
      /\ \A i \in 1..Len(queue) : longer[i] = queue[i]
      /\ longer[Len(queue) + 1] = new
  OBVIOUS
<1>2. Len(queue) + 1 \in DOMAIN longer /\ \A i \in DOMAIN queue : i \in DOMAIN longer
  BY <1>1
<1>3. \A i \in DOMAIN longer : i \in DOMAIN queue \/ i = Len(queue) + 1
  BY <1>1
<1> HIDE DEF longer
<1>4. ToSet(longer) = ToSet(queue) \cup {new}
  BY <1>1, <1>2, <1>3 DEF ToSet
<1>5. \A kind : Has(longer, kind) <=> Has(queue, kind) \/ new.kind = kind
  BY <1>1, <1>2, <1>3 DEF Has
<1>6. ASSUME NEW kind, Once(queue, kind), new.kind = kind => ~Has(queue, kind)
      PROVE  Once(longer, kind)
  BY <1>1, <1>2, <1>3, <1>6 DEF Has, Once
<1> QED BY <1>1, <1>4, <1>5, <1>6 DEF longer

\* What a new first element of another kind adds.
LEMMA Prepended ==
  ASSUME NEW queue \in Seq(Message), NEW new \in Message
  PROVE  /\ ToSet(<<new>> \o queue) = {new} \cup ToSet(queue)
         /\ \A kind : new.kind # kind /\ Has(<<new>> \o queue, kind) => Has(queue, kind)
         /\ \A kind : new.kind # kind /\ Once(queue, kind) => Once(<<new>> \o queue, kind)
<1> DEFINE longer == <<new>> \o queue
<1>1. /\ DOMAIN longer = 1..(Len(queue) + 1) /\ DOMAIN queue = 1..Len(queue) /\ Len(queue) \in Nat
      /\ longer[1] = new
      /\ \A i \in 2..(Len(queue) + 1) : longer[i] = queue[i - 1]
  OBVIOUS
<1>2. \A i \in DOMAIN queue : i + 1 \in DOMAIN longer /\ longer[i + 1] = queue[i]
  BY <1>1
<1>3. \A i \in DOMAIN longer :
        i = 1 \/ (i \in Int /\ i - 1 \in DOMAIN queue /\ longer[i] = queue[i - 1])
  BY <1>1
<1>4. 1 \in DOMAIN longer
  BY <1>1
<1> HIDE DEF longer
<1>5. ToSet(longer) = {new} \cup ToSet(queue)
  BY <1>1, <1>2, <1>3, <1>4 DEF ToSet
<1>6. \A kind : new.kind # kind /\ Has(longer, kind) => Has(queue, kind)
  BY <1>1, <1>3 DEF Has
<1>7. ASSUME NEW kind, new.kind # kind, Once(queue, kind) PROVE Once(longer, kind)
  <2> SUFFICES ASSUME NEW i \in DOMAIN longer, NEW j \in DOMAIN longer,
                      longer[i].kind = kind, longer[j].kind = kind
               PROVE  i = j
    BY DEF Once
  <2>1. i - 1 = j - 1 /\ i \in Int /\ j \in Int
    BY <1>1, <1>3, <1>7 DEF Once
  <2> QED BY <2>1
<1> QED BY <1>5, <1>6, <1>7 DEF longer

\* What is left without the first element.
LEMMA Taken ==
  ASSUME NEW queue \in Seq(Message), queue # <<>>
  PROVE  /\ Tail(queue) \in Seq(Message)
         /\ Head(queue) \in ToSet(queue) /\ Head(queue) \in Message
         /\ Has(queue, Head(queue).kind)
         /\ ToSet(Tail(queue)) \subseteq ToSet(queue)
         /\ \A kind : Has(Tail(queue), kind) => Has(queue, kind)
         /\ \A kind : Once(queue, kind) => Once(Tail(queue), kind)
         /\ Once(queue, Head(queue).kind) => ~Has(Tail(queue), Head(queue).kind)
<1> DEFINE shorter == Tail(queue)
<1>1. /\ shorter \in Seq(Message) /\ Head(queue) = queue[1] /\ 1 \in DOMAIN queue
      /\ Head(queue) \in Message
      /\ DOMAIN shorter = 1..(Len(queue) - 1) /\ DOMAIN queue = 1..Len(queue) /\ Len(queue) \in Nat
      /\ \A i \in 1..(Len(queue) - 1) : shorter[i] = queue[i + 1]
  OBVIOUS
<1>2. \A i \in DOMAIN shorter : i \in Int /\ i + 1 \in DOMAIN queue /\ i + 1 # 1
  BY <1>1
<1> HIDE DEF shorter
<1>3. ToSet(shorter) \subseteq ToSet(queue) /\ Head(queue) \in ToSet(queue)
  BY <1>1, <1>2 DEF ToSet
<1>4. \A kind : Has(shorter, kind) => Has(queue, kind)
  BY <1>1, <1>2 DEF Has
<1>5. ASSUME NEW kind, Once(queue, kind) PROVE Once(shorter, kind)
  <2> SUFFICES ASSUME NEW i \in DOMAIN shorter, NEW j \in DOMAIN shorter,
                      shorter[i].kind = kind, shorter[j].kind = kind
               PROVE  i = j
    BY DEF Once
  <2>1. i + 1 = j + 1
    BY <1>1, <1>2, <1>5 DEF Once
  <2> QED BY <1>2, <2>1
<1>6. Once(queue, Head(queue).kind) => ~Has(shorter, Head(queue).kind)
  BY <1>1, <1>2 DEF Has, Once
<1>7. Has(queue, Head(queue).kind)
  BY <1>1 DEF Has
<1> QED BY <1>1, <1>3, <1>4, <1>5, <1>6, <1>7 DEF shorter

\* Past the first of two joined queues comes the second.
LEMMA BackOfConcat ==
  ASSUME NEW front \in Seq(Message), NEW back \in Seq(Message),
         NEW i \in 1..(Len(front) + Len(back)), i > Len(front)
  PROVE  (front \o back)[i] = back[i - Len(front)]
<1>1. Len(front) \in Nat /\ Len(back) \in Nat
  OBVIOUS
<1>2. \A k \in 1..(Len(front) + Len(back)) :
        (front \o back)[k] = IF k <= Len(front) THEN front[k] ELSE back[k - Len(front)]
  BY ConcatProperties
<1>3. ~(i <= Len(front))
  BY <1>1
<1> QED BY <1>2, <1>3

\* What is left without the element at one place.
LEMMA Removed ==
  ASSUME NEW queue \in Seq(Message), NEW place \in DOMAIN queue
  PROVE  /\ RemoveAt(queue, place) \in Seq(Message)
         /\ queue[place] \in ToSet(queue) /\ queue[place] \in Message
         /\ Has(queue, queue[place].kind)
         /\ ToSet(RemoveAt(queue, place)) \subseteq ToSet(queue)
         /\ \A kind : Has(RemoveAt(queue, place), kind) => Has(queue, kind)
         /\ \A kind : Once(queue, kind) => Once(RemoveAt(queue, place), kind)
         /\ Once(queue, queue[place].kind) => ~Has(RemoveAt(queue, place), queue[place].kind)
<1> DEFINE shorter == RemoveAt(queue, place)
           from(i) == IF i < place THEN i ELSE i + 1
<1>1. DOMAIN queue = 1..Len(queue) /\ Len(queue) \in Nat /\ place \in 1..Len(queue)
  OBVIOUS
<1>2. /\ SubSeq(queue, 1, place - 1) \in Seq(Message)
      /\ Len(SubSeq(queue, 1, place - 1)) = place - 1
      /\ \A i \in 1..(place - 1) : SubSeq(queue, 1, place - 1)[i] = queue[i]
  BY <1>1
<1>3. /\ SubSeq(queue, place + 1, Len(queue)) \in Seq(Message)
      /\ Len(SubSeq(queue, place + 1, Len(queue))) = Len(queue) - place
      /\ \A i \in 1..(Len(queue) - place) :
           SubSeq(queue, place + 1, Len(queue))[i] = queue[place + i]
  BY <1>1
<1>4. /\ shorter \in Seq(Message)
      /\ DOMAIN shorter = 1..(Len(queue) - 1)
      /\ \A i \in 1..(Len(queue) - 1) : shorter[i] = queue[from(i)]
  <2>1. shorter \in Seq(Message) /\ Len(shorter) = Len(queue) - 1
    BY <1>1, <1>2, <1>3 DEF RemoveAt
  <2>2. ASSUME NEW i \in 1..(Len(queue) - 1) PROVE shorter[i] = queue[from(i)]
    <3>1. CASE i < place
      <4>1. i \in 1..(place - 1) /\ i \in 1..Len(SubSeq(queue, 1, place - 1))
        BY <1>1, <1>2, <3>1
      <4>2. shorter[i] = SubSeq(queue, 1, place - 1)[i]
        BY <1>2, <1>3, <4>1 DEF RemoveAt
      <4> QED BY <1>2, <3>1, <4>1, <4>2
    <3>2. CASE ~(i < place)
      <4>1. shorter[i] = SubSeq(queue, place + 1, Len(queue))[i - (place - 1)]
        <5> DEFINE front == SubSeq(queue, 1, place - 1)
                   back == SubSeq(queue, place + 1, Len(queue))
        <5>1. front \in Seq(Message) /\ back \in Seq(Message) /\ Len(front) = place - 1
              /\ Len(back) = Len(queue) - place
          BY <1>2, <1>3
        <5>2. shorter[i] = (front \o back)[i]
          BY DEF RemoveAt
        <5> HIDE DEF front, back, shorter
        <5>3. i \in 1..(Len(front) + Len(back)) /\ i > Len(front)
          BY <1>1, <3>2, <5>1
        <5>4. (front \o back)[i] = back[i - Len(front)]
          BY <5>1, <5>3, BackOfConcat
        <5> QED BY <5>1, <5>2, <5>4 DEF back
      <4>2. i - (place - 1) \in 1..(Len(queue) - place) /\ place + (i - (place - 1)) = i + 1
        BY <1>1, <3>2
      <4> QED BY <1>3, <3>2, <4>1, <4>2
    <3> QED BY <3>1, <3>2
  <2> QED BY <2>1, <2>2
<1>5. \A i \in DOMAIN shorter : from(i) \in DOMAIN queue /\ from(i) # place
  BY <1>1, <1>4
<1>6. \A i \in DOMAIN shorter, j \in DOMAIN shorter : from(i) = from(j) => i = j
  BY <1>1, <1>4
<1>7. \A i \in DOMAIN shorter : shorter[i] = queue[from(i)]
  BY <1>4
<1> HIDE DEF shorter, from
<1>8. ToSet(shorter) \subseteq ToSet(queue) /\ queue[place] \in ToSet(queue)
  BY <1>5, <1>7 DEF ToSet
<1>9. \A kind : Has(shorter, kind) => Has(queue, kind)
  BY <1>5, <1>7 DEF Has
<1>10. \A kind : Once(queue, kind) => Once(shorter, kind)
  BY <1>5, <1>6, <1>7 DEF Once
<1>11. Once(queue, queue[place].kind) => ~Has(shorter, queue[place].kind)
  BY <1>5, <1>7 DEF Has, Once
<1>12. Has(queue, queue[place].kind) /\ queue[place] \in Message
  BY DEF Has
<1> QED BY <1>4, <1>8, <1>9, <1>10, <1>11, <1>12 DEF shorter

---------------------------------------------------------------------------
\* Types

LEMMA SeqType == ASSUME NEW n \in 0..MaxSeq PROVE NextSeq(n) \in 1..MaxSeq
<1>1. n % MaxSeq \in 0..(MaxSeq - 1)
  OBVIOUS
<1> QED BY <1>1 DEF NextSeq

LEMMA RequestType ==
  ASSUME NEW method \in SourceRequests \cup TvRequests, NEW n \in 1..MaxSeq
  PROVE  Request(method, n) \in Message /\ IsRequest(Request(method, n))
BY DEF Request, Message, IsRequest

LEMMA AnswerType ==
  ASSUME NEW msg \in Message
  PROVE  /\ Answer(msg) \in Message /\ IsAnswer(Answer(msg)) /\ Answer(msg) # None
         /\ Answer(msg).method = msg.method /\ Answer(msg).seq = msg.seq
         /\ Answer(msg).rtp = msg.rtp /\ Answer(msg).rtcp = msg.rtcp
BY DEF Answer, Message, IsAnswer

\* The steps of the source keep the types.
LEMMA SourceType ==
  ASSUME TypeOK, Connecting \/ Asking \/ Serving \/ PlayTimeout \/ StartStream \/ Stop
  PROVE  TypeOK'
<1> USE DEF TypeOK
<1>0. Exchange \subseteq SourceRequests /\ Exchange \subseteq Phases
  BY DEF Exchange, SourceRequests, Phases
<1>1. CASE Connecting
  BY <1>1 DEF Connecting, Dial, AcceptReverse, Phases, Exchange, television
<1>2. ASSUME NEW method \in SourceRequests, cseq' = NextSeq(cseq), Say(Request(method, cseq'))
      PROVE  cseq' \in 0..MaxSeq /\ toTv' \in Seq(Message)
  BY <1>2, SeqType, RequestType, Appended DEF Say
<1>3. CASE SendRequest
  BY <1>0, <1>2, <1>3 DEF SendRequest, television
<1>4. CASE SendKeepalive
  BY <1>2, <1>4 DEF SendKeepalive, television, SourceRequests
<1>5. CASE SendKeepaliveTearing
  <2>1. cseq' \in 0..MaxSeq /\ toTv' \in Seq(Message)
    BY <1>2, <1>5 DEF SendKeepaliveTearing, SourceRequests
  <2>2. Tail(toSource) \in Seq(Message) /\ Head(toSource) \in Message
    BY <1>5, Taken DEF SendKeepaliveTearing
  <2>3. [Head(toSource) EXCEPT !.kind = "rest"] \in Message
    BY <2>2 DEF Message
  <2>4. toSource' \in Seq(Message)
    BY <1>5, <2>2, <2>3 DEF SendKeepaliveTearing
  <2> QED BY <1>5, <2>1, <2>4 DEF SendKeepaliveTearing, television
<1>6. ASSUME NEW kind, Reads(kind)
      PROVE  toSource' \in Seq(Message) /\ Incoming \in Message
  BY <1>6, Taken DEF Reads, Incoming
<1>7. CASE ReadAnswer
  <2>1. phase' \in Phases
    BY <1>7 DEF ReadAnswer, NextPhase, Exchange, Phases
  <2> QED BY <1>6, <1>7, <2>1 DEF ReadAnswer, television
<1>8. CASE SkipAnswer
  BY <1>6, <1>8 DEF SkipAnswer, source, television
<1>9. CASE ReadRest
  BY <1>6, <1>9 DEF ReadRest, Over, television, Phases
<1>10. ASSUME NEW methods, ReadsRequest(methods), Say(Answer(Incoming))
       PROVE  toTv' \in Seq(Message) /\ toSource' \in Seq(Message) /\ Incoming \in Message
  BY <1>6, <1>10, AnswerType, Appended DEF ReadsRequest, Say
<1>11. CASE AnswerPeer
  BY <1>10, <1>11 DEF AnswerPeer, source, television
<1>12. CASE RefusePeer
  BY <1>6, <1>12 DEF RefusePeer, Over, television, Phases
<1>13. CASE PeerSetup
  <2>1. toSource' \in Seq(Message) /\ Incoming \in Message
    BY <1>6, <1>13 DEF PeerSetup, ReadsRequest
  <2>2. [rtcp |-> Incoming.rtcp] \in Media
    BY <2>1 DEF Message, Media
  <2> QED BY <1>13, <2>1, <2>2 DEF PeerSetup, television
<1>14. CASE SetupGranted
  <2>1. toTv' \in Seq(Message)
    BY <1>14, AnswerType, Appended DEF SetupGranted, Say
  <2>2. dest' \in Ports \cup {None}
    BY <1>14 DEF SetupGranted, Destination, Message
  <2> QED BY <1>14, <2>1, <2>2 DEF SetupGranted, television
<1>15. CASE SetupRefused
  BY <1>15 DEF SetupRefused, Over, television, Phases
<1>16. CASE PeerPlay
  <2>1. stream' \in Stream \cup {None} /\ phase' \in Phases
    BY <1>16 DEF PeerPlay, Stream, Phases
  <2> QED BY <1>10, <1>16, <2>1 DEF PeerPlay, television
<1>17. CASE PeerTeardown
  BY <1>10, <1>17 DEF PeerTeardown, Over, television, Phases
<1>18. CASE Eof \/ PlayTimeout
  BY <1>18 DEF Eof, PlayTimeout, Over, television, Phases
<1>19. CASE StartStream \/ Stop
  BY <1>19 DEF StartStream, Stop, television, Phases
<1> QED BY <1>1, <1>3, <1>4, <1>5, <1>7, <1>8, <1>9, <1>11, <1>12, <1>13, <1>14, <1>15, <1>16,
           <1>17, <1>18, <1>19 DEF Asking, Serving

\* What the TV asks is a request, of a kind that only it makes.
LEMMA AsksType ==
  ASSUME TypeOK, NEW msg \in Message, TvAsk(msg)
  PROVE  /\ toSource' = Append(toSource, msg) /\ toSource' \in Seq(Message)
         /\ tvAsks' = msg /\ tvSeq' \in 0..MaxSeq
         /\ UNCHANGED <<source, toTv, tvMedia, tvBlocks>>
BY SeqType, Appended DEF TypeOK, TvAsk

LEMMA TvAsks ==
  ASSUME TypeOK, NEW msg, TvAsk(msg),
         \/ \E method \in TvRequests : msg = Request(method, NextSeq(tvSeq))
         \/ \E rtp \in Ports, plain \in BOOLEAN : \E rtcp \in {rtp, None} :
              msg = [Request("SETUP", NextSeq(tvSeq)) EXCEPT !.rtp = rtp, !.rtcp = rtcp, !.plain = plain]
  PROVE  msg \in Message /\ msg.kind = "request"
<1>1. NextSeq(tvSeq) \in 1..MaxSeq
  BY SeqType DEF TypeOK
<1>2. ASSUME NEW method \in TvRequests, msg = Request(method, NextSeq(tvSeq))
      PROVE  msg \in Message /\ msg.kind = "request"
  BY <1>1, <1>2 DEF Request, Message
<1>3. ASSUME NEW rtp \in Ports, NEW plain \in BOOLEAN, NEW rtcp \in {rtp, None},
             msg = [Request("SETUP", NextSeq(tvSeq)) EXCEPT !.rtp = rtp, !.rtcp = rtcp, !.plain = plain]
      PROVE  msg \in Message /\ msg.kind = "request"
  BY <1>1, <1>3 DEF Request, Message, TvRequests
<1> QED BY <1>2, <1>3

\* So do the steps of the TV.
LEMMA TvType == ASSUME TypeOK, Tv PROVE TypeOK'
<1>1. ASSUME NEW msg \in Message, TvAsk(msg), tv' \in TvStages PROVE TypeOK'
  BY <1>1, AsksType DEF TypeOK, source
<1>2. CASE TvAskParameter
  BY <1>1, <1>2, TvAsks DEF TvAskParameter, TypeOK, TvRequests
<1>3. ASSUME NEW rtp \in Ports, NEW plain \in BOOLEAN, NEW rtcp \in {rtp, None}, TvAskSetup(rtp, rtcp, plain)
      PROVE  TypeOK'
  BY <1>1, <1>3, TvAsks DEF TvAskSetup, TypeOK
<1>4. CASE TvAskPlay \/ TvTeardown
  BY <1>1, <1>4, TvAsks DEF TvAskPlay, TvTeardown, TypeOK, TvRequests, TvStages
<1>5. CASE TvClose
  BY <1>5 DEF TvClose, TypeOK, source, TvStages
<1>6. ASSUME NEW i \in DOMAIN toTv, TvAnswer(i) PROVE TypeOK'
  <2>1. toTv' \in Seq(Message) /\ toTv[i] \in Message
    BY <1>6, Removed DEF TvAnswer, TvTakes, TypeOK
  <2>2. toSource' \in Seq(Message)
    BY <1>6, <2>1, AnswerType, Appended DEF TvAnswer, TypeOK
  <2> QED BY <1>6, <2>1, <2>2 DEF TvAnswer, TypeOK, source, TvStages
<1>7. ASSUME NEW i \in DOMAIN toTv, TvReadAnswer(i) PROVE TypeOK'
  <2>1. toTv' \in Seq(Message) /\ toTv[i] \in Message
    BY <1>7, Removed DEF TvReadAnswer, TvTakes, TypeOK
  <2> QED BY <1>7, <2>1 DEF TvReadAnswer, TypeOK, source, TvStages
<1> QED BY <1>2, <1>3, <1>4, <1>5, <1>6, <1>7 DEF Tv

---------------------------------------------------------------------------
\* The open request of the TV

\* What is advertised, said of the messages and not of their places.
LEMMA Advertised ==
  /\ AdvertisedIsAuthorized <=>
       /\ \A msg \in ToSet(toTv) :
            IsAnswer(msg) /\ msg.method = "SETUP" => allowed = [rtcp |-> msg.rtcp]
       /\ tvMedia # None /\ ~SetupOpen => allowed = [rtcp |-> tvMedia.rtcp]
  /\ AdvertisedIsAuthorized' <=>
       /\ \A msg \in ToSet(toTv') :
            IsAnswer(msg) /\ msg.method = "SETUP" => allowed' = [rtcp |-> msg.rtcp]
       /\ tvMedia' # None /\ ~SetupOpen' => allowed' = [rtcp |-> tvMedia'.rtcp]
BY DEF AdvertisedIsAuthorized, ToSet

\* A step that gives nobody a new request or answer of the TV's keeps it.
LEMMA NothingNew ==
  ASSUME IInv,
         \A msg \in ToSet(toSource') : IsRequest(msg) => msg \in ToSet(toSource),
         Has(toSource', "request") => Has(toSource, "request"), Once(toSource', "request"),
         \A msg \in ToSet(toTv') : IsAnswer(msg) => msg \in ToSet(toTv),
         Has(toTv', "answer") => Has(toTv, "answer"), Once(toTv', "answer"),
         handling' \in {handling, None},
         UNCHANGED <<media, allowed, tvMedia, tvAsks>>
  PROVE  (TvOpen /\ Reserved /\ AdvertisedIsAuthorized)'
<1>1. TvOpen'
  BY DEF IInv, TvOpen
<1>2. Reserved'
  BY DEF IInv, Reserved
<1>3. AdvertisedIsAuthorized'
  BY Advertised DEF IInv, SetupOpen
<1> QED BY <1>1, <1>2, <1>3

\* So does an answer to a request other than SETUP.
LEMMA Answered ==
  ASSUME IInv, Reads("request"), Say(Answer(Incoming)), Incoming.method # "SETUP",
         handling' = None, UNCHANGED <<media, allowed, tvMedia, tvAsks>>
  PROVE  (TvOpen /\ Reserved /\ AdvertisedIsAuthorized)'
<1>1. /\ Incoming \in ToSet(toSource) /\ Incoming \in Message /\ Has(toSource, "request")
      /\ ~Has(toSource', "request") /\ Once(toSource', "request")
      /\ ToSet(toSource') \subseteq ToSet(toSource)
  BY Taken DEF Reads, Incoming, IInv, TypeOK, TvOpen
<1>2. Incoming = tvAsks /\ tvAsks # None /\ ~Has(toTv, "answer") /\ Once(toTv, "answer")
  BY <1>1 DEF Reads, IInv, TvOpen, IsRequest
<1>3. Answer(Incoming) \in Message /\ Answer(Incoming).method # "SETUP" /\ Answer(Incoming).kind = "answer"
  BY <1>1, AnswerType DEF IsAnswer
<1>4. ToSet(toTv') = ToSet(toTv) \cup {Answer(Incoming)} /\ Once(toTv', "answer")
  BY <1>2, <1>3, Appended DEF Say, IInv, TypeOK
<1>5. TvOpen'
  BY <1>1, <1>2, <1>4 DEF IInv, TvOpen
<1>6. AdvertisedIsAuthorized'
  BY <1>3, <1>4, Advertised DEF IInv, SetupOpen
<1> QED BY <1>5, <1>6 DEF Reserved

\* The steps of the source keep what is known of the TV's request.
LEMMA SourceOpen ==
  ASSUME IInv, Connecting \/ Asking \/ Serving \/ PlayTimeout \/ StartStream \/ Stop
  PROVE  (TvOpen /\ Reserved /\ AdvertisedIsAuthorized)'
<1>1. Once(toSource, "request") /\ Once(toTv, "answer") /\ TypeOK
  BY DEF IInv, TvOpen
<1>2. CASE Connecting \/ Eof \/ PlayTimeout \/ StartStream \/ Stop
  BY <1>1, <1>2, NothingNew
     DEF Connecting, Dial, AcceptReverse, Eof, PlayTimeout, StartStream, Stop, Over, Reading, television
<1>3. ASSUME NEW method \in SourceRequests, cseq' = NextSeq(cseq), Say(Request(method, cseq'))
      PROVE  /\ \A msg \in ToSet(toTv') : IsAnswer(msg) => msg \in ToSet(toTv)
             /\ Has(toTv', "answer") => Has(toTv, "answer")
             /\ Once(toTv', "answer")
  <2>1. Request(method, cseq') \in Message /\ Request(method, cseq').kind = "request"
    BY <1>1, <1>3, SeqType, RequestType DEF TypeOK, IsRequest
  <2> QED BY <1>1, <1>3, <2>1, Appended DEF Say, TypeOK, IsAnswer
<1>4. CASE SendRequest
  BY <1>1, <1>3, <1>4, NothingNew DEF SendRequest, television, Exchange, SourceRequests
<1>5. CASE SendKeepalive
  BY <1>1, <1>3, <1>5, NothingNew DEF SendKeepalive, television, SourceRequests
<1>6. CASE SendKeepaliveTearing
  <2> DEFINE torn == [Head(toSource) EXCEPT !.kind = "rest"]
  <2>1. /\ Tail(toSource) \in Seq(Message) /\ Head(toSource) \in Message
        /\ ToSet(Tail(toSource)) \subseteq ToSet(toSource)
        /\ Has(Tail(toSource), "request") => Has(toSource, "request")
        /\ Once(Tail(toSource), "request")
    BY <1>1, <1>6, Taken DEF SendKeepaliveTearing, TypeOK
  <2>2. torn \in Message /\ torn.kind = "rest"
    BY <2>1 DEF Message
  <2> HIDE DEF torn
  <2>3. /\ ToSet(<<torn>> \o Tail(toSource)) = {torn} \cup ToSet(Tail(toSource))
        /\ Has(<<torn>> \o Tail(toSource), "request") => Has(Tail(toSource), "request")
        /\ Once(<<torn>> \o Tail(toSource), "request")
    BY <2>1, <2>2, Prepended
  <2>4. toSource' = <<torn>> \o Tail(toSource)
    BY <1>6 DEF SendKeepaliveTearing, torn
  <2> QED BY <1>1, <1>3, <1>6, <2>1, <2>2, <2>3, <2>4, NothingNew
          DEF SendKeepaliveTearing, television, SourceRequests, IsRequest
<1>7. ASSUME NEW kind, Reads(kind)
      PROVE  /\ ToSet(toSource') \subseteq ToSet(toSource)
             /\ Has(toSource', "request") => Has(toSource, "request")
             /\ Once(toSource', "request")
  BY <1>1, <1>7, Taken DEF Reads, TypeOK
<1>8. CASE ReadAnswer \/ SkipAnswer \/ ReadRest
  BY <1>1, <1>7, <1>8, NothingNew DEF ReadAnswer, SkipAnswer, ReadRest, Over, source, television
<1>9. CASE RefusePeer
  BY <1>1, <1>7, <1>9, NothingNew DEF RefusePeer, Over, television
<1>10. CASE AnswerPeer \/ PeerPlay \/ PeerTeardown
  BY <1>10, Answered
     DEF AnswerPeer, PeerPlay, PeerTeardown, ReadsRequest, Reads, Reading, Over, source, television
<1>11. CASE PeerSetup
  <2>1. /\ Incoming \in ToSet(toSource) /\ Incoming \in Message /\ Has(toSource, "request")
        /\ ~Has(toSource', "request") /\ ToSet(toSource') \subseteq ToSet(toSource)
    BY <1>1, <1>11, Taken DEF PeerSetup, ReadsRequest, Reads, Incoming, TypeOK
  <2>2. Incoming = tvAsks /\ ~Has(toTv, "answer") /\ Incoming.method = "SETUP"
    BY <1>11, <2>1 DEF PeerSetup, ReadsRequest, Reads, IInv, TvOpen, IsRequest
  <2>3. TvOpen' /\ Reserved'
    BY <1>1, <1>7, <1>11, <2>1, <2>2
       DEF PeerSetup, ReadsRequest, television, IInv, TvOpen, Reserved
  <2>4. AdvertisedIsAuthorized'
    BY <1>11, Advertised DEF PeerSetup, television, IInv, SetupOpen
  <2> QED BY <2>3, <2>4
<1>12. CASE SetupGranted
  <2>1. handling = tvAsks /\ tvAsks # None /\ handling.method = "SETUP" /\ ~Has(toTv, "answer")
        /\ ~Has(toSource, "request") /\ media = [rtcp |-> handling.rtcp] /\ handling \in Message
    BY <1>12 DEF SetupGranted, IInv, TvOpen, Reserved, TypeOK
  <2>2. /\ Answer(handling) \in Message /\ Answer(handling).kind = "answer"
        /\ Answer(handling).rtcp = handling.rtcp
    BY <2>1, AnswerType DEF IsAnswer
  <2>3. ToSet(toTv') = ToSet(toTv) \cup {Answer(handling)} /\ Once(toTv', "answer")
    BY <1>1, <1>12, <2>1, <2>2, Appended DEF SetupGranted, Say, TypeOK
  <2>4. \A msg \in ToSet(toTv) : ~IsAnswer(msg)
    BY <2>1 DEF Has, ToSet, IsAnswer
  <2>5. TvOpen' /\ Reserved'
    BY <1>12, <2>1, <2>3, <2>4 DEF SetupGranted, television, IInv, TvOpen, Reserved
  <2>6. AdvertisedIsAuthorized'
    BY <1>12, <2>1, <2>2, <2>3, <2>4, Advertised DEF SetupGranted, television, SetupOpen
  <2> QED BY <2>5, <2>6
<1>13. CASE SetupRefused
  <2>1. tvAsks # None /\ tvAsks.method = "SETUP" /\ ~Has(toTv, "answer")
    BY <1>13 DEF SetupRefused, IInv, TvOpen, TypeOK
  <2>2. \A msg \in ToSet(toTv) : ~IsAnswer(msg)
    BY <2>1 DEF Has, ToSet, IsAnswer
  <2>3. TvOpen' /\ Reserved'
    BY <1>13 DEF SetupRefused, Over, television, IInv, TvOpen, Reserved
  <2>4. AdvertisedIsAuthorized'
    BY <1>13, <2>1, <2>2, Advertised DEF SetupRefused, television, SetupOpen
  <2> QED BY <2>3, <2>4
<1> QED BY <1>2, <1>4, <1>5, <1>6, <1>8, <1>9, <1>10, <1>11, <1>12, <1>13 DEF Asking, Serving

\* A request that the TV makes is its only one.
LEMMA AskedOpen ==
  ASSUME IInv, NEW msg \in Message, msg.kind = "request", TvAsk(msg)
  PROVE  (TvOpen /\ Reserved /\ AdvertisedIsAuthorized)'
<1>1. tvAsks = None /\ tvAsks' = msg /\ TypeOK /\ UNCHANGED <<source, toTv, tvMedia>>
      /\ toSource' = Append(toSource, msg)
  BY DEF TvAsk, IInv
<1>2. handling = None /\ ~Has(toTv, "answer") /\ ~Has(toSource, "request")
  <2>1. handling = None
    BY <1>1 DEF IInv, TvOpen
  <2>2. ~Has(toTv, "answer")
    BY <1>1 DEF IInv, TvOpen, Has, ToSet, IsAnswer
  <2>3. ASSUME NEW i \in DOMAIN toSource, toSource[i].kind = "request" PROVE FALSE
    <3>1. toSource[i] \in Message /\ toSource[i] \in ToSet(toSource)
      BY <1>1 DEF TypeOK, ToSet
    <3> QED BY <1>1, <2>3, <3>1 DEF IInv, TvOpen, IsRequest
  <2> QED BY <2>1, <2>2, <2>3 DEF Has
<1>3. ToSet(toSource') = ToSet(toSource) \cup {msg} /\ Once(toSource', "request")
  BY <1>1, <1>2, Appended DEF TypeOK, IInv, TvOpen
<1>4. \A m \in ToSet(toSource) : ~IsRequest(m)
  BY <1>2 DEF Has, ToSet, IsRequest
<1>5. TvOpen' /\ Reserved'
  BY <1>1, <1>2, <1>3, <1>4 DEF source, IInv, TvOpen, Reserved, Has, ToSet, IsAnswer
<1>6. AdvertisedIsAuthorized'
  BY <1>1, Advertised DEF source, IInv, SetupOpen
<1> QED BY <1>5, <1>6

\* So do the steps of the TV.
LEMMA TvKeepsOpen == ASSUME IInv, Tv PROVE (TvOpen /\ Reserved /\ AdvertisedIsAuthorized)'
<1>1. Once(toSource, "request") /\ Once(toTv, "answer") /\ TypeOK
  BY DEF IInv, TvOpen
<1>2. CASE TvAskParameter
  BY <1>1, <1>2, AskedOpen, TvAsks DEF TvAskParameter, TvRequests
<1>3. ASSUME NEW rtp \in Ports, NEW plain \in BOOLEAN, NEW rtcp \in {rtp, None}, TvAskSetup(rtp, rtcp, plain)
      PROVE  (TvOpen /\ Reserved /\ AdvertisedIsAuthorized)'
  BY <1>1, <1>3, AskedOpen, TvAsks DEF TvAskSetup
<1>4. CASE TvAskPlay \/ TvTeardown
  BY <1>1, <1>4, AskedOpen, TvAsks DEF TvAskPlay, TvTeardown, TvRequests
<1>5. CASE TvClose
  BY <1>1, <1>5, NothingNew DEF TvClose, source
<1>6. ASSUME NEW i \in DOMAIN toTv, TvTakes(i, "request") \/ TvTakes(i, "answer")
      PROVE  /\ toTv[i] \in ToSet(toTv) /\ toTv[i] \in Message /\ Has(toTv, toTv[i].kind)
             /\ ToSet(toTv') \subseteq ToSet(toTv)
             /\ Has(toTv', "answer") => Has(toTv, "answer")
             /\ Once(toTv', "answer")
             /\ toTv[i].kind = "answer" => ~Has(toTv', "answer")
  BY <1>1, <1>6, Removed DEF TvTakes, TypeOK
<1>7. ASSUME NEW i \in DOMAIN toTv, TvAnswer(i)
      PROVE  (TvOpen /\ Reserved /\ AdvertisedIsAuthorized)'
  <2>1. Answer(toTv[i]) \in Message /\ Answer(toTv[i]).kind = "answer"
    BY <1>6, <1>7, AnswerType DEF TvAnswer, IsAnswer
  <2>2. /\ ToSet(toSource') = ToSet(toSource) \cup {Answer(toTv[i])}
        /\ Has(toSource', "request") => Has(toSource, "request")
        /\ Once(toSource', "request")
    BY <1>1, <1>7, <2>1, Appended DEF TvAnswer, TypeOK
  <2> QED BY <1>1, <1>6, <1>7, <2>1, <2>2, NothingNew DEF TvAnswer, source, IsRequest
<1>8. ASSUME NEW i \in DOMAIN toTv, TvReadAnswer(i)
      PROVE  (TvOpen /\ Reserved /\ AdvertisedIsAuthorized)'
  <2>1. /\ toTv[i] \in ToSet(toTv) /\ toTv[i].kind = "answer" /\ Has(toTv, "answer")
        /\ ToSet(toTv') \subseteq ToSet(toTv) /\ ~Has(toTv', "answer") /\ Once(toTv', "answer")
    BY <1>6, <1>8 DEF TvReadAnswer, TvTakes
  <2>2. handling = None /\ ~Has(toSource, "request") /\ tvAsks # None /\ toTv[i] = Answer(tvAsks)
        /\ toTv[i].method = tvAsks.method
    BY <2>1, AnswerType DEF IInv, TvOpen, IsAnswer, TypeOK
  <2>3. \A msg \in ToSet(toTv') : ~IsAnswer(msg)
    BY <2>1 DEF Has, ToSet, IsAnswer
  <2>4. \A msg \in ToSet(toSource) : ~IsRequest(msg)
    BY <2>2 DEF Has, ToSet, IsRequest
  <2>5. tvAsks' = None /\ ~SetupOpen' /\ UNCHANGED <<toSource, handling, media, allowed>>
    BY <1>8 DEF TvReadAnswer, SetupOpen, source
  <2>6. TvOpen' /\ Reserved'
    BY <1>1, <2>1, <2>2, <2>3, <2>4, <2>5 DEF TvOpen, Reserved
  <2>7. allowed = [rtcp |-> tvMedia'.rtcp] \/ tvMedia' = None
    <3>1. CASE toTv[i].method = "SETUP"
      BY <1>8, <2>1, <3>1, Advertised DEF TvReadAnswer, IInv, IsAnswer
    <3>2. CASE toTv[i].method # "SETUP"
      BY <1>8, <2>2, <3>2, Advertised DEF TvReadAnswer, IInv, SetupOpen
    <3> QED BY <3>1, <3>2
  <2>8. AdvertisedIsAuthorized'
    BY <2>3, <2>5, <2>7, Advertised
  <2> QED BY <2>6, <2>8
<1> QED BY <1>2, <1>3, <1>4, <1>5, <1>7, <1>8 DEF Tv

\* It holds initially: nothing has been said.
LEMMA InitInv == Init => IInv
<1> SUFFICES ASSUME Init PROVE IInv
  OBVIOUS
<1>1. TypeOK
  <2>1. toTv \in Seq(Message) /\ toSource \in Seq(Message)
    BY DEF Init
  <2>2. cseq \in 0..MaxSeq /\ tvSeq \in 0..MaxSeq
    BY DEF Init
  <2> QED BY <2>1, <2>2 DEF Init, TypeOK, Phases, TvStages
<1>2. TvOpen /\ Reserved
  BY DEF Init, TvOpen, Reserved, Once, Has, ToSet
<1>3. AdvertisedIsAuthorized
  BY DEF Init, AdvertisedIsAuthorized
<1> QED BY <1>1, <1>2, <1>3 DEF IInv

LEMMA NextInv == IInv /\ [Next]_vars => IInv'
<1> SUFFICES ASSUME IInv, [Next]_vars PROVE IInv'
  OBVIOUS
<1>1. CASE Connecting \/ Asking \/ Serving \/ PlayTimeout \/ StartStream \/ Stop
  BY <1>1, SourceType, SourceOpen DEF IInv
<1>2. CASE Tv
  BY <1>2, TvType, TvKeepsOpen DEF IInv
<1>3. CASE UNCHANGED vars
  BY <1>3, NothingNew DEF vars, source, television, IInv, TypeOK, TvOpen
<1> QED BY <1>1, <1>2, <1>3 DEF Next

\* Against any TV, the variables keep their types.
THEOREM TypeCorrect == Spec => []TypeOK
<1>1. Spec => []IInv
  BY InitInv, NextInv, PTL DEF Spec
<1>2. IInv => TypeOK
  BY DEF IInv
<1> QED BY <1>1, <1>2, PTL

\* No TV, whatever it asks for and in whatever order, learns of media ports that the
\* helper has not authorized.
THEOREM PortsAreAuthorized == Spec => []AdvertisedIsAuthorized
<1>1. Spec => []IInv
  BY InitInv, NextInv, PTL DEF Spec
<1>2. IInv => AdvertisedIsAuthorized
  BY DEF IInv
<1> QED BY <1>1, <1>2, PTL

---------------------------------------------------------------------------
\* The open request of the source, against TVs that send a message in one go

\* A source that has left the connection is not concerned.
LEMMA GoneKeepsOurs ==
  ASSUME OurOpen, phase' \in {"over", "stopped"}, Has(toSource', "rest") => Has(toSource, "rest")
  PROVE  OurOpen'
BY DEF OurOpen, Connected, Exchange

\* A step that adds no request of ours and no answer to one keeps it.
LEMMA NothingOurs ==
  ASSUME OurOpen, phase \in Connected,
         Has(toSource', "rest") => Has(toSource, "rest"),
         \A msg \in ToSet(toTv') : IsRequest(msg) => msg \in ToSet(toTv),
         Has(toTv', "request") => Has(toTv, "request"), Once(toTv', "request"),
         \A msg \in ToSet(toSource') : IsAnswer(msg) => msg \in ToSet(toSource),
         Has(toSource', "answer") => Has(toSource, "answer"), Once(toSource', "answer"),
         awaiting' = awaiting, cseq' = cseq,
         \/ phase' = phase
         \/ phase = "wait_play" /\ phase' = "starting"
         \/ phase = "starting" /\ phase' = "streaming"
  PROVE  OurOpen'
BY DEF OurOpen, Connected, Exchange

\* No request of ours is open before the next is sent.
LEMMA SendsOne ==
  ASSUME TypeOK, OurOpen, phase \in Exchange \cup {"streaming"}, ~awaiting, awaiting',
         NEW method \in SourceRequests, method = "trigger" => phase = "trigger",
         cseq' = NextSeq(cseq), Say(Request(method, cseq')), UNCHANGED <<phase, toSource>>
  PROVE  OurOpen'
<1> DEFINE new == Request(method, cseq')
<1>1. new \in Message /\ new.kind = "request" /\ new.seq = cseq' /\ new.method = method
  BY SeqType, RequestType DEF TypeOK, IsRequest, Request
<1>2. phase \in Connected
  BY DEF Connected
<1>3. /\ \A msg \in ToSet(toTv) : ~IsRequest(msg)
      /\ \A msg \in ToSet(toSource) : ~IsAnswer(msg)
      /\ Once(toTv, "request") /\ Once(toSource, "answer")
  BY <1>2 DEF OurOpen
<1>4. ~Has(toTv, "request") /\ ~Has(toSource, "answer")
  BY <1>3 DEF Has, ToSet, IsRequest, IsAnswer
<1> HIDE DEF new
<1>5. ToSet(toTv') = ToSet(toTv) \cup {new} /\ Once(toTv', "request")
  BY <1>1, <1>3, <1>4, Appended DEF Say, TypeOK, new
<1>6. phase \notin {"dial", "listen", "wait_play", "starting"}
  BY DEF Exchange
<1> QED BY <1>1, <1>3, <1>4, <1>5, <1>6 DEF OurOpen, IsAnswer

\* The steps of the source.
LEMMA SourceOurs ==
  ASSUME "stall" \notin TvMay, TypeOK, OurOpen,
         Connecting \/ Asking \/ Serving \/ PlayTimeout \/ StartStream \/ Stop
  PROVE  OurOpen'
<1>1. phase \in Connected => Once(toTv, "request") /\ Once(toSource, "answer")
  BY DEF OurOpen
<1>2. CASE Connecting
  <2>1. toTv = <<>> /\ toSource = <<>> /\ ~awaiting /\ handling = None
        /\ UNCHANGED <<toTv, toSource, awaiting, handling>>
    BY <1>2 DEF Connecting, Dial, AcceptReverse, OurOpen
  <2>2. phase' \notin {"wait_play", "starting"}
    BY <1>2 DEF Connecting, Dial, AcceptReverse
  <2> QED BY <2>1, <2>2 DEF OurOpen, Has, Once, ToSet
<1>3. CASE SendRequest
  BY <1>3, SendsOne DEF SendRequest, Exchange, SourceRequests
<1>4. CASE SendKeepalive
  BY <1>4, SendsOne DEF SendKeepalive, SourceRequests
<1>5. CASE SendKeepaliveTearing
  BY <1>5 DEF SendKeepaliveTearing
<1>6. ASSUME NEW kind, Reads(kind)
      PROVE  /\ phase \in Connected
             /\ Incoming \in Message /\ Incoming \in ToSet(toSource) /\ Incoming.kind = kind
             /\ Has(toSource, kind)
             /\ ToSet(toSource') \subseteq ToSet(toSource)
             /\ \A k : Has(toSource', k) => Has(toSource, k)
             /\ Once(toSource', "answer")
             /\ kind = "answer" => ~Has(toSource', "answer")
  BY <1>1, <1>6, Taken DEF Reads, Reading, Incoming, TypeOK
<1>7. CASE ReadAnswer
  <2>1. ~Has(toTv, "request") /\ ~Has(toSource', "answer") /\ ~Has(toSource', "rest")
    BY <1>6, <1>7 DEF ReadAnswer, OurOpen
  <2>2. /\ \A msg \in ToSet(toTv) : ~IsRequest(msg)
        /\ \A msg \in ToSet(toSource') : ~IsAnswer(msg)
    BY <2>1 DEF Has, ToSet, IsRequest, IsAnswer
  <2>3. phase' \notin {"dial", "listen"} /\ ~awaiting' /\ toTv' = toTv /\ phase \in Connected
    BY <1>6, <1>7 DEF ReadAnswer, NextPhase, Exchange, Connected
  <2>4. Once(toTv, "request") /\ Once(toSource', "answer")
    BY <1>1, <1>6, <1>7, <2>3 DEF ReadAnswer
  <2> QED BY <2>1, <2>2, <2>3, <2>4 DEF OurOpen
<1>8. CASE SkipAnswer
  <2>1. IsAnswer(Incoming) /\ Incoming \in ToSet(toSource) /\ phase \in Connected /\ ~awaiting
    BY <1>6, <1>8 DEF SkipAnswer, IsAnswer
  <2> QED BY <2>1 DEF OurOpen
<1>9. CASE ReadRest
  BY <1>6, <1>9 DEF ReadRest, OurOpen
<1>10. ASSUME NEW msg \in Message, Say(Answer(msg)), phase \in Connected
       PROVE  /\ \A new \in ToSet(toTv') : IsRequest(new) => new \in ToSet(toTv)
              /\ Has(toTv', "request") => Has(toTv, "request")
              /\ Once(toTv', "request")
  <2>1. Answer(msg) \in Message /\ Answer(msg).kind = "answer"
    BY AnswerType DEF IsAnswer
  <2> QED BY <1>1, <1>10, <2>1, Appended DEF Say, TypeOK, IsRequest
<1>11. CASE AnswerPeer
  BY <1>6, <1>10, <1>11, NothingOurs DEF AnswerPeer, ReadsRequest, source
<1>12. CASE RefusePeer
  BY <1>6, <1>12, GoneKeepsOurs DEF RefusePeer, Over
<1>13. CASE PeerSetup
  BY <1>1, <1>6, <1>13, NothingOurs DEF PeerSetup, ReadsRequest
<1>14. CASE SetupGranted
  <2>1. CASE phase \in Connected
    BY <1>1, <1>10, <1>14, <2>1, NothingOurs DEF SetupGranted, TypeOK
  <2>2. CASE phase \notin Connected
    BY <1>14, <2>2 DEF SetupGranted, OurOpen
  <2> QED BY <2>1, <2>2
<1>15. CASE SetupRefused \/ Eof \/ PlayTimeout \/ Stop
  BY <1>15, GoneKeepsOurs DEF SetupRefused, Eof, PlayTimeout, Stop, Over
<1>16. CASE PeerPlay
  BY <1>6, <1>10, <1>16, NothingOurs DEF PeerPlay, ReadsRequest
<1>17. CASE PeerTeardown
  <2>1. CASE Over
    BY <1>6, <1>17, <2>1, GoneKeepsOurs DEF PeerTeardown, ReadsRequest, Over
  <2>2. CASE UNCHANGED <<phase, awaiting, handling>>
    BY <1>6, <1>10, <1>17, <2>2, NothingOurs DEF PeerTeardown, ReadsRequest
  <2> QED BY <1>17, <2>1, <2>2 DEF PeerTeardown
<1>18. CASE StartStream
  <2>1. phase \in Connected
    BY <1>18 DEF StartStream, Connected
  <2> QED BY <1>1, <1>18, <2>1, NothingOurs, GoneKeepsOurs DEF StartStream
<1> QED BY <1>2, <1>3, <1>4, <1>5, <1>7, <1>8, <1>9, <1>11, <1>12, <1>13, <1>14, <1>15, <1>16,
           <1>17, <1>18 DEF Asking, Serving

\* The steps of the TV.
LEMMA TvOurs == ASSUME TypeOK, OurOpen, Tv PROVE OurOpen'
<1>1. phase \in Connected => Once(toTv, "request") /\ Once(toSource, "answer")
  BY DEF OurOpen
<1>2. ASSUME NEW msg \in Message, msg.kind = "request", TvAsk(msg) PROVE OurOpen'
  <2>1. phase \in Connected /\ UNCHANGED <<source, toTv>> /\ toSource' = Append(toSource, msg)
    BY <1>2 DEF TvAsk, TvConnected
  <2>2. /\ ToSet(toSource') = ToSet(toSource) \cup {msg}
        /\ Has(toSource', "answer") => Has(toSource, "answer")
        /\ Has(toSource', "rest") => Has(toSource, "rest")
        /\ Once(toSource', "answer")
    BY <1>1, <1>2, <2>1, Appended DEF TypeOK
  <2> QED BY <1>1, <1>2, <2>1, <2>2, NothingOurs DEF source, IsAnswer
<1>3. CASE TvAskParameter
  BY <1>2, <1>3, TvAsks DEF TvAskParameter, TvRequests
<1>4. ASSUME NEW rtp \in Ports, NEW plain \in BOOLEAN, NEW rtcp \in {rtp, None}, TvAskSetup(rtp, rtcp, plain)
      PROVE  OurOpen'
  BY <1>2, <1>4, TvAsks DEF TvAskSetup
<1>5. CASE TvAskPlay \/ TvTeardown
  BY <1>2, <1>5, TvAsks DEF TvAskPlay, TvTeardown, TvRequests
<1>6. CASE TvClose
  BY <1>1, <1>6, NothingOurs DEF TvClose, TvConnected, source
<1>7. ASSUME NEW i \in DOMAIN toTv, NEW kind, TvTakes(i, kind)
      PROVE  /\ phase \in Connected
             /\ toTv[i] \in ToSet(toTv) /\ toTv[i] \in Message /\ toTv[i].kind = kind /\ Has(toTv, kind)
             /\ ToSet(toTv') \subseteq ToSet(toTv)
             /\ Has(toTv', "request") => Has(toTv, "request")
             /\ Once(toTv', "request")
             /\ kind = "request" => ~Has(toTv', "request")
  BY <1>1, <1>7, Removed DEF TvTakes, TvConnected, TypeOK
<1>8. ASSUME NEW i \in DOMAIN toTv, TvAnswer(i) PROVE OurOpen'
  <2>1. /\ phase \in Connected /\ toTv[i] \in ToSet(toTv) /\ toTv[i] \in Message
        /\ IsRequest(toTv[i]) /\ Has(toTv, "request")
        /\ ToSet(toTv') \subseteq ToSet(toTv) /\ Once(toTv', "request") /\ ~Has(toTv', "request")
    BY <1>7, <1>8 DEF TvAnswer, IsRequest
  <2>2. awaiting /\ toTv[i].seq = cseq /\ ~Has(toSource, "answer")
    BY <2>1 DEF OurOpen
  <2>3. /\ Answer(toTv[i]) \in Message /\ Answer(toTv[i]).kind = "answer"
        /\ Answer(toTv[i]).seq = cseq
    BY <2>1, <2>2, AnswerType DEF IsAnswer
  <2>4. /\ ToSet(toSource') = ToSet(toSource) \cup {Answer(toTv[i])}
        /\ Once(toSource', "answer")
        /\ Has(toSource', "rest") => Has(toSource, "rest")
    BY <1>1, <1>8, <2>1, <2>2, <2>3, Appended DEF TvAnswer, TypeOK
  <2>5. \A msg \in ToSet(toSource) : ~IsAnswer(msg)
    BY <2>2 DEF Has, ToSet, IsAnswer
  <2>6. \A msg \in ToSet(toTv') : ~IsRequest(msg)
    BY <2>1 DEF Has, ToSet, IsRequest
  <2>7. UNCHANGED source /\ phase \notin {"dial", "listen"}
    BY <1>8, <2>1 DEF TvAnswer, Connected, Exchange
  <2>8. phase \notin {"wait_play", "starting"}
    BY <2>1, <2>2 DEF OurOpen
  <2> QED BY <2>1, <2>2, <2>3, <2>4, <2>5, <2>6, <2>7, <2>8 DEF OurOpen, source
<1>9. ASSUME NEW i \in DOMAIN toTv, TvReadAnswer(i) PROVE OurOpen'
  BY <1>1, <1>7, <1>9, NothingOurs DEF TvReadAnswer, source
<1> QED BY <1>3, <1>4, <1>5, <1>6, <1>8, <1>9 DEF Tv

LEMMA OursInit == Init => OurOpen
BY DEF Init, OurOpen, Connected, Exchange, Has

LEMMA OursNext == "stall" \notin TvMay /\ IInvWhole /\ [Next]_vars => IInvWhole'
<1> SUFFICES ASSUME "stall" \notin TvMay, IInvWhole, [Next]_vars PROVE IInvWhole'
  OBVIOUS
<1>1. IInv' /\ TypeOK
  BY NextInv DEF IInvWhole, IInv
<1>2. CASE Connecting \/ Asking \/ Serving \/ PlayTimeout \/ StartStream \/ Stop
  BY <1>1, <1>2, SourceOurs DEF IInvWhole
<1>3. CASE Tv
  BY <1>1, <1>3, TvOurs DEF IInvWhole
<1>4. CASE UNCHANGED vars
  BY <1>1, <1>4 DEF vars, source, television, IInvWhole, OurOpen
<1> QED BY <1>2, <1>3, <1>4 DEF Next

\* Although CSeq is never compared: against a TV that sends each message in one go, an
\* answer that the source takes is the answer to the request it awaits.
THEOREM AnswersFit == "stall" \notin TvMay => (Spec => AnswersMatch)
<1> SUFFICES ASSUME "stall" \notin TvMay PROVE Spec => AnswersMatch
  OBVIOUS
<1>1. Init => IInvWhole
  BY InitInv, OursInit DEF IInvWhole
<1>2. IInvWhole /\ [Next]_vars => IInvWhole'
  BY OursNext
<1>3. IInvWhole /\ [Next]_vars =>
        [ awaiting /\ ~awaiting' /\ phase' \in Connected =>
            Incoming.kind = "answer" /\ Incoming.seq = cseq ]_vars
  <2> SUFFICES ASSUME IInvWhole, Next, awaiting, ~awaiting', phase' \in Connected
               PROVE  Incoming.kind = "answer" /\ Incoming.seq = cseq
    BY DEF vars, source
  <2>1. ReadAnswer \/ ReadRest
    <3>1. phase' \notin {"over", "stopped"}
      BY DEF Connected, Exchange
    <3> QED BY <3>1
            DEF Next, Connecting, Asking, Serving, Tv, Dial, AcceptReverse, SendRequest, SendKeepalive,
                SendKeepaliveTearing, SkipAnswer, AnswerPeer, RefusePeer, PeerSetup, SetupGranted,
                SetupRefused, PeerPlay, PeerTeardown, Eof, PlayTimeout, StartStream, Stop, Over,
                TvAnswer, TvReadAnswer, TvAskParameter, TvAskSetup, TvAskPlay, TvTeardown, TvAsk,
                TvClose, source
  <2>2. \A kind : Reads(kind) =>
          /\ Incoming \in ToSet(toSource) /\ Incoming.kind = kind /\ Has(toSource, kind)
          /\ phase \in Connected
    BY Taken DEF Reads, Reading, Incoming, IInvWhole, IInv, TypeOK
  <2>3. ~ReadRest
    BY <2>2 DEF ReadRest, IInvWhole, OurOpen
  <2>4. ReadAnswer
    BY <2>1, <2>3
  <2> QED BY <2>2, <2>4 DEF ReadAnswer, IInvWhole, OurOpen, IsAnswer
<1> QED BY <1>1, <1>2, <1>3, PTL DEF Spec, AnswersMatch

---------------------------------------------------------------------------
\* A session ends for a cause

\* A step that brings no request and leaves the trigger where it was.
LEMMA TurnsKept ==
  ASSUME AsksInTurn, TriggerToCome' => TriggerToCome, tv' \in {tv, "closed"}, tvAsks' \in {tvAsks, None}
  PROVE  AsksInTurn'
BY DEF AsksInTurn

\* The source's steps keep the order in which a TV asks.
LEMMA SourceTurns ==
  ASSUME TypeOK, OurOpen, AsksInTurn,
         Connecting \/ Asking \/ Serving \/ PlayTimeout \/ StartStream \/ Stop
  PROVE  AsksInTurn'
<1>0. UNCHANGED television
  BY DEF Connecting, Asking, Serving, Dial, AcceptReverse, SendRequest, SendKeepalive,
     SendKeepaliveTearing, ReadAnswer, SkipAnswer, ReadRest, AnswerPeer, RefusePeer, PeerSetup,
     SetupGranted, SetupRefused, PeerPlay, PeerTeardown, Eof, PlayTimeout, StartStream, Stop
<1>1. ASSUME NEW method \in SourceRequests, Say(Request(method, cseq')), cseq' = NextSeq(cseq),
             method = "trigger" => phase = "trigger" /\ ~awaiting, phase' = phase, awaiting'
      PROVE  AsksInTurn'
  <2>1. Request(method, cseq') \in Message /\ Request(method, cseq').method = method
    BY <1>1, SeqType, RequestType DEF TypeOK, Request
  <2>2. ToSet(toTv') = ToSet(toTv) \cup {Request(method, cseq')}
    BY <1>1, <2>1, Appended DEF TypeOK, Say
  <2>3. TriggerToCome' => TriggerToCome
    BY <1>1, <2>1, <2>2 DEF TriggerToCome
  <2> QED BY <1>0, <2>3, TurnsKept DEF television
<1>2. ASSUME NEW msg \in Message, IsAnswer(msg), Say(msg) \/ UNCHANGED toTv,
             phase' \in {phase, "over", "stopped", "starting", "streaming"},
             phase' = phase => awaiting' = awaiting
      PROVE  AsksInTurn'
  <2>1. \A m \in ToSet(toTv') : IsRequest(m) => m \in ToSet(toTv)
    <3>1. CASE Say(msg)
      <4>1. ToSet(toTv') = ToSet(toTv) \cup {msg}
        BY <3>1, Appended DEF TypeOK, Say
      <4> QED BY <1>2, <4>1 DEF IsAnswer, IsRequest
    <3>2. CASE UNCHANGED toTv
      BY <3>2
    <3> QED BY <1>2, <3>1, <3>2
  <2>2. TriggerToCome' => TriggerToCome
    BY <1>2, <2>1 DEF TriggerToCome, Exchange
  <2> QED BY <1>0, <2>2, TurnsKept DEF television
<1>3. CASE Connecting
  <2>1. TriggerToCome
    BY <1>3 DEF Connecting, Dial, AcceptReverse, TriggerToCome
  <2> QED BY <1>0, <2>1, TurnsKept DEF television
<1>4. CASE SendRequest
  BY <1>1, <1>4 DEF SendRequest, Exchange, SourceRequests
<1>5. CASE SendKeepalive \/ SendKeepaliveTearing
  BY <1>1, <1>5 DEF SendKeepalive, SendKeepaliveTearing, SourceRequests
<1>6. CASE ReadAnswer
  <2>1. toTv' = toTv /\ ~awaiting' /\ awaiting
        /\ phase' = IF phase \in Exchange THEN NextPhase[phase] ELSE phase
    BY <1>6 DEF ReadAnswer
  <2>2. CASE phase \in Exchange \ {"trigger"}
    BY <1>0, <2>2, TurnsKept DEF television, TriggerToCome
  <2>3. CASE phase = "trigger"
    <3>1. phase' = "wait_play"
      BY <2>1, <2>3 DEF Exchange, NextPhase
    <3> QED BY <1>0, <2>1, <3>1, TurnsKept DEF television, TriggerToCome, Exchange
  <2>4. CASE phase \notin Exchange
    BY <1>0, <2>1, <2>4, TurnsKept DEF television, TriggerToCome, Exchange
  <2> QED BY <2>2, <2>3, <2>4
<1>7. ASSUME UNCHANGED toTv, phase' \in {phase, "over", "stopped", "streaming"},
             phase' = phase /\ phase \in Exchange => awaiting' = awaiting
      PROVE  AsksInTurn'
  <2>1. TriggerToCome' => TriggerToCome
    BY <1>7 DEF TriggerToCome, Exchange
  <2> QED BY <1>0, <2>1, TurnsKept DEF television
<1>8. CASE SkipAnswer \/ RefusePeer \/ PeerSetup \/ SetupRefused \/ Eof \/ PlayTimeout \/ StartStream
  <2>1. CASE RefusePeer \/ SetupRefused \/ Eof \/ PlayTimeout
    BY <1>7, <2>1 DEF RefusePeer, SetupRefused, Eof, PlayTimeout, Over, Exchange
  <2>2. CASE SkipAnswer \/ PeerSetup \/ StartStream
    BY <1>7, <2>2 DEF SkipAnswer, PeerSetup, StartStream, source
  <2> QED BY <1>8, <2>1, <2>2
<1>9. CASE Stop
  BY <1>7, <1>9 DEF Stop
<1>10. CASE ReadRest
  <2>1. Has(toSource, "rest")
    BY <1>10, Taken DEF ReadRest, Reads, Incoming, TypeOK
  <2> QED BY <2>1 DEF OurOpen
<1>11. CASE AnswerPeer \/ PeerPlay \/ PeerTeardown
  <2>1. Incoming \in Message
    BY <1>11, Taken DEF AnswerPeer, PeerPlay, PeerTeardown, ReadsRequest, Reads, Incoming, TypeOK
  <2> QED BY <1>2, <1>11, <2>1, AnswerType DEF AnswerPeer, PeerPlay, PeerTeardown, Over, source
<1>12. CASE SetupGranted
  <2>1. handling \in Message
    BY <1>12 DEF SetupGranted, TypeOK
  <2> QED BY <1>2, <1>12, <2>1, AnswerType DEF SetupGranted
<1> QED
  BY <1>3, <1>4, <1>5, <1>6, <1>8, <1>9, <1>10, <1>11, <1>12 DEF Asking, Serving

\* So do the TV's.
LEMMA TvTurns ==
  ASSUME "pause" \notin TvMay, IInv, OurOpen, AsksInTurn, Tv
  PROVE  AsksInTurn'
<1>1. ASSUME NEW msg \in Message, TvAsk(msg), tv' = tv \/ msg.method = "TEARDOWN",
             msg.method # "PAUSE",
             msg.method \in {"SETUP", "PLAY"} => tv \in {"triggered", "ready"},
             msg.method = "TEARDOWN" => tv' = "torn_down" /\ tv \in {"ready", "playing"}
      PROVE  AsksInTurn'
  <2>1. UNCHANGED <<source, toTv>> /\ tvAsks' = msg
    BY <1>1 DEF TvAsk
  <2>2. TriggerToCome' = TriggerToCome
    BY <2>1 DEF TriggerToCome, source
  <2> QED BY <1>1, <2>1, <2>2 DEF AsksInTurn
<1>2. ASSUME NEW method \in TvRequests
      PROVE  /\ Request(method, NextSeq(tvSeq)) \in Message
             /\ Request(method, NextSeq(tvSeq)).method = method
  BY SeqType, RequestType DEF IInv, TypeOK, Request
<1>3. CASE TvAskParameter
  BY <1>1, <1>2, <1>3 DEF TvAskParameter, TvRequests
<1>4. ASSUME NEW rtp \in Ports, NEW plain \in BOOLEAN, NEW rtcp \in {rtp, None}, TvAskSetup(rtp, rtcp, plain)
      PROVE  AsksInTurn'
  <2> DEFINE msg == [Request("SETUP", NextSeq(tvSeq)) EXCEPT !.rtp = rtp, !.rtcp = rtcp, !.plain = plain]
  <2>1. TvAsk(msg) /\ tv' = tv /\ tv \in {"triggered", "ready"}
    BY <1>4 DEF TvAskSetup
  <2>2. msg \in Message
    BY <2>1, TvAsks DEF IInv
  <2>3. msg.method = "SETUP"
    BY DEF Request
  <2> QED BY <1>1, <2>1, <2>2, <2>3
<1>5. CASE TvAskPlay \/ TvTeardown
  BY <1>1, <1>2, <1>5 DEF TvAskPlay, TvTeardown, TvRequests
<1>6. CASE TvClose
  <2>1. tv' = "closed" /\ UNCHANGED <<source, toTv, tvAsks>>
    BY <1>6 DEF TvClose
  <2> QED BY <2>1, TurnsKept DEF TriggerToCome, source
<1>7. ASSUME NEW i \in DOMAIN toTv, TvAnswer(i) PROVE AsksInTurn'
  <2>1. /\ phase \in Connected /\ tv # "closed" /\ toTv[i].kind = "request"
        /\ toTv' = RemoveAt(toTv, i)
        /\ UNCHANGED <<source, tvAsks>>
        /\ tv' = IF toTv[i].method = "trigger" THEN "triggered" ELSE tv
    BY <1>7 DEF TvAnswer, TvTakes, TvConnected
  <2>2. /\ toTv[i] \in ToSet(toTv) /\ ToSet(toTv') \subseteq ToSet(toTv)
        /\ Once(toTv, "request") => ~Has(toTv', "request")
    BY <2>1, Removed DEF IInv, TypeOK
  <2>3. TriggerToCome' => TriggerToCome
    BY <2>1, <2>2 DEF TriggerToCome, source
  <2>4. CASE toTv[i].method # "trigger"
    BY <2>1, <2>3, <2>4, TurnsKept
  <2>5. CASE toTv[i].method = "trigger"
    <3>1. awaiting /\ phase = "trigger" /\ Once(toTv, "request")
      BY <2>1, <2>2, <2>5 DEF OurOpen, IsRequest
    <3>2. tv = "exchange"
      BY <2>1, <2>2, <2>5 DEF AsksInTurn, TriggerToCome, IsRequest
    <3>3. \A msg \in ToSet(toTv') : ~IsRequest(msg)
      BY <2>2, <3>1 DEF Has, ToSet, IsRequest
    <3>4. ~TriggerToCome'
      BY <2>1, <3>1, <3>3 DEF TriggerToCome, source, Exchange
    <3> QED BY <2>1, <3>2, <3>4 DEF AsksInTurn
  <2> QED BY <2>4, <2>5
<1>8. ASSUME NEW i \in DOMAIN toTv, TvReadAnswer(i) PROVE AsksInTurn'
  <2>1. /\ tv # "closed" /\ toTv[i].kind = "answer" /\ toTv' = RemoveAt(toTv, i)
        /\ UNCHANGED source /\ tvAsks' = None
        /\ toTv[i].method \notin {"SETUP", "PLAY"} => tv' = tv
    BY <1>8 DEF TvReadAnswer, TvTakes, TvConnected
  <2>2. toTv[i] \in ToSet(toTv) /\ ToSet(toTv') \subseteq ToSet(toTv)
    BY <2>1, Removed DEF IInv, TypeOK
  <2>3. tvAsks # None /\ toTv[i].method = tvAsks.method
    BY <2>1, <2>2, AnswerType DEF IInv, TvOpen, TypeOK, IsAnswer
  <2>4. TriggerToCome' => TriggerToCome
    BY <2>1, <2>2 DEF TriggerToCome, source
  <2>5. CASE tv' = tv
    BY <2>1, <2>4, <2>5, TurnsKept
  <2>6. CASE tv' # tv
    <3>1. tv \notin {"exchange", "closed"}
      BY <2>1, <2>3, <2>6 DEF AsksInTurn
    <3>2. ~TriggerToCome
      BY <3>1 DEF AsksInTurn
    <3> QED BY <2>1, <2>4, <3>2 DEF AsksInTurn
  <2> QED BY <2>5, <2>6
<1> QED BY <1>3, <1>4, <1>5, <1>6, <1>7, <1>8 DEF Tv

\* Nothing a TV does after its PLAY brings a SETUP back under the stream.
LEMMA PlayStaysLast ==
  ASSUME IInv, OurOpen, PlayIsLast, Next
  PROVE  PlayIsLast'
<1> USE DEF SetupOpen
<1>1. CASE Tv
  <2> SUFFICES ASSUME phase \in {"starting", "streaming"} PROVE PlayIsLast'
    BY <1>1, TvType, TvAsks DEF PlayIsLast, Tv, TvAnswer, TvReadAnswer, TvAskParameter, TvAskSetup,
       TvAskPlay, TvTeardown, TvClose, TvTakes, TvAsk, source
  <2>1. ~SetupOpen /\ ~(tv \in {"exchange", "triggered", "ready"} /\ tvAsks = None)
    BY DEF PlayIsLast
  <2>2. ASSUME NEW i \in DOMAIN toTv, TvAnswer(i) PROVE PlayIsLast'
    <3>1. toTv[i] \in ToSet(toTv) /\ IsRequest(toTv[i]) /\ UNCHANGED <<source, tvAsks>>
      BY <2>2 DEF TvAnswer, TvTakes, ToSet, IsRequest
    <3>2. toTv[i].method # "trigger"
      BY <3>1 DEF OurOpen, Connected
    <3> QED BY <2>2, <3>1, <3>2 DEF TvAnswer, PlayIsLast, source
  <2>3. ASSUME NEW i \in DOMAIN toTv, TvReadAnswer(i) PROVE PlayIsLast'
    <3>1. toTv[i] \in ToSet(toTv) /\ IsAnswer(toTv[i]) /\ UNCHANGED source /\ tvAsks' = None
      BY <2>3 DEF TvReadAnswer, TvTakes, ToSet, IsAnswer
    <3>2. tvAsks # None /\ toTv[i].method = tvAsks.method
      BY <3>1, AnswerType DEF IInv, TvOpen, TypeOK
    <3> QED BY <2>1, <2>3, <3>1, <3>2 DEF TvReadAnswer, PlayIsLast, source
  <2>4. CASE TvAskParameter
    <3>1. /\ UNCHANGED <<source, tv>> /\ tvAsks = None
          /\ \E m \in {"OPTIONS", "GET_PARAMETER", "SET_PARAMETER", "PAUSE"} :
               tvAsks' = Request(m, NextSeq(tvSeq))
      BY <2>4 DEF TvAskParameter, TvAsk
    <3> QED BY <2>1, <3>1 DEF PlayIsLast, source, Request
  <2>5. CASE TvAskPlay \/ TvTeardown
    BY <2>1, <2>5 DEF TvAskPlay, TvTeardown, TvAsk, PlayIsLast, source, Request
  <2>6. CASE TvClose
    BY <2>6 DEF TvClose, PlayIsLast, source
  <2> QED BY <1>1, <2>1, <2>2, <2>3, <2>4, <2>5, <2>6 DEF Tv, TvAskSetup, TvAsk
<1>2. CASE PeerPlay
  <2>1. Incoming \in ToSet(toSource) /\ IsRequest(Incoming) /\ Incoming.method = "PLAY"
    BY <1>2, Taken DEF PeerPlay, ReadsRequest, Reads, Incoming, IInv, TypeOK, IsRequest
  <2>2. tvAsks = Incoming /\ tvAsks # None
    BY <2>1 DEF IInv, TvOpen, TypeOK, ToSet
  <2> QED BY <1>2, <2>1, <2>2 DEF PeerPlay, PlayIsLast, television
<1>3. CASE ReadAnswer
  <2>1. phase' = phase \/ phase' \in Exchange \cup {"wait_play"}
    BY <1>3 DEF ReadAnswer, Exchange, NextPhase
  <2> QED BY <1>3, <2>1 DEF ReadAnswer, PlayIsLast, television, Exchange
<1>4. CASE Connecting \/ Asking \/ SkipAnswer \/ ReadRest \/ AnswerPeer \/ RefusePeer \/ PeerSetup
           \/ SetupGranted \/ SetupRefused \/ PeerTeardown \/ Eof \/ PlayTimeout \/ StartStream \/ Stop
  <2>1. \/ phase' \in {phase, "options", "listen", "over", "stopped"}
        \/ phase = "starting" /\ phase' = "streaming"
    BY <1>4 DEF Connecting, Asking, Dial, AcceptReverse, SendRequest, SendKeepalive,
       SendKeepaliveTearing, SkipAnswer, ReadRest, AnswerPeer, RefusePeer, PeerSetup, SetupGranted,
       SetupRefused, PeerTeardown, Eof, PlayTimeout, StartStream, Stop, Over, source
  <2>2. UNCHANGED television
    BY <1>4 DEF Connecting, Asking, Dial, AcceptReverse, SendRequest, SendKeepalive,
       SendKeepaliveTearing, SkipAnswer, ReadRest, AnswerPeer, RefusePeer, PeerSetup, SetupGranted,
       SetupRefused, PeerTeardown, Eof, PlayTimeout, StartStream, Stop
  <2> QED BY <2>1, <2>2 DEF PlayIsLast, television
<1> QED BY <1>1, <1>2, <1>3, <1>4 DEF Next, Serving

\* What daemon/lib.rs says of every TV holds of those that send each message in one
\* go and ask for nothing OPTIONS offers in vain: the keepalive loop (run_keepalive)
\* ends only by the TV's TEARDOWN or departure.
THEOREM EndsForACause ==
  TvMay \cap {"pause", "stall"} = {} => (Spec => EndsOnlyWhenOver)
<1> SUFFICES ASSUME TvMay \cap {"pause", "stall"} = {} PROVE Spec => EndsOnlyWhenOver
  OBVIOUS
<1>1. "pause" \notin TvMay /\ "stall" \notin TvMay
  OBVIOUS
<1>2. Init => IInvTurns
  <2> SUFFICES ASSUME Init PROVE AsksInTurn /\ PlayIsLast
    BY InitInv, OursInit DEF IInvTurns, IInvWhole
  <2> QED BY DEF Init, AsksInTurn, PlayIsLast
<1>3. IInvTurns /\ [Next]_vars => IInvTurns'
  <2> SUFFICES ASSUME IInvTurns, [Next]_vars PROVE AsksInTurn' /\ PlayIsLast'
    BY <1>1, OursNext DEF IInvTurns
  <2> USE DEF IInvTurns, IInvWhole
  <2>1. CASE Connecting \/ Asking \/ Serving \/ PlayTimeout \/ StartStream \/ Stop
    <3>1. AsksInTurn'
      BY <2>1, SourceTurns DEF IInv
    <3> QED BY <2>1, <3>1, PlayStaysLast DEF Next
  <2>2. CASE Tv
    BY <1>1, <2>2, TvTurns, PlayStaysLast DEF Next
  <2>3. CASE UNCHANGED vars
    BY <2>3 DEF vars, source, television, AsksInTurn, TriggerToCome, PlayIsLast, SetupOpen
  <2> QED BY <2>1, <2>2, <2>3 DEF Next
<1>4. IInvTurns /\ [Next]_vars =>
        [phase = "streaming" /\ phase' = "over" => tv \in {"torn_down", "closed"}]_vars
  <2> SUFFICES ASSUME IInvTurns, Next, phase = "streaming", phase' = "over", tv # "closed"
               PROVE  tv = "torn_down"
    OBVIOUS
  <2>1. ReadRest \/ RefusePeer \/ SetupRefused \/ PeerTeardown
    BY DEF Next, Connecting, Asking, Serving, Tv, Dial, AcceptReverse, SendRequest, SendKeepalive,
       SendKeepaliveTearing, ReadAnswer, SkipAnswer, AnswerPeer, PeerSetup, SetupGranted, PeerPlay, Eof,
       PlayTimeout, StartStream, Stop, TvAnswer, TvReadAnswer, TvAskParameter, TvAskSetup, TvAskPlay,
       TvTeardown, TvAsk, TvClose, source, Exchange
  <2>2. ~ReadRest
    BY Taken DEF ReadRest, Reads, Incoming, IInvTurns, IInvWhole, IInv, TypeOK, OurOpen
  <2>3. ~SetupRefused
    BY DEF SetupRefused, IInvTurns, IInvWhole, IInv, TvOpen, PlayIsLast, SetupOpen
  <2>4. CASE RefusePeer \/ PeerTeardown
    <3>1. Incoming \in ToSet(toSource) /\ IsRequest(Incoming)
      BY <2>4, Taken DEF RefusePeer, PeerTeardown, ReadsRequest, Reads, Incoming, IInvTurns, IInvWhole,
         IInv, TypeOK, IsRequest
    <3>2. tvAsks = Incoming /\ tvAsks # None
      BY <3>1 DEF IInvTurns, IInvWhole, IInv, TvOpen, TypeOK, ToSet
    <3>3. Incoming.method \in {"PAUSE", "TEARDOWN"}
      BY <2>4 DEF RefusePeer, Unsupported, PeerTeardown, ReadsRequest
    <3> QED BY <3>2, <3>3 DEF IInvTurns, AsksInTurn
  <2> QED BY <2>1, <2>2, <2>3, <2>4
<1> QED BY <1>2, <1>3, <1>4, PTL DEF Spec, EndsOnlyWhenOver

---------------------------------------------------------------------------
\* What SETUP named, against TVs that leave no blanks in their headers

Early == Exchange \cup {"dial", "listen", "wait_play"}

\* A step that neither asks for nor answers a SETUP, and does not PLAY, keeps it.
LEMMA NoSetupKeeps ==
  ASSUME IInv, SetupFollowed, StreamMatchesSetup,
         \A msg \in ToSet(toTv') : IsAnswer(msg) /\ msg.method = "SETUP" => msg \in ToSet(toTv),
         phase' \in Early => phase \in Early,
         tv' = tv \/ tv' = "closed" \/ (tv' = "triggered" /\ stream = None),
         UNCHANGED <<dest, media, allowed, stream, tvMedia, tvAsks>>
  PROVE  (SetupFollowed /\ StreamMatchesSetup)'
BY DEF SetupFollowed, StreamMatchesSetup, SetupOpen, Early

\* While a SETUP is open, no answer to one is on its way.
LEMMA NoAnswers ==
  ASSUME IInv, handling # None \/ Has(toSource, "request") \/ tvAsks = None
  PROVE  \A msg \in ToSet(toTv) : ~IsAnswer(msg)
BY DEF IInv, TvOpen, Has, ToSet, IsAnswer

\* The steps of the source.
LEMMA SourceFollows ==
  ASSUME "stall" \notin TvMay, IInv, SetupFollowed, StreamMatchesSetup,
         Connecting \/ Asking \/ Serving \/ PlayTimeout \/ StartStream \/ Stop
  PROVE  (SetupFollowed /\ StreamMatchesSetup)'
<1>1. TypeOK
  BY DEF IInv
<1>2. CASE Connecting \/ Eof \/ PlayTimeout \/ StartStream \/ Stop
  BY <1>2, NoSetupKeeps
     DEF Connecting, Dial, AcceptReverse, Eof, PlayTimeout, StartStream, Stop, Over, television,
         Early, Exchange
<1>3. ASSUME NEW method \in SourceRequests, cseq' = NextSeq(cseq), Say(Request(method, cseq'))
      PROVE  \A msg \in ToSet(toTv') : IsAnswer(msg) => msg \in ToSet(toTv)
  <2>1. Request(method, cseq') \in Message /\ ~IsAnswer(Request(method, cseq'))
    BY <1>1, <1>3, SeqType, RequestType DEF TypeOK, IsRequest, IsAnswer
  <2> QED BY <1>1, <1>3, <2>1, Appended DEF Say, TypeOK
<1>4. CASE SendRequest
  BY <1>3, <1>4, NoSetupKeeps DEF SendRequest, television, Exchange, SourceRequests
<1>5. CASE SendKeepalive
  BY <1>3, <1>5, NoSetupKeeps DEF SendKeepalive, television, SourceRequests
<1>6. CASE SendKeepaliveTearing
  BY <1>6 DEF SendKeepaliveTearing
<1>7. CASE ReadAnswer
  <2>1. phase' \in Early => phase \in Early
    BY <1>7 DEF ReadAnswer, NextPhase, Exchange, Early
  <2> QED BY <1>7, <2>1, NoSetupKeeps DEF ReadAnswer, television
<1>8. CASE SkipAnswer \/ ReadRest \/ RefusePeer
  BY <1>8, NoSetupKeeps DEF SkipAnswer, ReadRest, RefusePeer, Over, source, television, Early, Exchange
<1>9. ASSUME NEW methods, ReadsRequest(methods)
      PROVE  /\ Incoming = tvAsks /\ Incoming \in Message /\ Incoming.method \in methods /\ tvAsks # None
             /\ Has(toSource, "request") /\ \A msg \in ToSet(toTv) : ~IsAnswer(msg)
             /\ Say(Answer(Incoming)) => ToSet(toTv') = ToSet(toTv) \cup {Answer(Incoming)}
  <2>1. Incoming \in ToSet(toSource) /\ Incoming \in Message /\ Has(toSource, "request") /\ IsRequest(Incoming)
    BY <1>1, <1>9, Taken DEF ReadsRequest, Reads, Incoming, TypeOK, IsRequest
  <2>2. Say(Answer(Incoming)) => ToSet(toTv') = ToSet(toTv) \cup {Answer(Incoming)}
    BY <1>1, <2>1, AnswerType, Appended DEF Say, TypeOK
  <2> QED BY <1>9, <2>1, <2>2, NoAnswers DEF ReadsRequest, IInv, TvOpen
<1>10. ASSUME NEW methods, ReadsRequest(methods), "SETUP" \notin methods, Say(Answer(Incoming))
       PROVE  \A msg \in ToSet(toTv') : IsAnswer(msg) /\ msg.method = "SETUP" => msg \in ToSet(toTv)
  BY <1>9, <1>10, AnswerType
<1>11. CASE AnswerPeer
  BY <1>10, <1>11, NoSetupKeeps DEF AnswerPeer, source, television
<1>12. CASE PeerTeardown
  BY <1>10, <1>12, NoSetupKeeps DEF PeerTeardown, Over, television, Early, Exchange
<1>13. CASE PeerSetup
  <2>1. SetupOpen /\ SetupOpen' /\ stream = None /\ \A msg \in ToSet(toTv) : ~IsAnswer(msg)
    BY <1>9, <1>13 DEF PeerSetup, television, SetupOpen, SetupFollowed
  <2> QED BY <1>13, <2>1 DEF PeerSetup, television, SetupFollowed, StreamMatchesSetup
<1>14. CASE SetupGranted \/ SetupRefused
  <2>1. SetupOpen /\ SetupOpen' /\ stream = None /\ handling = tvAsks /\ handling \in Message
        /\ \A msg \in ToSet(toTv) : ~IsAnswer(msg)
    BY <1>1, <1>14, NoAnswers
       DEF SetupGranted, SetupRefused, television, SetupOpen, SetupFollowed, IInv, TvOpen, TypeOK
  <2>2. CASE SetupGranted
    <3>1. dest' = handling.rtp /\ allowed' = media'
      BY <2>1, <2>2 DEF SetupGranted, Destination, SetupFollowed
    <3>2. Answer(handling) \in Message /\ Answer(handling).rtp = handling.rtp
      BY <2>1, AnswerType
    <3>3. ToSet(toTv') = ToSet(toTv) \cup {Answer(handling)}
      BY <1>1, <2>2, <3>2, Appended DEF SetupGranted, Say, TypeOK
    <3> QED BY <2>1, <2>2, <3>1, <3>2, <3>3
            DEF SetupGranted, television, SetupFollowed, StreamMatchesSetup
  <2>3. CASE SetupRefused
    BY <2>1, <2>3 DEF SetupRefused, Over, television, SetupFollowed, StreamMatchesSetup, Exchange
  <2> QED BY <1>14, <2>2, <2>3
<1>15. CASE PeerPlay
  <2>1. CASE phase # "wait_play"
    BY <1>10, <1>15, <2>1, NoSetupKeeps DEF PeerPlay, television
  <2>2. CASE phase = "wait_play"
    <3>1. tvAsks # None /\ tvAsks.method = "PLAY" /\ ~SetupOpen /\ tvMedia # None
      BY <1>9, <1>15 DEF PeerPlay, SetupFollowed, SetupOpen
    <3>2. dest = tvMedia.rtp /\ tvMedia.rtp \in Ports /\ media = allowed
      BY <3>1 DEF SetupFollowed
    <3>3. allowed = [rtcp |-> tvMedia.rtcp]
      BY <3>1 DEF IInv, AdvertisedIsAuthorized
    <3>4. stream' = [rtp |-> tvMedia.rtp, media |-> allowed] /\ phase' = "starting"
          /\ UNCHANGED <<dest, media, allowed, television>>
      BY <1>15, <2>2, <3>2 DEF PeerPlay
    <3>5. \A msg \in ToSet(toTv') : IsAnswer(msg) /\ msg.method = "SETUP" => msg \in ToSet(toTv)
      BY <1>10, <1>15 DEF PeerPlay
    <3>6. StreamMatchesSetup'
      BY <3>1, <3>3, <3>4 DEF StreamMatchesSetup, television
    <3>7. SetupFollowed'
      BY <3>1, <3>4, <3>5 DEF SetupFollowed, SetupOpen, television, Exchange
    <3> QED BY <3>6, <3>7
  <2> QED BY <2>1, <2>2
<1> QED BY <1>2, <1>4, <1>5, <1>6, <1>7, <1>8, <1>11, <1>12, <1>13, <1>14, <1>15 DEF Asking, Serving

\* The steps of the TV.
LEMMA TvFollows ==
  ASSUME "blanks" \notin TvMay, IInv, OurOpen, SetupFollowed, StreamMatchesSetup, Tv
  PROVE  (SetupFollowed /\ StreamMatchesSetup)'
<1>1. TypeOK
  BY DEF IInv
<1>2. ASSUME NEW msg \in Message, TvAsk(msg)
      PROVE  /\ tvAsks = None /\ ~SetupOpen /\ tvAsks' = msg /\ msg # None
             /\ UNCHANGED <<source, toTv, tvMedia>>
             /\ \A m \in ToSet(toTv) : ~IsAnswer(m)
             /\ stream # None => tv \in {"playing", "torn_down", "closed"}
  BY <1>1, <1>2, AsksType, NoAnswers DEF TvAsk, SetupOpen, SetupFollowed
<1>3. ASSUME NEW msg \in Message, TvAsk(msg), msg.method # "SETUP", tv' \in {tv, "torn_down"},
             msg.method = "PLAY" => tv = "ready"
      PROVE  (SetupFollowed /\ StreamMatchesSetup)'
  <2>1. ~SetupOpen'
    BY <1>2, <1>3 DEF SetupOpen
  <2> QED BY <1>2, <1>3, <2>1 DEF SetupFollowed, StreamMatchesSetup, source
<1>4. NextSeq(tvSeq) \in 1..MaxSeq
  BY <1>1, SeqType DEF TypeOK
<1>5. ASSUME NEW method \in TvRequests
      PROVE  Request(method, NextSeq(tvSeq)) \in Message /\ Request(method, NextSeq(tvSeq)).method = method
  BY <1>4, RequestType DEF Request
<1>6. CASE TvAskParameter
  BY <1>3, <1>5, <1>6 DEF TvAskParameter, TvRequests
<1>7. CASE TvAskPlay \/ TvTeardown
  BY <1>3, <1>5, <1>7 DEF TvAskPlay, TvTeardown, TvRequests
<1>8. ASSUME NEW rtp \in Ports, NEW plain \in BOOLEAN, NEW rtcp \in {rtp, None}, TvAskSetup(rtp, rtcp, plain)
      PROVE  (SetupFollowed /\ StreamMatchesSetup)'
  <2> DEFINE msg == [Request("SETUP", NextSeq(tvSeq)) EXCEPT !.rtp = rtp, !.rtcp = rtcp, !.plain = plain]
  <2>1. msg \in Message /\ msg.method = "SETUP" /\ msg.rtp = rtp /\ msg.plain = plain
    BY <1>4 DEF Request, Message, TvRequests
  <2>2. TvAsk(msg) /\ tv \in {"triggered", "ready"} /\ plain /\ tv' = tv
    BY <1>8 DEF TvAskSetup
  <2> HIDE DEF msg
  <2>3. stream = None /\ SetupOpen' /\ tvAsks'.plain /\ tvAsks'.rtp \in Ports /\ tvAsks'.method = "SETUP"
    BY <1>2, <2>1, <2>2 DEF SetupOpen
  <2> QED BY <1>2, <2>1, <2>2, <2>3 DEF SetupFollowed, StreamMatchesSetup, source
<1>9. CASE TvClose
  BY <1>9, NoSetupKeeps DEF TvClose, source
<1>10. ASSUME NEW i \in DOMAIN toTv, NEW kind, TvTakes(i, kind)
       PROVE  /\ phase \in Connected /\ toTv[i] \in ToSet(toTv) /\ toTv[i] \in Message /\ toTv[i].kind = kind
              /\ ToSet(toTv') \subseteq ToSet(toTv)
              /\ Has(toTv, kind)
              /\ kind = "answer" => ~Has(toTv', "answer")
  BY <1>1, <1>10, Removed DEF TvTakes, TvConnected, TypeOK, IInv, TvOpen
<1>11. ASSUME NEW i \in DOMAIN toTv, TvAnswer(i) PROVE (SetupFollowed /\ StreamMatchesSetup)'
  <2>1. toTv[i].method = "trigger" => stream = None
    BY <1>10, <1>11 DEF TvAnswer, OurOpen, IsRequest, SetupFollowed, Exchange
  <2> QED BY <1>10, <1>11, <2>1, NoSetupKeeps DEF TvAnswer, source
<1>12. ASSUME NEW i \in DOMAIN toTv, TvReadAnswer(i) PROVE (SetupFollowed /\ StreamMatchesSetup)'
  <2>1. toTv[i] \in ToSet(toTv) /\ IsAnswer(toTv[i]) /\ toTv[i] \in Message /\ ~Has(toTv', "answer")
    BY <1>10, <1>12 DEF TvReadAnswer, IsAnswer
  <2>2. /\ tvAsks # None /\ tvAsks \in Message /\ toTv[i].method = tvAsks.method /\ toTv[i].rtp = tvAsks.rtp
        /\ toTv[i] # None
    BY <1>1, <2>1, AnswerType DEF IInv, TvOpen, TypeOK
  <2>3. \A msg \in ToSet(toTv') : ~IsAnswer(msg)
    BY <2>1 DEF Has, ToSet, IsAnswer
  <2>4. tvAsks' = None /\ ~SetupOpen' /\ UNCHANGED source
    BY <1>12 DEF TvReadAnswer, SetupOpen
  <2>5. CASE toTv[i].method = "SETUP"
    <3>1. tvMedia' = toTv[i] /\ tv' = "ready" /\ SetupOpen /\ stream = None /\ tvMedia'.rtp \in Ports
      BY <1>12, <2>2, <2>5 DEF TvReadAnswer, SetupOpen, SetupFollowed
    <3>2. dest = tvMedia'.rtp /\ media = allowed
      BY <2>1, <2>5, <3>1 DEF SetupFollowed
    <3> QED BY <2>2, <2>3, <2>4, <3>1, <3>2 DEF SetupFollowed, StreamMatchesSetup, source
  <2>6. CASE toTv[i].method # "SETUP"
    <3>1. tvMedia' = tvMedia /\ ~SetupOpen
      BY <1>12, <2>2, <2>6 DEF TvReadAnswer, SetupOpen
    <3>2. IF tvAsks.method = "PLAY" THEN tv' = "playing" ELSE tv' = tv
      BY <1>12, <2>2, <2>6 DEF TvReadAnswer
    <3> QED BY <2>3, <2>4, <3>1, <3>2 DEF SetupFollowed, StreamMatchesSetup, source
  <2> QED BY <2>5, <2>6
<1> QED BY <1>6, <1>7, <1>8, <1>9, <1>11, <1>12 DEF Tv

\* Against a TV that writes its Transport headers without blanks, and each message in
\* one go: media goes where its last SETUP said, on the authorized sockets.
THEOREM StreamFollowsSetup ==
  TvMay \cap {"blanks", "stall"} = {} => (Spec => []StreamMatchesSetup)
<1> SUFFICES ASSUME TvMay \cap {"blanks", "stall"} = {} PROVE Spec => []StreamMatchesSetup
  OBVIOUS
<1>1. "blanks" \notin TvMay /\ "stall" \notin TvMay
  OBVIOUS
<1>2. Init => IInvPlain
  <2> SUFFICES ASSUME Init PROVE IInvPlain
    OBVIOUS
  <2>1. SetupFollowed /\ StreamMatchesSetup
    BY DEF Init, SetupFollowed, StreamMatchesSetup, SetupOpen, ToSet
  <2> QED BY <2>1, InitInv, OursInit DEF IInvPlain, IInvWhole
<1>3. IInvPlain /\ [Next]_vars => IInvPlain'
  <2> SUFFICES ASSUME IInvPlain, [Next]_vars PROVE IInvPlain'
    OBVIOUS
  <2>1. IInvWhole'
    BY <1>1, OursNext DEF IInvPlain
  <2>2. IInv /\ OurOpen /\ SetupFollowed /\ StreamMatchesSetup
    BY DEF IInvPlain, IInvWhole
  <2>3. CASE Connecting \/ Asking \/ Serving \/ PlayTimeout \/ StartStream \/ Stop
    BY <1>1, <2>1, <2>2, <2>3, SourceFollows DEF IInvPlain
  <2>4. CASE Tv
    BY <1>1, <2>1, <2>2, <2>4, TvFollows DEF IInvPlain
  <2>5. CASE UNCHANGED vars
    BY <2>1, <2>2, <2>5, NoSetupKeeps DEF vars, source, television, IInvPlain
  <2> QED BY <2>3, <2>4, <2>5 DEF Next
<1>4. IInvPlain => StreamMatchesSetup
  BY DEF IInvPlain
<1> QED BY <1>2, <1>3, <1>4, PTL DEF Spec

=============================================================================
