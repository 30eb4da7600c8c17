-------------------------- MODULE VideoServiceProofs --------------------------
(***************************************************************************)
(* Proofs about VideoService for any connections and bounds: its type, who *)
(* shares an encoder, for whom the thread may wait in vain, and that no    *)
(* refresh request is lost.                                                *)
(***************************************************************************)
EXTENDS VideoService, TLAPS

\* The steps in which the frames of one encoder are made and waited for.
Running == {"loop", "capture", "snapshot", "callback", "swap", "encode", "set_send",
            "wait", "fetched", "timeout"}

\* Newcomers always wait for a snapshot; who was sent every frame is still a
\* subscriber; and while the encoder runs, after its first frame, all the
\* subscribers have had every frame, or none has.
SharingOK ==
    /\ svc.need_snapshot = TRUE
    /\ synced \subseteq svc.subscribes
    /\ behind # {} => synced = {}
    /\ pc \in Running /\ ~key => svc.subscribes \subseteq synced \/ synced = {}

\* Nobody is in both tables.
Disjoint(s) == s.subscribes \cap s.new_subscribes = {}

\* Who is not, or no longer, connected is in no table, and was sent nothing if
\* never connected.
MembersOK ==
    /\ Disjoint(svc)
    /\ \A c \in Conns : conn[c] \in {"out", "gone"} => c \notin Members(svc)
    /\ \A c \in send : conn[c] # "out"

\* The id is in the channel, was taken from it in this wait, or went astray.
Answered(c) == c \in acks \cup excused \/ (pc = "wait" /\ c \in fetched)

\* From the time the frame was sent, whoever has settled it has answered; while
\* it is waited for, the others are found in DISPLAY_CONN_IDS; and there is
\* nothing in `send` before a frame has been sent.
AnswersOK ==
    /\ pc \in {"set_send", "wait"} => \A c \in send : Settled(c) => Answered(c)
    /\ pc = "wait" => send \subseteq display_conns \cup excused
    /\ pc \in {"capture", "snapshot", "callback", "encode"} => send = {}

\* A new encoder has not produced anything when the option is reset.
RefreshOK ==
    /\ pc = "clear" => key
    /\ RefreshIsNotLost

IInv == TypeOK /\ SharingOK /\ MembersOK /\ AnswersOK /\ RefreshOK

\* The thread's steps that keep the subscribers and the encoder.
Quiet ==
    \/ Enter \/ SetupFails \/ LoopEnds \/ NoSwitch \/ CaptureFrame
    \/ WouldBlock \/ NoNewcomers \/ Newcomers \/ NewcomersSwitch \/ EncodeFails
    \/ SetSend \/ TryWaitNext \/ WaitTimeout \/ RoundEnds

\* Those that may promote newcomers, ...
Promoting == Switch \/ CaptureFails \/ SwapAndSwitch \/ NewcomersOnly

\* ... those about the encoder, ...
Encoding == Setup \/ ClearRefresh \/ Encode

\* ... and the steps of the connections and of the settings.
ConnQuiet(c) ==
    \/ FetchFrame(c) \/ Notify(c) \/ LookUpLeaving(c) \/ NotifyLeaving(c)
    \/ VideoReceived(c) \/ Leave(c)
ConnMember(c) == Subscribe(c) \/ Unsubscribe(c) \/ Remove(c)

\* Next, arranged by what the steps touch.
LEMMA NextSplit ==
    Next <=> \/ Quiet \/ Promoting \/ Encoding \/ CameraStep
             \/ \E kind \in Settings : ChangeSettings(kind)
             \/ \E c \in Conns : ConnQuiet(c) \/ ConnMember(c) \/ RefreshVideo(c)
BY DEF Next, ThreadStep, Failures, ConnStep, Quiet, Promoting, Encoding, ConnQuiet,
   ConnMember

\* Initially nobody is subscribed and nothing is pending.
LEMMA InitIInv == Init => IInv
<1> SUFFICES ASSUME Init PROVE IInv
  OBVIOUS
<1>1. TypeOK
  <2>1. svc \in ServiceType
    BY DEF Init, NewService, ServiceType
  <2>2. /\ lag \in [Conns -> 0 .. MaxLag] /\ owed \in [Conns -> 0 .. MaxLag]
        /\ joins \in 0 .. MaxJoins /\ requests \in 0 .. MaxRequests
    BY VideoAssumption DEF Init
  <2>3. refresh \in BOOLEAN /\ key \in BOOLEAN /\ asked \in BOOLEAN
    BY Zenon DEF Init
  <2>4. conn \in [Conns -> ConnSteps] /\ pc \in Steps
    BY DEF Init, ConnSteps, Steps
  <2> QED BY <2>1, <2>2, <2>3, <2>4 DEF Init, TypeOK
<1>2. SharingOK
  BY DEF Init, SharingOK, NewService
<1>3. MembersOK
  BY DEF Init, MembersOK, Members, Disjoint, NewService
<1>4. AnswersOK /\ RefreshOK
  BY DEF Init, AnswersOK, RefreshOK, RefreshIsNotLost
<1> QED BY <1>1, <1>2, <1>3, <1>4 DEF IInv

\* What the operations on the tables do to the subscribers.
LEMMA EntryFacts ==
    ASSUME svc \in ServiceType, svc.need_snapshot = TRUE, Disjoint(svc), NEW c \in Conns
    PROVE  /\ OnSubscribe(svc, c) \in ServiceType
           /\ OnSubscribe(svc, c).need_snapshot = TRUE
           /\ OnSubscribe(svc, c).subscribes = svc.subscribes
           /\ Members(OnSubscribe(svc, c)) = Members(svc) \cup {c}
           /\ Disjoint(OnSubscribe(svc, c))
           /\ OnUnsubscribe(svc, c) \in ServiceType
           /\ OnUnsubscribe(svc, c).need_snapshot = TRUE
           /\ OnUnsubscribe(svc, c).subscribes = svc.subscribes \ {c}
           /\ Members(OnUnsubscribe(svc, c)) = Members(svc) \ {c}
           /\ Disjoint(OnUnsubscribe(svc, c))
<1>1. CASE c \in svc.subscribes
  <2>1. /\ OnSubscribe(svc, c) = svc
        /\ OnUnsubscribe(svc, c) = [svc EXCEPT !.subscribes = @ \ {c}]
    BY <1>1 DEF OnSubscribe, OnUnsubscribe
  <2>2. c \notin svc.new_subscribes
    BY <1>1 DEF Disjoint
  <2> QED BY <1>1, <2>1, <2>2 DEF ServiceType, Members, Disjoint
<1>2. CASE c \notin svc.subscribes
  <2>1. /\ OnSubscribe(svc, c) = [svc EXCEPT !.new_subscribes = @ \cup {c}]
        /\ OnUnsubscribe(svc, c) = [svc EXCEPT !.new_subscribes = @ \ {c}]
    BY <1>2 DEF OnSubscribe, OnUnsubscribe
  <2> QED BY <1>2, <2>1 DEF ServiceType, Members, Disjoint
<1> QED BY <1>1, <1>2

\* Promotion adds the newcomers to the subscribers.
LEMMA SwapFacts ==
    ASSUME svc \in ServiceType, svc.need_snapshot = TRUE
    PROVE  /\ SwapNewSubscribes(svc) \in ServiceType
           /\ SwapNewSubscribes(svc).need_snapshot = TRUE
           /\ SwapNewSubscribes(svc).subscribes = svc.subscribes \cup svc.new_subscribes
           /\ Members(SwapNewSubscribes(svc)) = Members(svc)
           /\ Disjoint(SwapNewSubscribes(svc))
BY DEF ServiceType, SwapNewSubscribes, Members, Disjoint

\* The thread's steps around the frames.
LEMMA QuietKeepsIInv == ASSUME IInv, Quiet PROVE IInv'
<1> USE DEF Quiet, Enter, SetupFails, LoopEnds, NoSwitch, CaptureFrame, WouldBlock,
        NoNewcomers, Newcomers, NewcomersSwitch, EncodeFails, SetSend, TryWaitNext,
        WaitTimeout, RoundEnds, Go, peers, ghosts, bounds
<1>1. TypeOK'
  BY DEF IInv, TypeOK, Steps
<1>2. SharingOK'
  BY DEF IInv, TypeOK, SharingOK, Running, Steps
<1>3. MembersOK'
  BY DEF IInv, MembersOK
<1>4. AnswersOK'
  <2>1. CASE pc' \notin {"set_send", "wait"}
    BY <2>1 DEF IInv, AnswersOK
  <2>2. CASE WouldBlock \/ EncodeFails
    BY <2>2 DEF IInv, AnswersOK
  <2>3. CASE SetSend
    BY <2>3 DEF IInv, AnswersOK, Answered, Settled
  <2>4. CASE TryWaitNext
    BY <2>4 DEF IInv, AnswersOK, Answered, Settled
  <2> QED BY <2>1, <2>2, <2>3, <2>4
<1>5. RefreshOK'
  BY DEF IInv, RefreshOK, RefreshIsNotLost
<1> QED BY <1>1, <1>2, <1>3, <1>4, <1>5 DEF IInv

\* The steps that may make subscribers of the newcomers: all but one leave the
\* encoder, and that one finds no subscribers.
LEMMA PromotingKeepsIInv == ASSUME IInv, Promoting PROVE IInv'
<1> USE DEF Promoting, Switch, CaptureFails, SwapAndSwitch, NewcomersOnly, Broadcast,
        Go, peers, ghosts, bounds
<1>0. /\ svc \in ServiceType /\ svc.need_snapshot = TRUE
      /\ svc' \in {svc, SwapNewSubscribes(svc)}
  BY DEF IInv, TypeOK, SharingOK
<1>1. TypeOK'
  BY <1>0, SwapFacts DEF IInv, TypeOK, Steps
<1>2. SharingOK'
  <2>1. svc'.need_snapshot = TRUE /\ svc.subscribes \subseteq svc'.subscribes
    BY <1>0, SwapFacts
  <2>2. pc' = "drop" \/ (pc' = "loop" /\ svc' = svc /\ pc = "capture")
        \/ (pc = "callback" /\ svc.subscribes = {})
    OBVIOUS
  <2> QED BY <2>1, <2>2 DEF IInv, SharingOK, Running
<1>3. MembersOK'
  <2>1. Members(svc') = Members(svc) /\ Disjoint(svc')
    BY <1>0, SwapFacts DEF IInv, MembersOK
  <2> QED BY <2>1 DEF IInv, MembersOK
<1>4. AnswersOK'
  BY DEF IInv, AnswersOK
<1>5. RefreshOK'
  BY DEF IInv, RefreshOK, RefreshIsNotLost
<1> QED BY <1>1, <1>2, <1>3, <1>4, <1>5 DEF IInv

\* A new encoder, the reset of the option, and a frame sent.
LEMMA EncodingKeepsIInv == ASSUME IInv, Encoding PROVE IInv'
<1>1. CASE Setup
  <2> USE <1>1 DEF Setup, Go, peers, bounds
  <2>1. TypeOK'
    BY DEF IInv, TypeOK, Steps
  <2>2. SharingOK' /\ MembersOK' /\ AnswersOK'
    BY DEF IInv, SharingOK, MembersOK, AnswersOK, Running
  <2>3. RefreshOK'
    BY DEF RefreshOK, RefreshIsNotLost
  <2> QED BY <2>1, <2>2, <2>3 DEF IInv
<1>2. CASE ClearRefresh
  <2> USE <1>2 DEF ClearRefresh, Go, peers, ghosts, bounds
  <2>1. TypeOK'
    BY DEF IInv, TypeOK, Steps
  <2>2. key
    BY DEF IInv, RefreshOK
  <2>3. SharingOK' /\ MembersOK' /\ AnswersOK'
    BY <2>2 DEF IInv, SharingOK, MembersOK, AnswersOK, Running
  <2>4. RefreshOK'
    BY <2>2 DEF RefreshOK, RefreshIsNotLost
  <2> QED BY <2>1, <2>3, <2>4 DEF IInv
<1>3. CASE Encode
  <2> USE <1>3 DEF Encode, Go, bounds
  <2>0. TypeOK /\ svc.subscribes \subseteq Conns
    BY DEF IInv, TypeOK, ServiceType
  <2>1. TypeOK'
    <3>1. lag' \in [Conns -> 0 .. MaxLag]
      BY <2>0, VideoAssumption DEF TypeOK
    <3>2. asked' \in BOOLEAN /\ key' \in BOOLEAN
      BY Zenon
    <3>3. /\ synced' \subseteq Conns /\ behind' \subseteq Conns
          /\ send' \subseteq Conns /\ excused' \subseteq Conns
      BY <2>0 DEF TypeOK
    <3>4. pc' \in Steps
      BY DEF Steps
    <3> QED BY <2>0, <3>1, <3>2, <3>3, <3>4 DEF TypeOK
  <2>2. SharingOK'
    <3>1. CASE key
      BY <3>1 DEF IInv, SharingOK
    <3>2. CASE ~key
      <4>1. svc.subscribes \subseteq synced \/ synced = {}
        BY <3>2 DEF IInv, SharingOK, Running
      <4>2. synced' = synced \cap svc.subscribes /\ behind' = svc.subscribes \ synced
        BY <3>2
      <4> QED BY <4>1, <4>2 DEF IInv, SharingOK
    <3> QED BY <3>1, <3>2
  <2>3. MembersOK'
    BY <2>0 DEF IInv, MembersOK, Members
  <2>4. AnswersOK'
    <3>1. ASSUME NEW c \in svc.subscribes, Settled(c)' PROVE c \in excused'
      <4>1. lag'[c] # 0
        BY <2>0 DEF TypeOK
      <4>2. conn[c] # "gone"
        BY <2>0 DEF IInv, MembersOK, Members
      <4> QED BY <3>1, <4>1, <4>2 DEF Settled
    <3> QED BY <3>1 DEF AnswersOK, Answered
  <2>5. RefreshOK'
    BY Zenon DEF IInv, RefreshOK, RefreshIsNotLost
  <2> QED BY <2>1, <2>2, <2>3, <2>4, <2>5 DEF IInv
<1> QED BY <1>1, <1>2, <1>3 DEF Encoding

\* What the camera with the same index does to the entry and the channel: from
\* then on everybody who was sent the frame is excused.
LEMMA CameraKeepsIInv == ASSUME IInv, CameraStep PROVE IInv'
<1> USE DEF CameraStep, CameraSetSend, CameraFetched, CameraWaits, CameraRoundEnds,
        CameraTouches, thread, peers, ghosts, bounds
<1>1. TypeOK'
  BY DEF IInv, TypeOK
<1>2. SharingOK' /\ MembersOK'
  BY DEF IInv, SharingOK, MembersOK
<1>3. AnswersOK'
  <2>1. acks \subseteq acks' \/ (pc \in {"set_send", "wait"} => send \subseteq excused')
        \/ pc \notin {"set_send", "wait"}
    OBVIOUS
  <2>2. excused \subseteq excused'
    OBVIOUS
  <2>3. display_conns' = display_conns \/ (pc = "wait" => send \subseteq excused')
    OBVIOUS
  <2>4. pc' = pc /\ send' = send /\ fetched' = fetched
        /\ conn' = conn /\ lag' = lag /\ owed' = owed
    OBVIOUS
  <2> HIDE DEF CameraStep
  <2> QED BY <2>1, <2>2, <2>3, <2>4 DEF IInv, AnswersOK, Answered, Settled
<1>4. RefreshOK'
  BY DEF IInv, RefreshOK, RefreshIsNotLost
<1> QED BY <1>1, <1>2, <1>3, <1>4 DEF IInv

\* Fetching, acknowledging and leaving touch neither tables nor encoder; whoever
\* settles a frame that way has found the entry, or looked before it was there.
LEMMA ConnQuietKeepsIInv ==
    ASSUME IInv, NEW c \in Conns, ConnQuiet(c)
    PROVE  IInv'
<1> USE DEF ConnQuiet, FetchFrame, Notify, LookUpLeaving, NotifyLeaving,
        VideoReceived, LookUp, Leave, thread, ghosts, bounds
<1>0. TypeOK
  BY DEF IInv
<1>1. TypeOK'
  <2>1. /\ conn' \in [Conns -> ConnSteps] /\ acks' \subseteq Conns \cup CameraConns
        /\ excused' \subseteq Conns
    BY <1>0 DEF TypeOK, ConnSteps
  <2>2. lag' \in [Conns -> 0 .. MaxLag] /\ owed' \in [Conns -> 0 .. MaxLag]
    BY <1>0, VideoAssumption DEF TypeOK
  <2> QED BY <1>0, <2>1, <2>2 DEF TypeOK
<1>2. SharingOK'
  BY DEF IInv, SharingOK
<1>3. MembersOK'
  <2>1. /\ conn'[c] # "out" /\ conn'[c] # "gone"
        /\ \A d \in Conns \ {c} : conn'[d] = conn[d]
    BY <1>0 DEF TypeOK
  <2> QED BY <1>0, <2>1 DEF IInv, MembersOK, TypeOK
<1>4. AnswersOK'
  <2>1. /\ pc' = pc /\ send' = send /\ fetched' = fetched
        /\ display_conns' = display_conns
        /\ acks \subseteq acks' /\ excused \subseteq excused'
    OBVIOUS
  <2>2. ASSUME NEW d \in Conns \ {c} PROVE Settled(d)' <=> Settled(d)
    <3>1. conn'[d] = conn[d] /\ lag'[d] = lag[d] /\ owed'[d] = owed[d]
      BY <1>0 DEF TypeOK
    <3> QED BY <3>1 DEF Settled
  <2>3. ASSUME pc \in {"set_send", "wait"}, c \in send, Settled(c)'
        PROVE  c \in acks' \cup excused'
    <3>1. CASE FetchFrame(c)
      <4>1. CASE c \notin AckRequired
        BY <3>1, <4>1
      <4>2. CASE c \in AckRequired
        <5>1. owed'[c] > 0 /\ conn'[c] = "in"
          BY <1>0, <3>1, <4>2, VideoAssumption DEF TypeOK
        <5> QED BY <2>3, <5>1, <1>0 DEF Settled
      <4> QED BY <4>1, <4>2
    <3>2. CASE Notify(c) \/ NotifyLeaving(c)
      BY <3>2
    <3>3. CASE VideoReceived(c) \/ LookUpLeaving(c)
      <4>1. c \notin display_conns
        <5>1. SUFFICES ASSUME c \in display_conns PROVE FALSE
          OBVIOUS
        <5>2. conn'[c] \in {"notify", "bye"}
          BY <1>0, <3>3, <5>1 DEF TypeOK
        <5> QED BY <2>3, <5>2 DEF Settled
      <4> QED BY <2>3, <3>3, <4>1 DEF IInv, AnswersOK
    <3>4. CASE Leave(c)
      <4>1. conn'[c] = "leaving"
        BY <1>0, <3>4 DEF TypeOK
      <4> QED BY <2>3, <4>1 DEF Settled
    <3> QED BY <3>1, <3>2, <3>3, <3>4
  <2>4. send \subseteq Conns
    BY <1>0 DEF TypeOK
  <2> HIDE DEF ConnQuiet
  <2> QED BY <2>1, <2>2, <2>3, <2>4 DEF IInv, AnswersOK, Answered
<1>5. RefreshOK'
  BY DEF IInv, RefreshOK, RefreshIsNotLost
<1> QED BY <1>1, <1>2, <1>3, <1>4, <1>5 DEF IInv

\* Joining enters the newcomers' table only; leaving ends the subscription.
LEMMA ConnMemberKeepsIInv ==
    ASSUME IInv, NEW c \in Conns, ConnMember(c)
    PROVE  IInv'
<1> USE DEF ConnMember, Subscribe, Unsubscribe, Remove, thread, peers, ghosts, bounds
<1>0. /\ TypeOK /\ svc \in ServiceType /\ svc.need_snapshot = TRUE
      /\ Disjoint(svc)
  BY DEF IInv, TypeOK, SharingOK, MembersOK
<1>1. TypeOK'
  <2>1. svc' \in ServiceType
    BY <1>0, EntryFacts
  <2>2. /\ conn' \in [Conns -> ConnSteps] /\ synced' \subseteq Conns
        /\ joins' \in 0 .. MaxJoins
    BY <1>0, VideoAssumption DEF TypeOK, ConnSteps
  <2>3. lag' \in [Conns -> 0 .. MaxLag] /\ owed' \in [Conns -> 0 .. MaxLag]
    BY <1>0, VideoAssumption DEF TypeOK
  <2> QED BY <1>0, <2>1, <2>2, <2>3 DEF TypeOK
<1>2. SharingOK'
  <2>1. svc'.need_snapshot = TRUE
    BY <1>0, EntryFacts
  <2>2. \/ svc'.subscribes = svc.subscribes /\ synced' = synced
        \/ svc'.subscribes = svc.subscribes \ {c} /\ synced' = synced \ {c}
    BY <1>0, EntryFacts
  <2> QED BY <2>1, <2>2 DEF IInv, SharingOK
<1>3. MembersOK'
  <2>1. CASE Subscribe(c)
    <3>1. conn' = [conn EXCEPT ![c] = "in"] /\ Members(svc') = Members(svc) \cup {c}
          /\ Disjoint(svc')
      BY <1>0, <2>1, EntryFacts
    <3> QED BY <1>0, <2>1, <3>1 DEF IInv, MembersOK, TypeOK
  <2>2. CASE Unsubscribe(c)
    <3>1. Members(svc') = Members(svc) \ {c}
          /\ Disjoint(svc')
      BY <1>0, <2>2, EntryFacts
    <3> QED BY <1>0, <2>2, <3>1 DEF IInv, MembersOK, TypeOK
  <2>3. CASE Remove(c)
    <3>1. conn' = [conn EXCEPT ![c] = "gone"] /\ Members(svc') = Members(svc) \ {c}
          /\ Disjoint(svc')
      BY <1>0, <2>3, EntryFacts
    <3> QED BY <1>0, <2>3, <3>1 DEF IInv, MembersOK, TypeOK
  <2> QED BY <2>1, <2>2, <2>3
<1>4. AnswersOK'
  <2>1. /\ pc' = pc /\ send' = send /\ fetched' = fetched /\ acks' = acks
        /\ display_conns' = display_conns /\ excused' = excused
    OBVIOUS
  <2>2. ASSUME NEW d \in send, Settled(d)' PROVE Settled(d)
    <3>1. d \in Conns /\ conn[d] # "out"
      BY <1>0 DEF IInv, MembersOK, TypeOK
    <3>2. CASE d # c
      <4>1. conn'[d] = conn[d] /\ lag'[d] = lag[d] /\ owed'[d] = owed[d]
        BY <1>0, <3>1, <3>2 DEF TypeOK
      <4> QED BY <2>2, <4>1 DEF Settled
    <3>3. CASE d = c
      <4>1. CASE Subscribe(c)
        <5>1. conn[c] = "in" /\ lag' = lag /\ owed' = owed
          BY <3>1, <3>3, <4>1
        <5>2. conn'[c] = "in"
          BY <1>0, <4>1 DEF TypeOK
        <5> QED BY <2>2, <3>3, <5>1, <5>2 DEF Settled
      <4>2. CASE Unsubscribe(c)
        BY <2>2, <4>2 DEF Settled
      <4>3. CASE Remove(c)
        BY <3>3, <4>3 DEF Settled
      <4> QED BY <4>1, <4>2, <4>3
    <3> QED BY <3>2, <3>3
  <2> HIDE DEF ConnMember
  <2> QED BY <2>1, <2>2 DEF IInv, AnswersOK, Answered
<1>5. RefreshOK'
  BY DEF IInv, RefreshOK, RefreshIsNotLost
<1> QED BY <1>1, <1>2, <1>3, <1>4, <1>5 DEF IInv

\* A request for a key frame, and changed settings.
LEMMA RequestsKeepIInv ==
    ASSUME IInv,
           \/ \E kind \in Settings : ChangeSettings(kind)
           \/ \E c \in Conns : RefreshVideo(c)
    PROVE  IInv'
<1> USE DEF ChangeSettings, RefreshVideo, thread, peers, ghosts
<1>1. TypeOK'
  <2>1. requests' \in 0 .. MaxRequests /\ changed' \subseteq Settings
    BY VideoAssumption DEF IInv, TypeOK
  <2>2. refresh' \in BOOLEAN /\ asked' \in BOOLEAN
    BY Zenon DEF IInv, TypeOK
  <2> QED BY <2>1, <2>2 DEF IInv, TypeOK
<1>2. SharingOK' /\ MembersOK' /\ AnswersOK'
  BY DEF IInv, SharingOK, MembersOK, AnswersOK, Answered, Settled
<1>3. RefreshOK'
  BY DEF IInv, RefreshOK, RefreshIsNotLost
<1> QED BY <1>1, <1>2, <1>3 DEF IInv

\* Every step of the specification keeps the invariant.
LEMMA NextIInv == IInv /\ [Next]_vars => IInv'
<1>1. IInv /\ Next => IInv'
  BY NextSplit, QuietKeepsIInv, PromotingKeepsIInv, EncodingKeepsIInv,
     CameraKeepsIInv, ConnQuietKeepsIInv, ConnMemberKeepsIInv, RequestsKeepIInv
<1>2. IInv /\ UNCHANGED vars => IInv'
  BY DEF vars, thread, peers, ghosts, bounds, IInv, TypeOK, SharingOK, MembersOK,
     Disjoint, AnswersOK, Answered, Settled, RefreshOK, RefreshIsNotLost
<1> QED BY <1>1, <1>2

\* The invariant holds in every reachable state.
THEOREM Invariance == Spec => []IInv
BY InitIInv, NextIInv, PTL DEF Spec

\* The variables keep their types for any connections and bounds.
THEOREM TypeCorrect == Spec => []TypeOK
<1>1. IInv => TypeOK BY DEF IInv
<1> QED BY <1>1, Invariance, PTL

\* handle_one_frame never sends a frame both to connections that have had all
\* frames of the encoder and to connections that have not.
THEOREM EncoderIsShared == Spec => []NewcomersShareEncoder
<1>1. IInv => NewcomersShareEncoder
  BY DEF IInv, SharingOK, NewcomersShareEncoder
<1> QED BY <1>1, Invariance, PTL

\* In the wait of `run`, a connection that has settled the frame is counted or in
\* the channel, unless it looked for the display before `set_send` had entered it
\* or the camera with the same index interfered.
THEOREM NobodyIsWaitedForInVain == Spec => []WaitsAreAnswered
<1>1. IInv => WaitsAreAnswered
  BY DEF IInv, AnswersOK, Answered, WaitsAreAnswered
<1> QED BY <1>1, Invariance, PTL

\* A refresh that was asked for (refresh_video_display) is still pending, or a
\* new encoder's key frame is to come, until a key frame has been sent.
THEOREM NoRefreshIsLost == Spec => []RefreshIsNotLost
<1>1. IInv => RefreshIsNotLost BY DEF IInv, RefreshOK
<1> QED BY <1>1, Invariance, PTL
===============================================================================
