---------------------------- MODULE VideoService ----------------------------
(***************************************************************************)
(* The video of one display (src/server/video_service.rs): the capture     *)
(* thread, the connections that watch it, and the acknowledgements that    *)
(* pace it.                                                                *)
(*                                                                         *)
(* The thread captures and encodes a frame, sends it to the subscribers,   *)
(* waits until they have fetched it, and starts again.  Anything that      *)
(* calls for another encoder makes it leave with "SWITCH" and be started   *)
(* again by `GenericService::run`.  An encoder's first frame is the key    *)
(* frame without which nothing of it can be decoded.                       *)
(*                                                                         *)
(* Of a frame the model keeps who was sent it: lag[c] counts the frames    *)
(* connection c has not fetched from its queue, owed[c] those it fetched   *)
(* and its peer has not acknowledged.                                      *)
(*                                                                         *)
(* FRAME_FETCHED_NOTIFIERS and DISPLAY_CONN_IDS are keyed by the index     *)
(* alone, so a camera with the index of this monitor uses the same channel *)
(* and the same entry.  Of its thread the model keeps those uses.          *)
(***************************************************************************)
EXTENDS ServiceInner, Naturals

CONSTANTS
    AckRequired,  \* connections with video_ack_required (web clients)
    CameraConns,  \* who watches the camera that has the index of this monitor
    MaxLag,       \* bound on the frames on the way to one connection, and on
                  \* the acknowledgements a peer may still send
    MaxJoins,     \* bound on the subscriptions
    MaxRequests   \* bound on refresh requests, and on changes of the settings

ASSUME VideoAssumption ==
    /\ IsFiniteSet(Conns)
    /\ AckRequired \subseteq Conns
    /\ CameraConns \cap Conns = {}
    /\ MaxLag \in Nat \ {0}
    /\ MaxJoins \in Nat
    /\ MaxRequests \in Nat

VARIABLES
    svc,            \* the subscriber tables of the service
    refresh,        \* OPTION_REFRESH
    changed,        \* what differs from the values the encoder was built with
    pc,             \* the capture thread
    key,            \* the encoder has not produced a frame
    send,           \* VideoFrameController.send_conn_ids
    fetched,        \* fetched_conn_ids
    acks,           \* the ids in the channel of FRAME_FETCHED_NOTIFIERS[index]
    display_conns,  \* DISPLAY_CONN_IDS[index], {} where it has no entry
    camera,         \* the capture thread of the camera with the same index
    conn,           \* where each connection's task is
    lag, owed,      \* frames under way to, and not acknowledged by, each
    synced,         \* ghost: who was sent every frame of the encoder, in one
                    \* subscription
    behind,         \* ghost: who was sent a frame of it without the first
    asked,          \* ghost: a refresh was requested, no key frame sent since
    excused,        \* ghost: whose answer to this frame may have gone astray
    joins, requests \* how often these have happened

thread == <<pc, key, send, fetched>>
peers == <<conn, lag, owed>>
ghosts == <<synced, behind, asked, excused>>
bounds == <<joins, requests>>
vars == <<svc, refresh, changed, thread, acks, display_conns, camera, peers, ghosts,
          bounds>>

Steps == {"idle", "setup", "clear", "loop", "capture", "snapshot", "callback", "swap",
          "encode", "set_send", "wait", "fetched", "timeout", "drop"}
ConnSteps == {"out", "in", "notify", "leaving", "bye", "remove", "gone"}
Settings == {"privacy", "other"}

Init ==
    /\ svc = NewService(TRUE)
    /\ refresh = FALSE
    /\ changed = {}
    /\ pc = "idle" /\ key = TRUE /\ send = {} /\ fetched = {}
    /\ acks = {}
    /\ display_conns = {}
    /\ camera = "loop"
    /\ conn = [c \in Conns |-> "out"]
    /\ lag = [c \in Conns |-> 0]
    /\ owed = [c \in Conns |-> 0]
    /\ synced = {} /\ behind = {} /\ asked = FALSE
    /\ excused = {}
    /\ joins = 0 /\ requests = 0

-----------------------------------------------------------------------------
(* The capture thread *)

Go(from, to) == pc = from /\ pc' = to

\* `GenericService::run` calls `run` while anybody is subscribed.
Enter ==
    /\ Go("idle", "setup")
    /\ HasSubscribes(svc)
    /\ UNCHANGED <<svc, refresh, changed, key, send, fetched, acks,
                   display_conns, peers, ghosts, bounds, camera>>

\* The capturer and the encoder are created with the settings of the moment.
Setup ==
    /\ Go("setup", "clear")
    /\ key' = TRUE
    /\ changed' = {}
    /\ synced' = {} /\ behind' = {}
    /\ UNCHANGED <<svc, refresh, send, fetched, acks, display_conns, peers,
                   asked, excused, bounds, camera>>

\* No capturer, or no encoder even after the fallback to VP9.
SetupFails ==
    /\ Go("setup", "drop")
    /\ UNCHANGED <<svc, refresh, changed, key, send, fetched, acks,
                   display_conns, peers, ghosts, bounds, camera>>

\* A request that came before the new encoder was there is served by it.
ClearRefresh ==
    /\ Go("clear", "loop")
    /\ refresh' = FALSE
    /\ UNCHANGED <<svc, changed, key, send, fetched, acks, display_conns, peers,
                   ghosts, bounds, camera>>

\* `sp.ok()` fails: the loop ends, and `Drop for Raii` follows.
LoopEnds ==
    /\ Go("loop", "drop")
    /\ ~HasSubscribes(svc)
    /\ UNCHANGED <<svc, refresh, changed, key, send, fetched, acks,
                   display_conns, peers, ghosts, bounds, camera>>

\* `try_broadcast_display_changed`: if the display did change, the newcomers
\* are told along with the subscribers, and become subscribers.
Broadcast == svc' \in {svc, SwapNewSubscribes(svc)}

\* The checks at the head of the loop, and the one inside the wait, find a
\* reason for another encoder: refresh, codec, quality, recording, privacy.
Switch ==
    /\ \/ Go("loop", "drop") /\ HasSubscribes(svc) /\ (refresh \/ changed # {})
       \/ Go("wait", "drop") /\ "privacy" \in changed
    /\ Broadcast
    /\ UNCHANGED <<refresh, changed, key, send, fetched, acks, display_conns,
                   peers, ghosts, bounds, camera>>

\* No reason: `frame_controller.reset()`, and on to the capturer.
NoSwitch ==
    /\ Go("loop", "capture")
    /\ HasSubscribes(svc) /\ ~refresh /\ changed = {}
    /\ send' = {}
    /\ UNCHANGED <<svc, refresh, changed, key, fetched, acks, display_conns,
                   peers, ghosts, bounds, camera>>

\* A frame, or none new but the encoder wants the last one again.
CaptureFrame ==
    /\ Go("capture", "snapshot")
    /\ UNCHANGED <<svc, refresh, changed, key, send, fetched, acks,
                   display_conns, peers, ghosts, bounds, camera>>

\* No new frame: nothing is sent, and there is nothing to wait for.
WouldBlock ==
    /\ Go("capture", "wait")
    /\ fetched' = {}
    /\ UNCHANGED <<svc, refresh, changed, key, send, acks, display_conns, peers,
                   ghosts, bounds, camera>>

\* The capturer fails: another capturer, or GDI in the same loop.
CaptureFails ==
    /\ \/ Go("capture", "drop") /\ Broadcast
       \/ Go("capture", "loop") /\ UNCHANGED svc
    /\ UNCHANGED <<refresh, changed, key, send, fetched, acks, display_conns,
                   peers, ghosts, bounds, camera>>

\* `snapshot` of handle_one_frame: nobody has joined.
NoNewcomers ==
    /\ Go("snapshot", "encode")
    /\ svc.new_subscribes = {}
    /\ UNCHANGED <<svc, refresh, changed, key, send, fetched, acks,
                   display_conns, peers, ghosts, bounds, camera>>

\* Somebody has: the callback looks at the others under a lock of its own.
Newcomers ==
    /\ Go("snapshot", "callback")
    /\ svc.new_subscribes # {}
    /\ UNCHANGED <<svc, refresh, changed, key, send, fetched, acks,
                   display_conns, peers, ghosts, bounds, camera>>

\* Others are watching: "switch due to new subscriber".
NewcomersSwitch ==
    /\ Go("callback", "swap")
    /\ svc.subscribes # {}
    /\ UNCHANGED <<svc, refresh, changed, key, send, fetched, acks,
                   display_conns, peers, ghosts, bounds, camera>>

\* Plausible bug: the newcomers of a running encoder are let in as they come.
SwapAndGoOn ==
    /\ Go("swap", "encode")
    /\ svc' = SwapNewSubscribes(svc)
    /\ UNCHANGED <<refresh, changed, key, send, fetched, acks, display_conns,
                   peers, ghosts, bounds, camera>>

\* `Drop for ServiceSwap`, on the way out with "SWITCH".
SwapAndSwitch ==
    /\ Go("swap", "drop")
    /\ svc' = SwapNewSubscribes(svc)
    /\ UNCHANGED <<refresh, changed, key, send, fetched, acks, display_conns,
                   peers, ghosts, bounds, camera>>

\* Nobody is watching but those who have just joined: they are let in and the
\* encoder stays.
NewcomersOnly ==
    /\ Go("callback", "encode")
    /\ svc.subscribes = {}
    /\ svc' = SwapNewSubscribes(svc)
    /\ UNCHANGED <<refresh, changed, key, send, fetched, acks, display_conns,
                   peers, ghosts, bounds, camera>>

\* Plausible bug: the frame is sent, and repeated in the same round.
EncodeTwice ==
    /\ Go("encode", "set_send")
    /\ \A c \in svc.subscribes : lag[c] < MaxLag
    /\ lag' = [c \in Conns |-> IF c \in svc.subscribes THEN lag[c] + 2 ELSE lag[c]]
    /\ send' = svc.subscribes
    /\ key' = FALSE
    /\ synced' = IF key THEN svc.subscribes ELSE synced \cap svc.subscribes
    /\ behind' = IF key THEN {} ELSE svc.subscribes \ synced
    /\ asked' = (asked /\ ~key)
    /\ excused' = {c \in svc.subscribes : conn[c] = "remove"}
    /\ UNCHANGED <<svc, refresh, changed, fetched, acks, display_conns, conn,
                   owed, bounds, camera>>

\* Plausible bug: the option is reset when a frame has been encoded.
EncodeClearsRefresh ==
    /\ Go("encode", "set_send")
    /\ \A c \in svc.subscribes : lag[c] < MaxLag
    /\ lag' = [c \in Conns |-> IF c \in svc.subscribes THEN lag[c] + 1 ELSE lag[c]]
    /\ send' = svc.subscribes
    /\ key' = FALSE
    /\ refresh' = FALSE
    /\ synced' = IF key THEN svc.subscribes ELSE synced \cap svc.subscribes
    /\ behind' = IF key THEN {} ELSE svc.subscribes \ synced
    /\ asked' = (asked /\ ~key)
    /\ excused' = {c \in svc.subscribes : conn[c] = "remove"}
    /\ UNCHANGED <<svc, changed, fetched, acks, display_conns, conn, owed,
                   bounds, camera>>

\* The frame is encoded and put into the queue of every subscriber under the
\* lock of the service (`send_video_frame`).
Encode ==
    /\ Go("encode", "set_send")
    /\ \A c \in svc.subscribes : lag[c] < MaxLag
    /\ lag' = [c \in Conns |-> IF c \in svc.subscribes THEN lag[c] + 1 ELSE lag[c]]
    /\ send' = svc.subscribes
    /\ key' = FALSE
    /\ synced' = IF key THEN svc.subscribes ELSE synced \cap svc.subscribes
    /\ behind' = IF key THEN {} ELSE svc.subscribes \ synced
    /\ asked' = (asked /\ ~key)
    /\ excused' = {c \in svc.subscribes : conn[c] = "remove"}
    /\ UNCHANGED <<svc, refresh, changed, fetched, acks, display_conns, conn,
                   owed, bounds, camera>>

\* Encoding fails: no frame this time, or an encoder that is given up.
EncodeFails ==
    /\ \/ Go("encode", "set_send")
       \/ Go("encode", "drop")
    /\ UNCHANGED <<svc, refresh, changed, key, send, fetched, acks,
                   display_conns, peers, ghosts, bounds, camera>>

\* `set_send`: only now can an acknowledgement that names no display, or a
\* connection that closes, find this display.
SetSend ==
    /\ Go("set_send", "wait")
    /\ display_conns' = IF send = {} THEN display_conns ELSE send
    /\ fetched' = {}
    /\ UNCHANGED <<svc, refresh, changed, key, send, acks, peers, ghosts,
                   bounds, camera>>

\* Plausible bug: fetched_conn_ids is made anew for every wait.
TryWaitAfresh ==
    /\ pc = "wait" /\ "privacy" \notin changed
    /\ send = {} \/ acks # {}
    /\ fetched' = IF send = {} THEN fetched ELSE acks
    /\ acks' = IF send = {} THEN acks ELSE {}
    /\ pc' = IF Cardinality(fetched') >= Cardinality(send) THEN "fetched" ELSE "wait"
    /\ UNCHANGED <<svc, refresh, changed, key, send, display_conns, peers,
                   ghosts, bounds, camera>>

\* `try_wait_next` takes all there is in the channel; enough ids end the wait.
TryWaitNext ==
    /\ pc = "wait" /\ "privacy" \notin changed
    /\ send = {} \/ acks # {}
    /\ fetched' = IF send = {} THEN fetched ELSE fetched \cup acks
    /\ acks' = IF send = {} THEN acks ELSE {}
    /\ pc' = IF Cardinality(fetched') >= Cardinality(send) THEN "fetched" ELSE "wait"
    /\ UNCHANGED <<svc, refresh, changed, key, send, display_conns, peers,
                   ghosts, bounds, camera>>

\* Plausible bug: the time only runs once somebody has fetched the frame.
WaitTimeoutOnceFetched ==
    /\ Go("wait", "timeout")
    /\ send # {} /\ fetched # {}
    /\ UNCHANGED <<svc, refresh, changed, key, send, fetched, acks,
                   display_conns, peers, ghosts, bounds, camera>>

\* Three seconds have passed.
WaitTimeout ==
    /\ Go("wait", "timeout")
    /\ send # {}
    /\ UNCHANGED <<svc, refresh, changed, key, send, fetched, acks,
                   display_conns, peers, ghosts, bounds, camera>>

\* DISPLAY_CONN_IDS forgets the display, at the end of a round and of `run`,
\* and the local variables go out of scope.
RoundEnds ==
    /\ \/ pc \in {"fetched", "timeout"} /\ pc' = "loop"
       \/ Go("drop", "idle")
    /\ display_conns' = {}
    /\ fetched' = {}
    /\ send' = IF pc = "drop" THEN {} ELSE send
    /\ excused' = {}
    /\ UNCHANGED <<svc, refresh, changed, key, acks, peers, synced, behind, asked, bounds,
                   camera>>

-----------------------------------------------------------------------------
(* The camera with the same index *)

\* From the time this thread has sent a frame, what the camera's thread does to
\* the channel may cost it an answer; from `set_send`, what it does to the entry.
CameraTouches(steps) == excused' = IF pc \in steps THEN excused \cup send ELSE excused

\* Its frame is entered (`set_send`), over an entry of this thread.
CameraSetSend(ids) ==
    /\ camera = "loop" /\ camera' = "wait"
    /\ ids # {} /\ display_conns' = ids
    /\ CameraTouches({"wait"})
    /\ UNCHANGED <<svc, refresh, changed, thread, acks, peers, synced, behind,
                   asked, bounds>>

\* One of its viewers has fetched a frame: an id in the common channel.
CameraFetched(d) ==
    /\ d \notin acks /\ acks' = acks \cup {d}
    /\ UNCHANGED <<svc, refresh, changed, thread, display_conns, camera, peers,
                   ghosts, bounds>>

\* Its `try_wait_next` takes all there is, ids for this thread included.
CameraWaits ==
    /\ camera = "wait" /\ acks # {} /\ acks' = {}
    /\ CameraTouches({"set_send", "wait"})
    /\ UNCHANGED <<svc, refresh, changed, thread, display_conns, camera, peers,
                   synced, behind, asked, bounds>>

\* The end of its round, one without a frame included, or of its `run`.
CameraRoundEnds ==
    /\ camera = "wait" \/ display_conns # {}
    /\ camera' = "loop"
    /\ display_conns' = {}
    /\ CameraTouches({"wait"})
    /\ UNCHANGED <<svc, refresh, changed, thread, acks, peers, synced, behind,
                   asked, bounds>>

CameraStep ==
    \/ \E ids \in SUBSET CameraConns : CameraSetSend(ids)
    \/ \E d \in CameraConns : CameraFetched(d)
    \/ CameraConns # {} /\ (CameraWaits \/ CameraRoundEnds)

-----------------------------------------------------------------------------
(* The connections *)

\* The session subscribes to this display: at login, or switching to it.
Subscribe(c) ==
    /\ conn[c] \in {"out", "in"} /\ c \notin Members(svc)
    /\ joins < MaxJoins /\ joins' = joins + 1
    /\ conn' = [conn EXCEPT ![c] = "in"]
    /\ svc' = OnSubscribe(svc, c)
    /\ UNCHANGED <<refresh, changed, thread, acks, display_conns, lag, owed,
                   ghosts, requests, camera>>

\* The session switches to another display.
Unsubscribe(c) ==
    /\ conn[c] = "in" /\ c \in Members(svc)
    /\ svc' = OnUnsubscribe(svc, c)
    /\ synced' = synced \ {c}
    /\ UNCHANGED <<refresh, changed, thread, acks, display_conns, peers, behind,
                   asked, excused, bounds, camera>>

\* `refresh_video_display`, for a peer that cannot decode or has new displays.
RefreshVideo(c) ==
    /\ conn[c] = "in"
    /\ requests < MaxRequests /\ requests' = requests + 1
    /\ refresh' = TRUE
    /\ asked' = TRUE
    /\ UNCHANGED <<svc, changed, thread, acks, display_conns, peers, synced,
                   behind, excused, joins, camera>>

\* `rx_video.recv()`: the frame leaves the queue, which is what counts as
\* fetched for a peer that sends no acknowledgements.
FetchFrame(c) ==
    /\ conn[c] = "in" /\ lag[c] > 0
    /\ lag' = [lag EXCEPT ![c] = @ - 1]
    /\ IF c \in AckRequired
       THEN owed' = [owed EXCEPT ![c] = IF @ < MaxLag THEN @ + 1 ELSE @] /\ UNCHANGED acks
       ELSE acks' = acks \cup {c} /\ UNCHANGED owed
    /\ UNCHANGED <<svc, refresh, changed, thread, display_conns, conn, ghosts,
                   bounds, camera>>

\* `notify_video_frame_fetched_by_conn_id`: the displays that wait for this
\* connection are looked up under one lock, and notified under another.
LookUp(c, found, missed) ==
    /\ conn' = [conn EXCEPT ![c] = IF c \in display_conns THEN found ELSE missed]
    /\ excused' = IF pc = "set_send" /\ c \in send \ display_conns
                  THEN excused \cup {c} ELSE excused

\* The peer's `VideoReceived` names no display, so the displays are looked up ...
VideoReceived(c) ==
    /\ conn[c] = "in" /\ owed[c] > 0
    /\ owed' = [owed EXCEPT ![c] = @ - 1]
    /\ LookUp(c, "notify", "in")
    /\ UNCHANGED <<svc, refresh, changed, thread, acks, display_conns, lag,
                   synced, behind, asked, bounds, camera>>

\* ... and notified.
Notify(c) ==
    /\ conn[c] = "notify"
    /\ conn' = [conn EXCEPT ![c] = "in"]
    /\ acks' = acks \cup {c}
    /\ UNCHANGED <<svc, refresh, changed, thread, display_conns, lag, owed,
                   ghosts, bounds, camera>>

\* The main loop of the connection ends.
Leave(c) ==
    /\ conn[c] = "in"
    /\ conn' = [conn EXCEPT ![c] = "leaving"]
    /\ UNCHANGED <<svc, refresh, changed, thread, acks, display_conns, lag,
                   owed, ghosts, bounds, camera>>

\* Plausible bug: a connection that closes is removed and tells no display.
LeaveUntold(c) ==
    /\ conn[c] = "leaving"
    /\ conn' = [conn EXCEPT ![c] = "remove"]
    /\ UNCHANGED <<svc, refresh, changed, thread, acks, display_conns, lag, owed,
                   ghosts, bounds, camera>>

\* `notify_video_frame_fetched_by_conn_id(id, None)`, do not wait for me: the
\* same two steps.
LookUpLeaving(c) ==
    /\ conn[c] = "leaving"
    /\ LookUp(c, "bye", "remove")
    /\ UNCHANGED <<svc, refresh, changed, thread, acks, display_conns, lag, owed,
                   synced, behind, asked, bounds, camera>>

NotifyLeaving(c) ==
    /\ conn[c] = "bye"
    /\ conn' = [conn EXCEPT ![c] = "remove"]
    /\ acks' = acks \cup {c}
    /\ UNCHANGED <<svc, refresh, changed, thread, display_conns, lag, owed, ghosts,
                   bounds, camera>>

\* `remove_connection`; the queue goes with the connection.
Remove(c) ==
    /\ conn[c] = "remove"
    /\ conn' = [conn EXCEPT ![c] = "gone"]
    /\ svc' = OnUnsubscribe(svc, c)
    /\ lag' = [lag EXCEPT ![c] = 0]
    /\ owed' = [owed EXCEPT ![c] = 0]
    /\ synced' = synced \ {c}
    /\ UNCHANGED <<refresh, changed, thread, acks, display_conns, behind, asked,
                   excused, bounds, camera>>

\* Somebody turns privacy mode on or off, negotiates another codec, starts to
\* record, changes the resolution; or undoes it before the thread has looked.
ChangeSettings(kind) ==
    /\ requests < MaxRequests /\ requests' = requests + 1
    /\ changed' = IF kind \in changed THEN changed \ {kind} ELSE changed \cup {kind}
    /\ UNCHANGED <<svc, refresh, thread, acks, display_conns, peers, ghosts,
                   joins, camera>>

-----------------------------------------------------------------------------
\* The steps the thread takes whatever the capturer and the encoder do.
ThreadStep ==
    \/ Enter \/ ClearRefresh \/ LoopEnds \/ Switch \/ NoSwitch
    \/ NoNewcomers \/ Newcomers \/ NewcomersSwitch \/ SwapAndSwitch \/ NewcomersOnly
    \/ SetSend \/ TryWaitNext \/ WaitTimeout \/ RoundEnds

Failures == SetupFails \/ WouldBlock \/ CaptureFails \/ EncodeFails

ConnStep(c) ==
    FetchFrame(c) \/ Notify(c) \/ LookUpLeaving(c) \/ NotifyLeaving(c) \/ Remove(c)

Next ==
    \/ ThreadStep \/ Failures \/ Setup \/ CaptureFrame \/ Encode \/ CameraStep
    \/ \E kind \in Settings : ChangeSettings(kind)
    \/ \E c \in Conns :
        \/ ConnStep(c) \/ Subscribe(c) \/ Unsubscribe(c) \/ RefreshVideo(c)
        \/ VideoReceived(c) \/ Leave(c)

Spec == Init /\ [][Next]_vars

\* The thread runs; the screen changes, and capturing and encoding succeed, now
\* and again; the tasks of the connections run.  Peers need not acknowledge.  The
\* three seconds of a wait pass, whatever the camera puts into the channel.
FairSpec ==
    /\ Spec
    /\ WF_vars(ThreadStep) /\ WF_vars(WaitTimeout)
    /\ SF_vars(Setup) /\ SF_vars(CaptureFrame) /\ SF_vars(Encode)
    /\ \A c \in Conns : WF_vars(ConnStep(c))

-----------------------------------------------------------------------------
(* Properties *)

\* Every variable has the shape of the Rust value it stands for, and the queues
\* and channels stay within their bounds.
TypeOK ==
    /\ svc \in ServiceType
    /\ refresh \in BOOLEAN /\ changed \subseteq Settings
    /\ pc \in Steps /\ key \in BOOLEAN
    /\ send \subseteq Conns /\ fetched \subseteq Conns \cup CameraConns
    /\ acks \subseteq Conns \cup CameraConns
    /\ display_conns \subseteq Conns \cup CameraConns
    /\ camera \in {"loop", "wait"}
    /\ conn \in [Conns -> ConnSteps]
    /\ lag \in [Conns -> 0 .. MaxLag] /\ owed \in [Conns -> 0 .. MaxLag]
    /\ synced \subseteq Conns /\ behind \subseteq Conns /\ asked \in BOOLEAN
    /\ excused \subseteq Conns
    /\ joins \in 0 .. MaxJoins /\ requests \in 0 .. MaxRequests

\* Whoever joins does not share a running encoder with those who watch: no
\* frame goes both to connections that have had all frames of the encoder and
\* to connections that have not ("so that new sub and old sub share the same
\* encoder after switch", handle_one_frame).
NewcomersShareEncoder ==
    behind \cap svc.subscribes # {} => synced \cap svc.subscribes = {}

\* The connection has done all it will do about the frames it was sent: it has
\* fetched and, where that is asked for, acknowledged them, or it is leaving and
\* has asked not to be waited for.
Settled(c) ==
    \/ conn[c] \in {"remove", "gone"}
    \/ conn[c] = "in" /\ lag[c] = 0 /\ owed[c] = 0

\* Nobody is waited for in vain: while the thread waits, a connection that was
\* sent the frame and has settled it is counted, or its id is in the channel.
\* There are two exceptions (`excused`).  It looked for a display that waits for
\* it before `set_send` had entered this one; or the camera with the same index
\* has changed the entry, or emptied the channel, since the frame was sent.
WaitsAreAnswered ==
    pc = "wait" =>
        \A c \in send : Settled(c) => c \in fetched \cup acks \cup excused

\* "break if all connections have received current frame": when the wait ends
\* before its time, every connection that was sent the frame, and is still
\* there, has fetched it and, where that is asked for, acknowledged it.
AllReceivedCurrentFrame ==
    pc = "fetched" =>
        \A c \in send : conn[c] = "in" => lag[c] = 0 /\ owed[c] = 0

\* A refresh that was asked for is not lost, in whatever state of the thread the
\* request comes: until a key frame has been sent the option is set, or the
\* encoder is new and its first frame, a key frame, is still to come.
RefreshIsNotLost == asked => refresh \/ key

\* Whoever joins gets a frame, or has left: neither a peer that never
\* acknowledges nor one that dies can keep the thread from serving others.
NewcomersGetVideo ==
    \A c \in Conns :
        (c \in svc.new_subscribes) ~> (lag[c] > 0 \/ c \notin Members(svc))
=============================================================================
