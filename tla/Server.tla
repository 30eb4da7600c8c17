------------------------------- MODULE Server -------------------------------
(***************************************************************************)
(* The host's publish/subscribe core: `Server` (src/server.rs), the        *)
(* services it owns (src/server/service.rs) and the connection handlers    *)
(* that change subscriptions (src/server/connection.rs).                   *)
(*                                                                         *)
(* A connection task changes subscriptions while it holds the Server's     *)
(* write lock; `job` is the operation that holds it.  The service threads  *)
(* never take that lock: they run `repeat`/`run` and share only the        *)
(* RwLock of their own tables.  One step of a job is therefore one         *)
(* acquisition of a service's lock, and `is_subed` takes it twice.         *)
(***************************************************************************)
EXTENDS ServiceInner, Naturals

CONSTANTS
    NoConn,         \* no connection id
    Services,       \* service names
    VideoServices,  \* is_video_service_name: one per monitor and camera
    Cameras,        \* the primary camera's service, if there is a camera
    Primary,        \* the service of the primary monitor
    Focus,          \* input_service::NAME_WINDOW_FOCUS
    Snapshotting,   \* services created with need_snapshot = true
    StateServices   \* those whose callback publishes, then snapshots (cursor)

ASSUME ServicesAssumption ==
    /\ NoConn \notin Conns
    /\ VideoServices \subseteq Services
    /\ Cameras \subseteq VideoServices
    /\ Primary \in VideoServices \ Cameras
    /\ Focus \in Services \ VideoServices
    /\ Snapshotting \subseteq Services
    /\ StateServices \subseteq Snapshotting \ VideoServices

VARIABLES
    connections,  \* Server.connections: ids added and not yet removed
    closed,       \* ids whose task has run remove_connection; never reused
    services,     \* names of the services created so far; none is removed
    svc,          \* the tables of each service
    view_camera,  \* the ids of camera sessions
    display,      \* Connection.display_idx, as the service of that display
    follow,       \* Connection.follow_remote_window, the ids where it is set
    job,          \* the operation holding the Server write lock
    thread,       \* where each service thread is in its callback
    current,      \* who holds the latest state published by each service
    late,         \* who joined between a snapshot's send and its swap
    wants         \* ghost: the subscriptions the peers asked for

\* Per-connection fields that only their own task reads and writes.
session == <<view_camera, display, follow>>
vars == <<connections, closed, services, svc, session, job, thread, current,
          late, wants>>

-----------------------------------------------------------------------------
(* The operation in progress *)

Wish == Services \X BOOLEAN
NoWish == <<Focus, FALSE>>
JobKinds == {"none", "add", "remove", "sub", "capture", "count"}

\* kind: what the lock holder does; todo: the services it still has to visit,
\* each with the subscription state it asks for; at: the step inside
\* Server::subscribe; cur: the service being visited; count: the subscribed
\* displays counted so far.
JobType ==
    [kind : JobKinds, conn : Conns \cup {NoConn}, todo : SUBSET Wish,
     at : {"next", "second", "apply"}, cur : Wish, count : Nat]

Job(kind, c, todo) ==
    [kind |-> kind, conn |-> c, todo |-> todo, at |-> "next", cur |-> NoWish,
     count |-> 0]

Idle == Job("none", NoConn, {})
Unlocked == job.kind = "none"

\* add_connection/remove_connection call on_subscribe/on_unsubscribe directly,
\* the others go through Server::subscribe and its is_subed test.
Direct == job.kind \in {"add", "remove"}

\* What the peer wants once every wish of `todo` has been granted.
Granted(c, todo) ==
    {w \in wants : w[2] # c \/ <<w[1], FALSE>> \notin todo}
      \cup {<<s, c>> : s \in {t \in Services : <<t, TRUE>> \in todo}}

Lock(kind, c, todo) ==
    /\ job' = Job(kind, c, todo)
    /\ wants' = Granted(c, todo)

-----------------------------------------------------------------------------
(* Operations of the connection tasks: each takes the Server write lock *)

Init ==
    /\ connections = {}
    /\ closed = {}
    /\ services = Services \ VideoServices
    /\ svc = [s \in Services |-> NewService(s \in Snapshotting)]
    /\ view_camera = {}
    /\ display = [c \in Conns |-> Primary]
    /\ follow = {}
    /\ job = Idle
    /\ thread = [s \in Services |-> "idle"]
    /\ current = [s \in Services |-> {}]
    /\ late = [s \in Services |-> {}]
    /\ wants = {}

\* try_sub_monitor_services: the primary video service is created if need be,
\* then the connection joins every service but the other displays' and those
\* it has no permission for or did not ask for.
AddConnection(c, noperms) ==
    /\ Unlocked
    /\ c \notin connections \cup closed
    /\ Focus \in noperms <=> c \notin follow
    /\ services' = services \cup {Primary}
    /\ LET joined == {s \in services' : /\ s \in VideoServices => s = Primary
                                        /\ s \notin noperms}
       IN  Lock("add", c, joined \X {TRUE})
    /\ UNCHANGED <<connections, closed, svc, session, thread, current, late>>

\* try_sub_camera_displays: a camera session joins the primary camera only.  Its
\* display_idx is the index of the primary monitor, which is read as that of a
\* camera from now on; Primary stands for an index no camera has.
AddCameraConnection(c) ==
    /\ Unlocked
    /\ c \notin connections \cup closed
    /\ services' = services \cup Cameras
    /\ view_camera' = view_camera \cup {c}
    /\ \E d \in Cameras \cup {Primary} : display' = [display EXCEPT ![c] = d]
    /\ Lock("add", c, Cameras \X {TRUE})
    /\ UNCHANGED <<connections, closed, svc, follow, thread, current, late>>

\* The end of Connection::start, whether or not the peer ever logged in.
RemoveConnection(c) ==
    /\ Unlocked
    /\ c \notin closed
    /\ Lock("remove", c, services \X {FALSE})
    /\ UNCHANGED <<connections, closed, services, svc, session, thread, current,
                   late>>

\* update_options, handle_voice_call, close_voice_call: one subscribe() of a
\* service that is not a display.  The options of one message take the lock
\* once each, so other connections may come between them.
UpdateOption(c, s, sub) ==
    /\ Unlocked
    /\ c \notin closed
    /\ s \in services \ VideoServices
    /\ Lock("sub", c, {<<s, sub>>})
    /\ follow' = IF s # Focus THEN follow
                 ELSE IF sub THEN follow \cup {c} ELSE follow \ {c}
    /\ UNCHANGED <<connections, closed, services, svc, view_camera, display,
                   thread, current, late>>

\* Connection::video_source.
VideoSource(c) ==
    IF c \in view_camera THEN Cameras ELSE VideoServices \ Cameras

\* Connection::capture_displays: `add` and `set` create missing services, then
\* exactly one of add, sub and set is applied to all the video services.
CaptureDisplays(c, mode, displays) ==
    /\ Unlocked
    /\ c \in connections
    /\ displays \subseteq VideoSource(c)
    /\ displays = {} => mode = "set"
    /\ services' = IF mode = "sub" THEN services ELSE services \cup displays
    /\ LET video   == services' \cap VideoServices
           include == IF mode = "sub" THEN {} ELSE video \cap displays
           exclude == IF mode = "add" THEN {} ELSE video \ displays
       IN  Lock("capture", c, (include \X {TRUE}) \cup (exclude \X {FALSE}))
    /\ UNCHANGED <<connections, closed, svc, session, thread, current, late>>

\* handle_switch_display: a peer without multi-display sessions leaves the old
\* display, every peer joins the new one.
SwitchDisplay(c, new, multi) ==
    /\ Unlocked
    /\ c \in connections
    /\ new \in VideoSource(c) \ {display[c]}
    /\ services' = IF new # Primary THEN services \cup {new} ELSE services
    /\ display' = [display EXCEPT ![c] = new]
    /\ LET left == IF multi THEN {} ELSE {display[c]} \cap services'
       IN  Lock("sub", c, (left \X {FALSE})
                            \cup (({new} \cap services') \X {TRUE}))
    /\ UNCHANGED <<connections, closed, svc, view_camera, follow, thread,
                   current, late>>

-----------------------------------------------------------------------------
(* The steps of the lock holder *)

\* A subscriber arriving while the snapshot callback has sent its message and
\* not yet swapped is one the message did not reach.
Joined(s, c) ==
    late' = IF /\ s \in StateServices
               /\ thread[s] = "swap"
               /\ c \notin Members(svc[s])
            THEN [late EXCEPT ![s] = @ \cup {c}] ELSE late

Visit(w) ==
    LET s == w[1]
        c == job.conn
    IN  IF w[2]
        THEN /\ svc' = [svc EXCEPT ![s] = OnSubscribe(@, c)]
             /\ Joined(s, c)
             /\ UNCHANGED current
        ELSE /\ svc' = [svc EXCEPT ![s] = OnUnsubscribe(@, c)]
             /\ current' = [current EXCEPT ![s] = @ \ {c}]
             /\ late' = [late EXCEPT ![s] = @ \ {c}]

\* One turn of the loop of add_connection or remove_connection.
VisitDirect(w) ==
    /\ Direct
    /\ w \in job.todo
    /\ Visit(w)
    /\ job' = [job EXCEPT !.todo = @ \ {w}]
    /\ UNCHANGED <<connections, closed, services, session, thread, wants>>

\* Plausible bug: a display that is not subscribed is subtracted.
AnswerSubtracts(w, subed) ==
    job' = IF job.kind = "count"
           THEN [job EXCEPT !.todo = @ \ {w}, !.at = "next", !.cur = NoWish,
                            !.count = IF subed THEN @ + 1 ELSE @ - 1]
           ELSE IF subed = w[2]
                THEN [job EXCEPT !.todo = @ \ {w}, !.at = "next", !.cur = NoWish]
                ELSE [job EXCEPT !.at = "apply", !.cur = w]

\* What subscribe() and get_subbed_displays_count do with is_subed's answer.
Answer(w, subed) ==
    job' = IF job.kind = "count"
           THEN [job EXCEPT !.todo = @ \ {w}, !.at = "next", !.cur = NoWish,
                            !.count = IF subed THEN @ + 1 ELSE @]
           ELSE IF subed = w[2]
                THEN [job EXCEPT !.todo = @ \ {w}, !.at = "next", !.cur = NoWish]
                ELSE [job EXCEPT !.at = "apply", !.cur = w]

Checking == ~Unlocked /\ ~Direct

\* is_subed, first read lock: the id is looked up in `subscribes`.  The loops
\* over the services run in any order, switch_display_to leaves before it joins.
IsSubedFirst(w) ==
    /\ Checking
    /\ job.at = "next"
    /\ w \in job.todo
    /\ job.kind = "sub" /\ w[2] => \A v \in job.todo : v[2]
    /\ IF job.conn \in svc[w[1]].subscribes
       THEN Answer(w, TRUE)
       ELSE job' = [job EXCEPT !.at = "second", !.cur = w]
    /\ UNCHANGED <<connections, closed, services, svc, session, thread, current,
                   late, wants>>

\* Second read lock, taken after the first was released: `new_subscribes`.
IsSubedSecond ==
    /\ Checking
    /\ job.at = "second"
    /\ Answer(job.cur, job.conn \in svc[job.cur[1]].new_subscribes)
    /\ UNCHANGED <<connections, closed, services, svc, session, thread, current,
                   late, wants>>

\* subscribe() calls on_subscribe or on_unsubscribe.
Apply ==
    /\ Checking
    /\ job.at = "apply"
    /\ Visit(job.cur)
    /\ job' = [job EXCEPT !.todo = @ \ {job.cur}, !.at = "next",
                         !.cur = NoWish]
    /\ UNCHANGED <<connections, closed, services, session, thread, wants>>

AllVisited == ~Unlocked /\ job.at = "next" /\ job.todo = {}

\* add_connection inserts, remove_connection removes the id; the lock is
\* released.
Finish ==
    /\ AllVisited
    /\ job.kind # "count"
    /\ job.kind = "capture" => job.conn \notin follow
    /\ connections' = IF job.kind = "add" THEN connections \cup {job.conn}
                      ELSE IF job.kind = "remove" THEN connections \ {job.conn}
                      ELSE connections
    /\ closed' = IF job.kind = "remove" THEN closed \cup {job.conn} ELSE closed
    /\ job' = Idle
    /\ UNCHANGED <<services, svc, session, thread, current, late, wants>>

\* capture_displays goes on for a peer that follows the focused window: the
\* subscribed displays are counted, ...
StartCount ==
    /\ AllVisited
    /\ job.kind = "capture"
    /\ job.conn \in follow
    /\ job' = Job("count", job.conn,
                  (services \cap VideoServices) \X {TRUE})
    /\ UNCHANGED <<connections, closed, services, svc, session, thread, current,
                   late, wants>>

\* ... and window_focus is kept only while there is at most one.
FollowWindow ==
    /\ AllVisited
    /\ job.kind = "count"
    /\ Lock("sub", job.conn, {<<Focus, ~(job.count > 1)>>})
    /\ UNCHANGED <<connections, closed, services, svc, session, thread, current,
                   late>>

-----------------------------------------------------------------------------
(* The service threads.  A service without snapshots only reads its tables, *)
(* so only the threads of the others are of interest.                       *)

\* `repeat`/`run`: the callback is entered when somebody is subscribed.
Poll(s) ==
    /\ s \in services \cap Snapshotting
    /\ thread[s] = "idle"
    /\ HasSubscribes(svc[s])
    /\ thread' = [thread EXCEPT ![s] = "work"]
    /\ UNCHANGED <<connections, closed, services, svc, session, job, current,
                   late, wants>>

\* run_cursor and its like: the state changed and is sent to `subscribes`.
Publish(s) ==
    /\ s \in StateServices
    /\ thread[s] = "work"
    /\ current' = [current EXCEPT ![s] = svc[s].subscribes]
    /\ late' = [late EXCEPT ![s] = @ \ svc[s].subscribes]
    /\ thread' = [thread EXCEPT ![s] = "check"]
    /\ UNCHANGED <<connections, closed, services, svc, session, job, wants>>

\* The state is as before: nothing is sent.
KeepState(s) ==
    /\ thread[s] = "work"
    /\ thread' = [thread EXCEPT ![s] = "check"]
    /\ UNCHANGED <<connections, closed, services, svc, session, job, current,
                   late, wants>>

\* The callback fails before the snapshot; the thread sleeps and retries.
CallbackError(s) ==
    /\ thread[s] = "work"
    /\ thread' = [thread EXCEPT ![s] = "idle"]
    /\ UNCHANGED <<connections, closed, services, svc, session, job, current,
                   late, wants>>

\* Plausible bug: the wrong table decides whether a snapshot is due.
SnapshotCheckSubscribers(s) ==
    /\ thread[s] = "check"
    /\ thread' = [thread EXCEPT ![s] = IF svc[s].subscribes # {}
                                       THEN "send" ELSE "idle"]
    /\ UNCHANGED <<connections, closed, services, svc, session, job, current,
                   late, wants>>

\* snapshot(): the callback runs only if there are newcomers.
SnapshotCheck(s) ==
    /\ thread[s] = "check"
    /\ thread' = [thread EXCEPT ![s] = IF svc[s].new_subscribes # {}
                                       THEN "send" ELSE "idle"]
    /\ UNCHANGED <<connections, closed, services, svc, session, job, current,
                   late, wants>>

\* Plausible bug: the snapshot is sent to the old subscribers.
SnapshotSendSubscribers(s) ==
    /\ thread[s] = "send"
    /\ current' = IF s \in StateServices
                  THEN [current EXCEPT ![s] = @ \cup svc[s].subscribes]
                  ELSE current
    /\ thread' = [thread EXCEPT ![s] = "swap"]
    /\ UNCHANGED <<connections, closed, services, svc, session, job, late, wants>>

\* ServiceSwap::send_shared: the state goes to whoever is new at that moment.
SnapshotSend(s) ==
    /\ thread[s] = "send"
    /\ current' = IF s \in StateServices
                  THEN [current EXCEPT ![s] = @ \cup svc[s].new_subscribes]
                  ELSE current
    /\ thread' = [thread EXCEPT ![s] = "swap"]
    /\ UNCHANGED <<connections, closed, services, svc, session, job, late, wants>>

\* Drop for ServiceSwap.
SnapshotSwap(s) ==
    /\ thread[s] = "swap"
    /\ svc' = [svc EXCEPT ![s] = SwapNewSubscribes(@)]
    /\ thread' = [thread EXCEPT ![s] = "idle"]
    /\ UNCHANGED <<connections, closed, services, session, job, current, late,
                   wants>>

-----------------------------------------------------------------------------
TaskStep ==
    \E c \in Conns :
       \/ \E noperms \in SUBSET (Services \ VideoServices) :
             AddConnection(c, noperms)
       \/ AddCameraConnection(c)
       \/ RemoveConnection(c)
       \/ \E s \in Services, sub \in BOOLEAN : UpdateOption(c, s, sub)
       \/ \E mode \in {"add", "sub", "set"},
             displays \in SUBSET VideoServices :
             CaptureDisplays(c, mode, displays)
       \/ \E new \in VideoServices, multi \in BOOLEAN :
             SwitchDisplay(c, new, multi)

LockHolderStep ==
    \/ \E w \in Wish : VisitDirect(w) \/ IsSubedFirst(w)
    \/ IsSubedSecond \/ Apply \/ Finish \/ StartCount \/ FollowWindow

ServiceStep(s) ==
    \/ Poll(s) \/ Publish(s) \/ KeepState(s) \/ CallbackError(s)
    \/ SnapshotCheck(s) \/ SnapshotSend(s) \/ SnapshotSwap(s)

Next == TaskStep \/ LockHolderStep \/ \E s \in Services : ServiceStep(s)

Spec == Init /\ [][Next]_vars

\* The runtime keeps running the lock holder, every service thread is a
\* thread of its own, and a callback does not fail for ever.
FairSpec ==
    /\ Spec
    /\ WF_vars(LockHolderStep)
    /\ \A s \in Services : /\ WF_vars(ServiceStep(s))
                           /\ SF_vars(Publish(s) \/ KeepState(s))

-----------------------------------------------------------------------------
(* Properties *)

ThreadStates == {"idle", "work", "check", "send", "swap"}

\* Every variable has the shape of the Rust field it stands for.
TypeOK ==
    /\ connections \in SUBSET Conns
    /\ closed \in SUBSET Conns
    /\ services \in SUBSET Services
    /\ svc \in [Services -> ServiceType]
    /\ view_camera \in SUBSET Conns
    /\ display \in [Conns -> VideoServices]
    /\ follow \in SUBSET Conns
    /\ job \in JobType
    /\ thread \in [Services -> ThreadStates]
    /\ current \in [Services -> SUBSET Conns]
    /\ late \in [Services -> SUBSET Conns]
    /\ wants \in SUBSET (Services \X Conns)

\* on_unsubscribe looks at new_subscribes only if the id was not in
\* subscribes, so no id may ever be in both tables of a service.
TablesDisjoint ==
    \A s \in Services : svc[s].subscribes \cap svc[s].new_subscribes = {}

\* remove_connection leaves nothing behind: the id of a finished connection is
\* in no table of any service, whatever the service threads were doing.
ClosedIsUnsubscribed ==
    \A c \in closed : c \notin connections
                      /\ \A s \in Services : c \notin Members(svc[s])

\* A subscription a peer asked for is in force once the Server lock is free:
\* the two-step is_subed may misreport, but never loses a subscribe().
WantedIsSubscribed ==
    Unlocked => \A w \in wants : w[2] \in Members(svc[w[1]])

\* Whoever a snapshot promoted holds the state the service published last,
\* unless it joined between the snapshot's send and its swap.
PromotedIsCurrent ==
    \A s \in StateServices :
       thread[s] = "idle" => svc[s].subscribes \subseteq current[s] \cup late[s]

\* The comment on switch_display_to: the displays a peer no longer wants are
\* not captured for it any more once its request has been handled.
UnneededCapturersRemoved ==
    Unlocked => \A s \in VideoServices, c \in Conns :
                   c \in Members(svc[s]) => <<s, c>> \in wants

\* Every newcomer is promoted (or leaves): it is not kept waiting for a
\* snapshot for ever, even if callbacks fail now and then.
NewcomersAreServed ==
    \A s \in Snapshotting, c \in Conns :
       c \in svc[s].new_subscribes ~> c \notin svc[s].new_subscribes

\* The members of each service are those of either table, so promotion by a
\* snapshot is invisible and a closed connection has retired.
Abstract ==
    INSTANCE Subscriptions
    WITH members <- [s \in Services |-> Members(svc[s])], retired <- closed

\* The tables, locks and snapshots implement plain sets of members: add,
\* subscribe, capture and remove each reduce to single entries and leaves, and
\* a connection that has been removed is never entered again.
ImplementsSubscriptions == Abstract!Spec
=============================================================================
