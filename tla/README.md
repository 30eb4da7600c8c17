# A TLA+ model of the SubnetDesk host

SubnetDesk is a LAN-only remote desktop program: a host listens on the local
network, a client connects by address, both sides authenticate, and the host
then streams displays, cursor, audio, clipboard, files and terminals while it
injects the client's input. This directory models the concurrent core of the
host in TLA+, checks it with TLC on small instances, and proves its central
invariants with TLAPS for every instance. Paths below are relative to `src/src/`.

Contents: [the system](#the-system) · [inventory](#inventory) ·
[plan](#plan) · [modules](#modules-and-the-code) · [runs](#what-tlc-checks) ·
[bounds](#bounds) · [fairness](#fairness) · [proofs](#what-is-proved) ·
[findings](#where-code-and-comments-disagree) · [limits](#what-is-not-modelled).

## The system

The host is one process with a tokio runtime and some dozens of threads.

1. `LanServer` (lan_server.rs) is a supervisor: it reads the settings, binds one
   listener per configured address (and, optionally, the web gateway), and
   starts over when the settings, the interfaces or a restart counter change.
2. An accepted socket becomes a `Connection` (server/connection.rs): one task
   with a main loop, whose handlers run to completion unless they await.
3. A connection logs in through `handle_lan_login_request`: a back-off table
   keyed by source, a gate of few permits, and a verification on a blocking
   thread. An authorized session is bound to the revision of the credentials.
4. The `Server` (server.rs), behind one RwLock, enters the connection into the
   `Service`s it subscribes to (server/service.rs). Each service has a thread of
   its own and a lock of its own; newcomers wait in `new_subscribes` until the
   thread takes a snapshot, and are then swapped into `subscribes`.
5. The video service (server/video_service.rs) is the demanding one: its thread
   captures, encodes, sends, and waits until the connections it sent the frame
   to have fetched or acknowledged it, or three seconds have passed.
6. Privacy mode (privacy_mode.rs) blanks the host's screen on a connection's
   behalf: one global mutex, an owner, implementations that may take longer to
   turn on than the connection is willing to wait.

What they share is what the modules are about: 2 and 3 meet in the failure table
and the gate, 2 and 4 in the subscriber tables, 4 and 5 in the swap, 2 and 5 in
the acknowledgement channel, 2 and 6 in the privacy mutex, the settings threads
and 1 in the restart counter and the status.

## Inventory

| Part | State | Operations | What makes it hard | What must hold | Status |
|---|---|---|---|---|---|
| Subscriber tables (server/service.rs) | `subscribes`, `new_subscribes`, `need_snapshot` | subscribe, unsubscribe, is_subed, snapshot, swap | two maps, two read locks in `is_subed`, a swap in `Drop` | tables disjoint; promoted means up to date | `ServiceInner`, `Server` |
| Server (server.rs) | `connections`, `services` | add/remove connection, subscribe, capture_displays, switch display | long walks under one lock while service threads run | nothing left behind; no subscribe lost; newcomers are served | `Server`, `Subscriptions` |
| Video service (server/video_service.rs) | encoder, refresh option, frame channel, `DISPLAY_CONN_IDS` | setup, capture, encode, send, wait; refresh, acknowledge, leave | peers that join, stall and die in mid-frame; a camera that shares channel and entry | a newcomer and an old viewer never share a running encoder; newcomers get video; waits in vain only as named; no refresh lost | `VideoService` |
| LAN supervisor (lan_server.rs) | `RESTART_GENERATION`, status, listeners | a round of bind, watch, stop, drain; restart | settings change at any point of a round | no restart lost; rounds do not overlap; settings are served | `LanServer` |
| LAN login (server/login_failure_check.rs, server/connection.rs) | failures per key, permits, credential revision | check, verify, record, clear, bind, second timer | clock read before the lock; parallel attempts; revision read later | waits told are enough; back-offs end earlier only as named; permits return; old sessions end | `LanAuth` |
| Privacy mode (privacy_mode.rs and implementations) | implementation, owner, mutex | turn on/off, switch, timeouts, teardown | a worker that outlasts its request and its connection | ends with its owner; requests are answered | `PrivacyMode` |
| Authorized connections (server/connection.rs) | `AUTHED_CONNS`, `SESSIONS`, wake lock, wallpaper | add, drop, counts, sessions | counts read under two locks, sent after both | the wake lock follows the connections | planned |
| Terminal service (server/terminal_service.rs) | persistent services, sessions, channels, buffer | open, data, close, reconnect, clean-up | reader/writer threads, bounded channels, revival during clean-up | a revived service survives; stop ends; what is dropped is known | planned |
| Web gateway (web_gateway.rs) | limiter, budget, bridge, status file | acquire, release, bridge, heartbeat | two counts, shutdown with a time limit | counts agree; status is true | binding in `LanServer`; rest planned |
| Software update (software_update/mod.rs) | phase, `busy`, artifact, accepted sequence | check, download, install | operations that overtake one another | one operation at a time; sequence never falls | planned |
| LAN discovery (lan.rs, lan_mdns.rs) | running flag, peers, published list | scan, merge, remove, publish | a list loaded at the start and stored at the end | no edit is undone | planned |
| LAN handshake (lan_protocol.rs) | keys, transcript | hello, answer, key, encryption on | order of messages | both sides agree on the session | planned |
| OS login of terminals (server/login_failure_check.rs) | failures per scope, gate | check, record, clear | as LAN login, with scopes | as LAN login | planned |
| Video QoS (server/video_qos.rs) | users, delays, fps, ratio | join, leave, delay, adjust | integer arithmetic at the edges | fps and ratio within bounds | planned |
| File transfer, connection manager, IPC | jobs, clients | read, write, digest, resume, cancel | three processes | a job ends once | planned |
| Client (client.rs, client/io_loop.rs) | queues, decoder threads | receive, decode, refresh, reconnect | queue limits | video resumes after loss | planned |
| Port forward, clipboard, portable service, DRM helper, input, display service | see PROJECT.json | | | | planned in part |
| Platform, UI, translations, plugins, libraries | | | operating-system calls, presentation, generated tables | | not modelled |

`PROJECT.json` lists all components with their files, and 39 hazards with the
line where each bites and the property that would catch it, or a note where none
does.

## Plan

Done, in this order: the tables and the server (with the abstract specification
they implement), the supervisor, the login, the video thread, the privacy mode,
and an inductive invariant for each of the five.

Next, in order of what a model would tell:

1. `SoftwareUpdate`: check, download and install over `busy` and the phase. To
   check: at most one operation runs; the phase `downloaded` has a file. To
   prove: the same.
2. `Terminals`: services, sessions, reader and writer, reconnect and clean-up.
   To check: a service that was revived is not removed; every stop ends; the
   replayed buffer is a suffix of the output.
3. `AuthedConns`: registry, sessions and wake lock, composed with the teardown
   already in `PrivacyMode`. To check: when nobody comes or goes, the wake lock
   agrees with the number of connections.
4. `WebGateway`: the limiter (to prove: permits plus sessions are constant), the
   bridge's shutdown, the status file; composed with `LanServer`'s rounds.
5. `Discovery`: scan against edits of the peer list.
6. `VideoQoS`: the arithmetic as operators against their documented bounds.
7. `FileTransfer` and `ClientLoop`: the two ends of a job, the decoder queues.
8. Composition and proof: a connection is subscribed only while it is
   authorized, from `LanAuth`, `AuthedConns` and `Server` together; the video
   service's table as an instance of the tables of `Server`.

## Modules and the code

| Module | Models | One action per |
|---|---|---|
| `ServiceInner` | methods of `ServiceInner`/`ServiceTmpl` as operators on a record of two sets | (operators) |
| `Server` (MC: `MCServer`) | server.rs, service.rs loops, the display handlers of connection.rs | critical section of the Server lock or of a service's lock |
| `Subscriptions` | what `Server` promises: plain sets of members | enter, leave, retire |
| `VideoService` (MC: `MCVideoService`) | `run`, `handle_one_frame`, the frame fetching notifiers, refresh | step of the capture thread between shared accesses; handler of a connection |
| `LanServer` (MC: `MCLanServer`) | `LanServer::start/restart`, the settings threads of flutter_ffi.rs and ipc.rs | access to the generation, signature, status, a listener |
| `LanAuth` (MC: `MCLanAuth`) | login_failure_check.rs, `handle_lan_login_request`, the second timer | critical section of the table, the gate, the credentials |
| `PrivacyMode` (MC: `MCPrivacyMode`) | privacy_mode.rs, its callers in connection.rs, ipc.rs and win_input.rs, the implementations' outcome | critical section of `PRIVACY_MODE`, message of the worker |
| `*Proofs` | the theorems of the module of that name | |

Common conventions:

* A Rust `HashMap` from connection ids whose values are determined by the id is
  the set of its keys. A `Mutex`/`RwLock` held for one critical section is one
  action; held across several accesses of other locks (the Server's write lock
  during its walk over the services, the privacy mutex during a slow turn-on) it
  is a variable (`job`, `lock`) and the walk is several actions.
* `is_subed` reads its two tables under two locks, and is two steps.
* `libs/hbb_common` is a submodule outside this tree. What the host uses of it
  (the configuration, the semaphore's and channels' behaviour) is modelled from
  its use and marked external in `PROJECT.json`.
* History variables, which no guard reads, state what the code does not record:
  `wants`, `current` and `late` in `Server`; `synced`, `behind`, `asked` and
  `excused` in `VideoService`; `told` in `LanAuth`; `ended`, `outlived` and `kept` in
  `PrivacyMode`.
* Definitions named "Plausible bug" are not part of the model: they are the
  variants against which each property is known to be sensitive.

How the state corresponds, per module:

* `Server`: `connections`, `services` and `svc` are the fields of `Server` and
  the tables; `view_camera`, `display` and `follow` are the connection's own
  fields that its handlers read under the lock; `job` is who holds the Server
  lock, for which operation, and what is left of its walk; `thread` is where
  each service thread is between `snapshot`'s check, send and swap.
* `VideoService`: `svc` is the monitor's table, `pc` the place of the thread,
  `send` the set `send_conn_ids`, `fetched` what `try_wait_next` has collected,
  `acks` what is in the channel of the index, `display_conns` the entry of the
  index in `DISPLAY_CONN_IDS`, `refresh` the option, `key` whether the encoder has
  yet to send its first frame, `changed` the settings that make the thread leave
  its loop. Channel and entry have no other key than the index, and a camera may
  have the same one: `camera` is its thread, of which the model keeps what it does
  to the two. A look-up in `DISPLAY_CONN_IDS` and the notification that follows
  take two locks and are two steps, for an acknowledgement and for a teardown.
* `LanServer`: `config` is the stored options, `generation` the
  `RESTART_GENERATION`, `active` the number of listeners, `status` the runtime
  status, `sup` the supervisor with the generation and signature it has read,
  `tasks` the listener tasks, `stop` the watch channel.
* `LanAuth`: `failures` is the table with count, last failure and retry time,
  `permits` the gate, `stamp` the clock as each attempt read it, `revision` and
  `revision_at_auth` those of the credentials. Times are in ticks; the rounding
  of the answer to whole seconds is modelled, with `Second` ticks to a second.
* `PrivacyMode`: `impl` and `owner` are the current implementation and its
  `conn_id`; `worker` is the thread of `turn_on_async`; `conn` says where each
  connection's handler or teardown is. Leaving `AUTHED_CONNS` and counting who is
  left are two steps. The error "Unsupported privacy mode" is left out, because it
  cannot occur: `turn_on_privacy` is called only where
  `DEFAULT_PRIVACY_MODE_IMPL` is not empty, and then every key that
  `get_supported_impl` returns has a creator.

## What TLC checks

| Run | Shows | States |
|---|---|---|
| `server` | With two connections that join, leave, switch displays and change subscriptions while the display's and the cursor's threads take snapshots: no id is in both tables (`TablesDisjoint`), nothing survives `remove_connection` (`ClosedIsUnsubscribed`), no subscribe is lost (`WantedIsSubscribed`), and whoever was promoted has the state last published, unless it joined between send and swap (`PromotedIsCurrent`) | 1.7 M |
| `server_liveness` | Two monitors and a camera: the tables implement `Subscriptions`; every newcomer is promoted or leaves | 55 k |
| `server_capturers` | violation, see findings | |
| `lan_server` | Two settings threads against the supervisor: `RoundsDoNotOverlap`, `NoLostRestart`, and in the end `SettingsAreServed` or, if the service stays stopped, `StopServiceStops` | 277 k |
| `lan_server_status` | violation, see findings | |
| `lan_auth` | Two sources that share a prefix: the wait a peer is told is enough, no permit is lost, and the end of a back-off moves earlier only by a success from the very address or by a failure recorded with an older clock reading, and then by no more than the readings differ (`BackoffStands`) | 0.9 M |
| `lan_auth_liveness` | Sessions bound to replaced credentials end; every login is answered | |
| `video_service` | Two viewers around the thread, and a camera of the same index: newcomers never share a running encoder with those who watch (a newcomer who is alone may be let into one, and has to ask for a refresh), no refresh is lost, and nobody is waited for in vain but a connection that looked before it was entered, or after the camera interfered (`WaitsAreAnswered`) | 2.1 M |
| `video_newcomers` | A viewer and a web client: whoever joins gets a frame, although the other one stalls or dies; `WaitsAreAnswered` for explicit acknowledgements | 162 k |
| `video_acks` | violation, see findings | |
| `privacy_mode` | Two connections, a quick and a slow implementation, the host's user: one connection ends another's mode only on a failure or a reset, the mode ends with its connection (with the two exceptions it names), every request and teardown ends | 489 k |
| `privacy_mode_owner` | violation, see findings | |

Run one with `tlc -config MCServer.cfg MCServer`. Each property of a passing run
has a mutant in `PROJECT.json`: a variant of one mapped definition, as a slip in
that code would make it, under which TLC reports that property violated.

## Bounds

Every bound is a constant of its module and a conjunct of a guard.

* `server`: two connections are enough for every race on a table, because
  connections never look at each other except through the Server's lock; the
  three services cover the three kinds (video with snapshots, state with
  snapshots, no snapshot). A second monitor and the camera come with one
  connection, in `server_liveness`. `Symmetry` permutes the connections and is
  used for safety only.
* `lan_server`: one configurable address besides the wildcard, two writers with
  one restart each (`MaxRestarts`): one restart that falls into every step of a
  round started by the other.
* `lan_auth`: delays of 0, 1 and 2 seconds of two ticks, so that rounding up
  makes a difference; the clock (`MaxTime`) goes beyond the largest back-off and
  reaches the idle reset; one permit, so that two attempts compete for it.
  Connections of one source are interchangeable (`MCSymmetry`).
* `video_service`: `MaxJoins` 2 lets one viewer join another, be replaced by
  another, or leave and come back; `MaxLag` 1 frame queued or owed per connection,
  2 where the late acknowledgement is looked at; `MaxRequests` 1 refresh or change
  of the settings at any time; one viewer of the camera (`CameraConns`), which may
  do as many rounds as it likes. The two viewers are of one kind and
  interchangeable; the web client, whose look-ups multiply the states, is in
  `video_newcomers`, without the camera. That camera and web client together keep
  `WaitsAreAnswered` is shown by the proof.
* `privacy_mode`: `MaxRequests` 2, one to have the mode and one to collide.

Deadlock is checked in the login and supervisor runs, which always have a step.
In the others the system may really stop: all connections have come and gone.

## Fairness

* `Server`: weak fairness of the lock holder (a task the runtime polls) and of
  each service thread; strong fairness of a callback's success, because
  `ServiceTmpl::run` calls a failing callback again after a pause and failures
  (a display being reconfigured) pass. Nothing is assumed of the peers.
* `LanServer`: weak fairness of the supervisor, the listeners and a settings
  thread that has begun; strong fairness of binding, since a failed round is
  tried again and an address in use is released some time.
* `LanAuth`: weak fairness of each login's next step; verification returns
  because it is a computation on a blocking thread. A session's second timer is
  such a step. No fairness of the clock.
* `VideoService`: weak fairness of the thread and of the connection tasks;
  strong fairness of set-up, capture and encode succeeding: `WouldBlock` and
  failures are tried again. Peers need never acknowledge. The end of the three
  seconds is weakly fair by itself: the loop looks at the clock between two
  waits, whatever ids the camera's viewers keep putting into the channel.
* `PrivacyMode`: weak fairness of tasks and workers: the platform's calls
  return. They may last longer than any timeout.

## What is proved

All theorems hold for every finite or infinite set of connections, services and
addresses and for every value of the bounds, from the named assumption of the
module (`ServicesAssumption`, `LanServerAssumption`, `LanAuthAssumption`,
`VideoAssumption`, `PrivacyAssumption`; login, video and addresses assume finite
sets, because they count). TLC evaluates those assumptions in every run.
Each module's proof follows one scheme: an inductive invariant, one lemma per
group of actions, a last step by temporal logic. Each invariant was model-checked
before it was proved.

* `ServerProofs`. `TypeCorrect`; `TablesStayDisjoint`;
  `RemoveConnectionIsComplete` (`ClosedIsUnsubscribed`); `NoSubscribeIsLost`
  (`WantedIsSubscribed`); `SnapshotIsComplete` (`PromotedIsCurrent`);
  `Refinement` (`Spec` implements `Subscriptions`). The properties speak of the
  moments when the lock is free; the invariant says what holds in the middle of a
  walk: `RemovalProgress`, that a connection being removed has left every service
  no longer on the list; `WantsProgress`, the same for what is to be subscribed;
  `SnapshotProgress`, what the thread has delivered between send and swap;
  `JobOK` and `ServicesOK`, that the lock's holder and the list make sense.
* `LanServerProofs`. `TypeCorrect`; `RoundsAreSequential`
  (`RoundsDoNotOverlap`); `RestartsAreNoticed` (`NoLostRestart`). The invariant
  adds `BoundIsConfigured`: from binding on, what is bound is what is configured,
  unless the generation has moved past the one read, or a writer is about to
  move it. This is where the order "read the generation, then the settings" is
  needed.
* `LanAuthProofs`. `TypeCorrect`; `GateIsConserved` (`PermitsAreReturned`);
  `WaitingAsToldSuffices` (`RetryAfterIsEnough`); `BackoffsStand` (the action
  property `BackoffStands`, about the end of a back-off; `retry_until_ms` is
  overwritten without a maximum, so a failure whose clock reading is older than
  that of the last one can move it, and the theorem bounds by how much). The invariant adds that a back-off's length is the
  delay of its failure count (`LengthIsDelay`), that no stamp is in the future
  (`StampsArePast`), and that what a peer was told covers every key of its
  source (`ToldCoversKeys`). Needed of the constants: the idle reset is no
  shorter than the longest back-off.
* `VideoServiceProofs`. `TypeCorrect`; `EncoderIsShared`
  (`NewcomersShareEncoder`); `NobodyIsWaitedForInVain` (`WaitsAreAnswered`);
  `NoRefreshIsLost` (`RefreshIsNotLost`). The invariant follows the round: who
  may be behind at which place (`SharingOK`), that who has gone is in no table
  (`MembersOK`, so that a frame is not sent to somebody who can no longer answer),
  that from the sending of a frame on whoever has settled it has answered, and
  while it is waited for the others are found in `DISPLAY_CONN_IDS`
  (`AnswersOK`), what a pending refresh rests on (`RefreshOK`).
* `PrivacyModeProofs`. `TypeCorrect`; `OthersEndOnlyOnFailure`
  (`OthersEndItOnFailure`); `ModeEndsWithConnection` (`EndsWithConnection`). The
  invariant adds that the mutex is held by a thread that is turning on
  (`LockIsHeld`), that a connection past its teardown holds the mode only by one
  of the named exceptions (`NoHolderLeft`), and that a worker of a closing
  connection is accounted for (`ClosingIsQuiet`).

Only model-checked: everything under fairness (`NewcomersAreServed`,
`StopServiceStops`, `SettingsAreServed`,
`CredentialChangeEndsSessions`, `LoginsAreAnswered`, `NewcomersGetVideo`,
`RequestsEnd`), because liveness is outside of what the prover does here.

## Where code and comments disagree

Four runs expect a violation. Each states what a comment, a message or a test
says, and finds a behaviour of the code that differs.

* `lan_server_status`: `restart` advances the generation and then sets the status
  to `starting`; a supervisor that completes its round in between has already
  set `listening`, and the status stays `starting` while the listeners run.
* `server_capturers`: an unsubscribe is dropped when the swap falls between the
  two reads of `is_subed`, and a display stays captured for a peer that has moved
  on. (A *subscribe* is never lost: `WantedIsSubscribed`.)
* `video_acks`: "break if all connections have received current frame": an
  acknowledgement has no frame number, so one that comes after the three seconds
  ends the wait for the next frame.
* `privacy_mode_owner`: "Failed to turn off privacy mode that belongs to someone
  else": a request refused because another connection has the mode is answered
  by turning that mode off.

The full text, with lines, is in `PROJECT.json`.

## What is not modelled

* Cryptography, codecs, capture and input injection: computation or platform
  calls, represented by their outcomes (success, failure, would block).
* The permission checks and the other message handlers of `Connection` (files,
  chat, voice, elevation, recording): planned as far as they change shared state.
* In the modelled parts: what the camera of the same index does beyond the common
  channel and entry (its own viewers' waits suffer in the same way); screenshots, recording, the GPU encoder fall-back and
  the quality control of the video thread (they change neither who is sent a
  frame nor who is waited for); the wall clock being set back (the login's clock
  only advances); an interface that disappears and comes back between two looks
  of the supervisor; the termination of the web gateway by an error of its own.
* The client, the web client and the user interface appear only as peers that
  do anything the protocol allows at any time.
