------------------------------ MODULE LanServer ------------------------------
(***************************************************************************)
(* The supervisor of the host's listeners (src/lan_server.rs).             *)
(*                                                                         *)
(* One task binds the configured listeners, watches for a reason to rebind *)
(* and stops them again.  Settings are written by other threads, one       *)
(* option at a time (src/flutter_ffi.rs, src/ipc.rs), which then call      *)
(* LanServer::restart; that call is two steps, the generation and the      *)
(* status.  Listener tasks end by themselves once told to stop.            *)
(***************************************************************************)
EXTENDS Naturals, FiniteSets

CONSTANTS
    Addrs,       \* addresses that can be configured in lan-listen-addresses
    AnyAddr,     \* the listener used when no address is configured
    WebGateway,  \* the optional web gateway's listener
    Sources,     \* remote addresses
    Private,     \* those in the default networks
    Networks,    \* values of lan-allowed-networks, as sets of sources
    Writers,     \* threads that change the settings
    MaxRestarts  \* bound on RESTART_GENERATION

ASSUME LanServerAssumption ==
    /\ AnyAddr \notin Addrs /\ WebGateway \notin Addrs /\ AnyAddr # WebGateway
    /\ IsFiniteSet(Addrs)
    /\ Networks \subseteq SUBSET Sources /\ {} \in Networks
    /\ Private \subseteq Sources
    /\ MaxRestarts \in Nat

VARIABLES
    config,      \* the options the supervisor and the listeners read
    generation,  \* RESTART_GENERATION
    active,      \* ACTIVE_LISTENERS
    status,      \* RUNTIME_STATUS.state
    writer,      \* what each settings thread is doing
    sup,         \* the supervisor's place, and the generation and signature it read
    bound,       \* the addresses bound in this round
    stop,        \* the value of the stop channel
    tasks,       \* running listener tasks
    peers        \* sources with a connection task

vars == <<config, generation, active, status, writer, sup, bound, stop, tasks,
          peers>>

-----------------------------------------------------------------------------
(* Reading the configuration *)

Config == [addrs : SUBSET Addrs, nets : Networks, web : BOOLEAN,
           stop : BOOLEAN, creds : BOOLEAN]

\* service_ready
ServiceReady == config.creds /\ ~config.stop

\* listener_signature: every option but stop-service.
ListenerSignature == [addrs |-> config.addrs, nets |-> config.nets,
                      web |-> config.web]

\* One listener per configured address, or one for all interfaces.
Listeners(addrs) == IF addrs = {} THEN {AnyAddr} ELSE addrs

\* source_allowed_with: an empty list stands for the private networks.
SourceAllowed(s) == s \in IF config.nets = {} THEN Private ELSE config.nets

-----------------------------------------------------------------------------
(* The settings threads *)

NoConfig == [addrs |-> {}, nets |-> {}, web |-> FALSE, stop |-> FALSE,
             creds |-> FALSE]

WriterSteps == {"idle", "addrs", "nets", "web", "start", "bump", "status"}

Init ==
    /\ config = NoConfig
    /\ generation = 0
    /\ active = 0
    /\ status = "starting"
    /\ writer = [w \in Writers |-> [at |-> "idle", new |-> NoConfig]]
    /\ sup = [at |-> "top", gen |-> 0, sig |-> ListenerSignature]
    /\ bound = {}
    /\ stop = FALSE
    /\ tasks = {}
    /\ peers = {}

Goto(w, at) == writer' = [writer EXCEPT ![w].at = at]
OnlyWrites == UNCHANGED <<active, sup, bound, stop, tasks, peers>>

\* main_apply_lan_settings: valid settings are written option by option; a
\* password has to be set the first time.  Invalid ones change nothing.
ApplySettings(w, new) ==
    /\ writer[w].at = "idle"
    /\ generation < MaxRestarts
    /\ config' = [config EXCEPT !.creds = TRUE]
    /\ ~new.stop /\ new.creds
    /\ writer' = [writer EXCEPT ![w] = [at |-> "addrs", new |-> new]]
    /\ UNCHANGED <<generation, status>> /\ OnlyWrites

WriteOption(w) ==
    LET new == writer[w].new
    IN  /\ \/ /\ writer[w].at = "addrs"
              /\ config' = [config EXCEPT !.addrs = new.addrs]
              /\ Goto(w, "nets")
           \/ /\ writer[w].at = "nets"
              /\ config' = [config EXCEPT !.nets = new.nets]
              /\ Goto(w, "web")
           \/ /\ writer[w].at = "web"
              /\ config' = [config EXCEPT !.web = new.web]
              /\ writer' = [writer EXCEPT ![w] = [at |-> "start", new |-> NoConfig]]
           \/ /\ writer[w].at = "start"
              /\ config' = [config EXCEPT !.stop = FALSE]
              /\ Goto(w, "bump")
        /\ UNCHANGED <<generation, status>> /\ OnlyWrites

\* main_stop_service, main_start_service, main_set_option and the IPC handler
\* of Data::Options with its CheckIfRestart: options are written at once, and
\* the server restarted if one of them changed.
SetOptions(w, new) ==
    /\ writer[w].at = "idle"
    /\ generation < MaxRestarts
    /\ new # config /\ new.creds = config.creds
    /\ config' = new
    /\ Goto(w, "bump")
    /\ UNCHANGED <<generation, status>> /\ OnlyWrites

\* LanServer::restart, first the generation ...
RestartGeneration(w) ==
    /\ writer[w].at = "bump"
    /\ generation' = generation + 1
    /\ Goto(w, "status")
    /\ UNCHANGED <<config, status>> /\ OnlyWrites

\* ... then the status.
RestartStatus(w) ==
    /\ writer[w].at = "status"
    /\ status' = "starting"
    /\ Goto(w, "idle")
    /\ UNCHANGED <<config, generation>> /\ OnlyWrites

-----------------------------------------------------------------------------
(* The supervisor, LanServer::start *)

SupSteps == {"top", "sign", "ready", "stopped", "bind", "unbound", "failed",
             "web", "active", "listening", "watch", "stop", "inactive",
             "restarting", "drain"}

At(here, there) == sup.at = here /\ sup' = [sup EXCEPT !.at = there]
OnlySupervises == UNCHANGED <<config, generation, writer, peers>>

ReadGeneration ==
    /\ sup.at = "top"
    /\ sup' = [sup EXCEPT !.at = "sign", !.gen = generation]
    /\ UNCHANGED <<active, status, bound, stop, tasks>> /\ OnlySupervises

ReadSignature ==
    /\ sup.at = "sign"
    /\ sup' = [sup EXCEPT !.at = "ready", !.sig = ListenerSignature]
    /\ UNCHANGED <<active, status, bound, stop, tasks>> /\ OnlySupervises

\* Plausible bug: the listeners are bound whether or not they may be.
CheckReadyIgnored ==
    /\ At("ready", "bind")
    /\ UNCHANGED <<active, status, bound, stop, tasks>> /\ OnlySupervises

CheckReady ==
    /\ \/ ServiceReady /\ At("ready", "bind") /\ UNCHANGED active
       \/ ~ServiceReady /\ At("ready", "stopped") /\ active' = 0
    /\ UNCHANGED <<status, bound, stop, tasks>> /\ OnlySupervises

\* The service may not run: try again in a second.
SetStopped ==
    /\ At("stopped", "top")
    /\ status' = "stopped"
    /\ UNCHANGED <<active, bound, stop, tasks>> /\ OnlySupervises

\* Plausible bug: the wildcard is recorded as a configured address.
BindListenersAny ==
    /\ At("bind", "web")
    /\ bound' = Listeners(config.addrs)
    /\ UNCHANGED <<active, status, stop, tasks>> /\ OnlySupervises

\* bind_listeners reads the addresses and binds them all, or fails.
BindListeners ==
    /\ At("bind", "web")
    /\ bound' = config.addrs
    /\ UNCHANGED <<active, status, stop, tasks>> /\ OnlySupervises

BindFails ==
    /\ At("bind", "failed")
    /\ active' = 0
    /\ UNCHANGED <<status, bound, stop, tasks>> /\ OnlySupervises

SetFailed ==
    /\ At("failed", "top")
    /\ status' = "failed"
    /\ UNCHANGED <<active, bound, stop, tasks>> /\ OnlySupervises

\* The optional web gateway is bound next; its failure is only recorded.  Then
\* every listener gets a task.
SpawnListeners(web) ==
    /\ web => config.web
    /\ At("web", "active")
    /\ tasks' = tasks \cup Listeners(bound) \cup (IF web THEN {WebGateway} ELSE {})
    /\ UNCHANGED <<active, status, bound, stop>> /\ OnlySupervises

SetActive ==
    /\ At("active", "listening")
    /\ active' = Cardinality(Listeners(bound))
    /\ UNCHANGED <<status, bound, stop, tasks>> /\ OnlySupervises

\* Plausible bug: the generation is read once the listeners are up.
SetListeningRereads ==
    /\ sup.at = "listening"
    /\ sup' = [sup EXCEPT !.at = "watch", !.gen = generation,
                          !.sig = ListenerSignature]
    /\ status' = "listening"
    /\ UNCHANGED <<active, bound, stop, tasks>> /\ OnlySupervises

SetListening ==
    /\ At("listening", "watch")
    /\ status' = "listening"
    /\ UNCHANGED <<active, bound, stop, tasks>> /\ OnlySupervises

MustRebind ==
    \/ sup.gen # generation
    \/ sup.sig # ListenerSignature
    \/ ~ServiceReady

\* Plausible bug: only stop-service ends the round.
WatchReadyOnly ==
    /\ ~ServiceReady
    /\ At("watch", "stop")
    /\ UNCHANGED <<active, status, bound, stop, tasks>> /\ OnlySupervises

\* The inner loop, once a second.
Watch ==
    /\ MustRebind
    /\ At("watch", "stop")
    /\ UNCHANGED <<active, status, bound, stop, tasks>> /\ OnlySupervises

SendStop ==
    /\ At("stop", "inactive")
    /\ stop' = TRUE
    /\ UNCHANGED <<active, status, bound, tasks>> /\ OnlySupervises

SetInactive ==
    /\ At("inactive", "restarting")
    /\ active' = 0
    /\ UNCHANGED <<status, bound, stop, tasks>> /\ OnlySupervises

SetRestarting ==
    /\ At("restarting", "drain")
    /\ status' = IF ServiceReady THEN "starting" ELSE "stopped"
    /\ UNCHANGED <<active, bound, stop, tasks>> /\ OnlySupervises

\* Plausible bug: the old listeners are not awaited.
DrainWithoutWaiting ==
    /\ At("drain", "top")
    /\ stop' = FALSE
    /\ bound' = {}
    /\ UNCHANGED <<active, status, tasks>> /\ OnlySupervises

\* All tasks are awaited; the next round has a stop channel of its own.
Drain ==
    /\ tasks = {}
    /\ At("drain", "top")
    /\ stop' = FALSE
    /\ bound' = {}
    /\ UNCHANGED <<active, status, tasks>> /\ OnlySupervises

-----------------------------------------------------------------------------
(* The listener tasks *)

OnlyListens == UNCHANGED <<config, generation, active, status, writer, sup,
                           bound, stop>>

ListenerStops(t) ==
    /\ t \in tasks /\ stop
    /\ tasks' = tasks \ {t}
    /\ UNCHANGED peers /\ OnlyListens

\* A connection from an allowed source is handed to create_lan_connection in a
\* task of its own; any other is dropped.  A task may accept after `stop`.
Accept(t, s) ==
    /\ t \in tasks
    /\ SourceAllowed(s)
    /\ peers' = peers \cup {s}
    /\ UNCHANGED tasks /\ OnlyListens

\* A connection ends by itself; stopping the listeners does not end it.
PeerLeaves(s) ==
    /\ s \in peers
    /\ peers' = peers \ {s}
    /\ UNCHANGED tasks /\ OnlyListens

-----------------------------------------------------------------------------
WriterStep(w) ==
    \/ WriteOption(w) \/ RestartGeneration(w) \/ RestartStatus(w)

SupStep ==
    \/ ReadGeneration \/ ReadSignature \/ CheckReady \/ SetStopped
    \/ BindListeners \/ BindFails \/ SetFailed
    \/ (\E web \in BOOLEAN : SpawnListeners(web))
    \/ SetActive \/ SetListening \/ Watch \/ SendStop \/ SetInactive
    \/ SetRestarting \/ Drain

Next ==
    \/ \E w \in Writers :
          \/ \E new \in Config : ApplySettings(w, new) \/ SetOptions(w, new)
          \/ WriterStep(w)
    \/ SupStep
    \/ \E t \in tasks : ListenerStops(t) \/ \E s \in Sources : Accept(t, s)
    \/ \E s \in Sources : PeerLeaves(s)

Spec == Init /\ [][Next]_vars

\* The supervisor and every listener task keep being polled, a settings thread
\* finishes what it began, and the addresses can be bound sooner or later.
FairSpec ==
    /\ Spec
    /\ WF_vars(SupStep)
    /\ SF_vars(BindListeners)
    /\ \A w \in Writers : WF_vars(WriterStep(w))
    /\ \A t \in Addrs \cup {AnyAddr, WebGateway} : WF_vars(ListenerStops(t))

-----------------------------------------------------------------------------
(* Properties *)

\* Every variable has the shape of the Rust static or field it stands for.
TypeOK ==
    /\ config \in Config
    /\ generation \in Nat
    /\ active \in Nat
    /\ status \in {"stopped", "starting", "listening", "failed"}
    /\ writer \in [Writers -> [at : WriterSteps, new : Config]]
    /\ sup \in [at : SupSteps, gen : Nat,
                sig : [addrs : SUBSET Addrs, nets : Networks, web : BOOLEAN]]
    /\ bound \in SUBSET Addrs
    /\ stop \in BOOLEAN
    /\ tasks \in SUBSET (Addrs \cup {AnyAddr, WebGateway})
    /\ peers \in SUBSET Sources

\* LanServer::start awaits the handles: no listener of an earlier round is
\* still running when the addresses are bound again.
RoundsDoNotOverlap ==
    sup.at \in {"top", "sign", "ready", "stopped", "bind", "failed", "web"} =>
       tasks = {}

\* A listener never serves addresses the user has since replaced without the
\* supervisor noticing: a restart requested while the sockets were being bound
\* is not lost, because the generation was read before.
NoLostRestart ==
    /\ sup.at = "watch"
    /\ ~MustRebind
    /\ \A w \in Writers : writer[w].at \in {"idle", "status"}
    => bound = config.addrs /\ (WebGateway \in tasks => config.web)

\* Once the service is stopped for good, so are its listeners.
StopServiceStops == <>[]~ServiceReady => <>[](tasks = {} /\ active = 0)

\* Settings that stay as they are get served: the configured listeners run.
SettingsAreServed ==
    <>[](ServiceReady /\ \A w \in Writers : writer[w].at = "idle")
    => <>[](bound = config.addrs /\ Listeners(bound) \subseteq tasks)

\* The status the UI calls "running" (lan_server_running_for_ui) settles on
\* "listening" once the listeners stay up.
StatusSettles == <>[](tasks # {}) => <>[](status = "listening")
=============================================================================
