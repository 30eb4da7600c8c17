----------------------------- MODULE PrivacyMode -----------------------------
(***************************************************************************)
(* Privacy mode of the host (src/privacy_mode.rs and the handlers of       *)
(* src/server/connection.rs): one connection at a time may blank the       *)
(* screens of the host.                                                    *)
(*                                                                         *)
(* The mode is one object behind one mutex, PRIVACY_MODE: the              *)
(* implementation in use and the connection that turned it on.  Turning    *)
(* it on holds the mutex for seconds; with an asynchronous implementation  *)
(* a thread does it while the connection waits for 7.5 seconds and then    *)
(* reports a failure, whatever becomes of the thread.  What the platform   *)
(* does (windows, virtual displays) succeeds or fails.                     *)
(***************************************************************************)
EXTENDS Naturals, FiniteSets

CONSTANTS
    Conns,        \* connections
    None,         \* INVALID_PRIVACY_MODE_CONN_ID
    Impls,        \* the supported implementations: get_supported_impl returns
                  \* no other where the mode is supported at all, and each has
                  \* an entry in PRIVACY_MODE_CREATOR
    AsyncImpls,   \* those with is_async_privacy_mode
    TestedImpls,  \* those check_privacy_mode_err tests (the magnifier)
    MaxRequests   \* bound on the requests to turn it on

ASSUME PrivacyAssumption ==
    /\ None \notin Conns
    /\ Impls # {} /\ AsyncImpls \subseteq Impls /\ TestedImpls \subseteq Impls
    /\ MaxRequests \in Nat

VARIABLES
    impl, owner,  \* the object: its implementation and its conn_id
    lock,         \* the connection whose turn_on_privacy_sync holds the mutex
    conn,         \* where each connection's task is
    req,          \* the implementation each connection asked for last
    worker,       \* where its turn_on_privacy_sync is, or its result
    ended,        \* ghost: whose mode was ended last, by whom, in which step
    outlived,     \* ghost: whose turn_on_privacy_sync outlived its teardown
    kept,         \* ghost: whose mode the platform has failed to turn off
    requests      \* how many requests there were

mode == <<impl, owner>>
tasks == <<conn, req, worker>>
ghosts == <<ended, outlived, kept>>
vars == <<mode, lock, tasks, ghosts, requests>>

ConnSteps == {"out", "idle", "ask", "sync", "wait", "check", "undo", "failed",
              "force", "closing", "close_off", "drop", "count", "reset", "gone"}
Results == {"ok", "plugin", "err"}
WorkerSteps == {"none", "start", "hold"} \cup Results

Init ==
    /\ impl \in Impls /\ owner = None
    /\ lock = None
    /\ conn = [c \in Conns |-> "out"]
    /\ req = [c \in Conns |-> impl]
    /\ worker = [c \in Conns |-> "none"]
    /\ ended = [of |-> None, by |-> None, in |-> "host"]
    /\ outlived = {} /\ kept = {}
    /\ requests = 0

Goto(c, step) == conn' = [conn EXCEPT ![c] = step]

\* AUTHED_CONNS.
Authed == {c \in Conns : conn[c] \notin {"out", "count", "reset", "gone"}}

-----------------------------------------------------------------------------
(* The object *)

\* Plausible bug: the owner is not looked at.
CheckOffAnyone(id) == id \in Conns \cup {None}

\* `check_off_conn_id`: who passes no id may turn off anybody's.
CheckOff(id) == owner = None \/ id = None \/ owner = id

\* The mode, if it is on, is ended by connection c, or by the host if c is None.
EndedBy(c) ==
    IF owner = None THEN ended
    ELSE [of |-> owner, by |-> c, in |-> IF c = None THEN "host" ELSE conn[c]]

\* `turn_off_privacy(id)`, called by connection c; the platform may fail.
TurnOff(id, c) ==
    /\ lock = None
    /\ \/ /\ CheckOff(id)
          /\ owner' = None
          /\ ended' = EndedBy(c)
          /\ UNCHANGED kept
       \/ /\ CheckOff(id) /\ owner # None
          /\ kept' = kept \cup {owner}
          /\ UNCHANGED <<owner, ended>>
       \/ /\ ~CheckOff(id)
          /\ UNCHANGED <<owner, ended, kept>>
    /\ UNCHANGED <<impl, lock>>

\* `turn_on_privacy_sync` takes the mutex.  It is done at once if the mode is
\* on already or occupied; else the implementation asked for replaces another,
\* which ends the mode the connection may have had with that one.  The error
\* "Unsupported privacy mode" does not occur: the implementation has a creator.
AcquireOn(c) ==
    /\ worker[c] = "start" /\ lock = None
    /\ IF owner = c /\ impl = req[c]
       THEN worker' = [worker EXCEPT ![c] = "ok"] /\ UNCHANGED <<mode, lock, ended>>
       ELSE IF owner \notin {None, c}
       THEN worker' = [worker EXCEPT ![c] = "err"] /\ UNCHANGED <<mode, lock, ended>>
       ELSE /\ worker' = [worker EXCEPT ![c] = "hold"]
            /\ lock' = c
            /\ impl' = req[c] /\ owner' = None
            /\ ended' = EndedBy(c)
    /\ UNCHANGED <<conn, req, outlived, kept, requests>>

\* Plausible bug: the mutex stays locked where the platform fails.
FinishOnKeepsLock(c) ==
    /\ worker[c] = "hold"
    /\ \E r \in Results :
        /\ worker' = [worker EXCEPT ![c] = r]
        /\ owner' = IF r = "ok" THEN c ELSE owner
        /\ lock' = IF r = "err" THEN c ELSE None
    /\ UNCHANGED <<impl, conn, req, ghosts, requests>>

\* The platform has turned the mode on, lacks a plugin, or has failed.
FinishOn(c) ==
    /\ worker[c] = "hold"
    /\ lock' = None
    /\ \E r \in Results :
        /\ worker' = [worker EXCEPT ![c] = r]
        /\ owner' = IF r = "ok" THEN c ELSE owner
    /\ UNCHANGED <<impl, conn, req, ghosts, requests>>

\* Nobody waits for the result any more.
DropResult(c) ==
    /\ worker[c] \in Results /\ conn[c] \notin {"sync", "wait"}
    /\ worker' = [worker EXCEPT ![c] = "none"]
    /\ UNCHANGED <<mode, lock, conn, req, ghosts, requests>>

-----------------------------------------------------------------------------
(* The connections *)

\* The connection is authorized and enters AUTHED_CONNS.
Open(c) ==
    /\ conn[c] = "out"
    /\ Goto(c, "idle")
    /\ UNCHANGED <<mode, lock, req, worker, ghosts, requests>>

\* Plausible bug: an implementation that is not supported is passed on.
TogglePrivacyModeAny(c, k) ==
    /\ conn[c] = "idle" /\ worker[c] = "none"
    /\ requests < MaxRequests /\ requests' = requests + 1
    /\ Goto(c, "ask")
    /\ req' = [req EXCEPT ![c] = None]
    /\ UNCHANGED <<mode, lock, worker, ghosts>>

\* The peer asks for the mode; `get_supported_impl` maps what it asked for to
\* one of the supported ones.  A connection whose last thread is still at work
\* does not ask again: at most one thread for each is a bound of the model.
TogglePrivacyMode(c, k) ==
    /\ conn[c] = "idle" /\ worker[c] = "none"
    /\ requests < MaxRequests /\ requests' = requests + 1
    /\ Goto(c, "ask")
    /\ req' = [req EXCEPT ![c] = k]
    /\ UNCHANGED <<mode, lock, worker, ghosts>>

\* `turn_on_privacy` asks the implementation in use, not the one asked for,
\* whether to start a thread.
IsAsync(c) ==
    /\ conn[c] = "ask" /\ lock = None
    /\ Goto(c, IF impl \in AsyncImpls THEN "wait" ELSE "sync")
    /\ worker' = [worker EXCEPT ![c] = "start"]
    /\ UNCHANGED <<mode, lock, req, ghosts, requests>>

\* The 7.5 seconds are over.
Timeout(c) ==
    /\ conn[c] = "wait" /\ worker[c] \in {"start", "hold"}
    /\ Goto(c, "failed")
    /\ UNCHANGED <<mode, lock, req, worker, ghosts, requests>>

\* The result is there in time.
TurnOnResult(c) ==
    /\ conn[c] \in {"sync", "wait"} /\ worker[c] \in Results
    /\ Goto(c, IF worker[c] = "ok" THEN "check"
               ELSE IF worker[c] = "err" THEN "failed" ELSE "idle")
    /\ worker' = [worker EXCEPT ![c] = "none"]
    /\ UNCHANGED <<mode, lock, req, ghosts, requests>>

\* `check_privacy_mode_err` finds nothing to object to, ...
CheckPasses(c) ==
    /\ conn[c] = "check" /\ lock = None
    /\ Goto(c, "idle")
    /\ UNCHANGED <<mode, lock, req, worker, ghosts, requests>>

\* ... or no capturer can be created: the connection turns its mode off again.
CheckFails(c) ==
    /\ conn[c] = "check" /\ lock = None /\ impl \in TestedImpls
    /\ Goto(c, "undo")
    /\ UNCHANGED <<mode, lock, req, worker, ghosts, requests>>

Undo(c) ==
    /\ conn[c] = "undo"
    /\ TurnOff(c, c)
    /\ Goto(c, "idle")
    /\ UNCHANGED <<req, worker, outlived, requests>>

\* Turning on has failed: `is_in_privacy_mode` ...
TurnOnFailed(c) ==
    /\ conn[c] = "failed" /\ lock = None
    /\ Goto(c, IF owner # None THEN "force" ELSE "idle")
    /\ UNCHANGED <<mode, lock, req, worker, ghosts, requests>>

\* ... and if so it is turned off, with INVALID_PRIVACY_MODE_CONN_ID.
ForceOff(c) ==
    /\ conn[c] = "force"
    /\ TurnOff(None, c)
    /\ Goto(c, "idle")
    /\ UNCHANGED <<req, worker, outlived, requests>>

\* The peer asks to turn it off.
TurnOffPrivacy(c) ==
    /\ conn[c] = "idle"
    /\ TurnOff(c, c)
    /\ UNCHANGED <<conn, req, worker, outlived, requests>>

\* The connection ends: `get_privacy_mode_conn_id` ...
Close(c) ==
    /\ conn[c] = "idle"
    /\ Goto(c, "closing")
    /\ UNCHANGED <<mode, lock, req, worker, ghosts, requests>>

\* Plausible bug: the teardown does not look at the mode.
CloseLooksNot(c) ==
    /\ conn[c] = "closing" /\ lock = None
    /\ Goto(c, "drop")
    /\ outlived' = IF worker[c] = "start" THEN outlived \cup {c} ELSE outlived
    /\ UNCHANGED <<mode, lock, req, worker, ended, kept, requests>>

CloseLooks(c) ==
    /\ conn[c] = "closing" /\ lock = None
    /\ Goto(c, IF owner = c THEN "close_off" ELSE "drop")
    /\ outlived' = IF worker[c] = "start" THEN outlived \cup {c} ELSE outlived
    /\ UNCHANGED <<mode, lock, req, worker, ended, kept, requests>>

\* ... and, under another lock, `turn_off_privacy`.
CloseOff(c) ==
    /\ conn[c] = "close_off"
    /\ TurnOff(c, c)
    /\ Goto(c, "drop")
    /\ UNCHANGED <<req, worker, outlived, requests>>

\* `Drop for AuthedConnID`: out of AUTHED_CONNS under one lock, ...
DropAuthed(c) ==
    /\ conn[c] = "drop"
    /\ Goto(c, "count")
    /\ UNCHANGED <<mode, lock, req, worker, ghosts, requests>>

\* ... and those left are counted under another: where there are none, the
\* virtual displays are reset, if they are of the kind that makes turning on
\* slow.  Two connections that end together may both find nobody left.
CountAuthed(c) ==
    /\ conn[c] = "count"
    /\ Goto(c, IF Authed = {} /\ AsyncImpls # {} THEN "reset" ELSE "gone")
    /\ UNCHANGED <<mode, lock, req, worker, ghosts, requests>>

\* `amyuni_idd::reset_all`: `turn_off_privacy(0, None)`.
ResetAll(c) ==
    /\ conn[c] = "reset"
    /\ TurnOff(None, c)
    /\ Goto(c, "gone")
    /\ UNCHANGED <<req, worker, outlived, requests>>

-----------------------------------------------------------------------------
(* The host *)

\* `switch`: the host's user has chosen another implementation; the object that
\* is replaced turns its mode off when it is dropped.
Switch(k) ==
    /\ lock = None /\ impl # k
    /\ impl' = k /\ owner' = None /\ ended' = EndedBy(None)
    /\ UNCHANGED <<lock, tasks, outlived, kept, requests>>

\* Somebody at the host has pressed Ctrl+P while the keyboard is hooked.
HostTurnsOff ==
    /\ owner # None
    /\ TurnOff(None, None)
    /\ UNCHANGED <<tasks, outlived, requests>>

HostStep == HostTurnsOff \/ \E k \in Impls : Switch(k)

-----------------------------------------------------------------------------
TaskStep(c) ==
    \/ IsAsync(c) \/ Timeout(c) \/ TurnOnResult(c) \/ CheckPasses(c)
    \/ CheckFails(c) \/ Undo(c) \/ TurnOnFailed(c) \/ ForceOff(c)
    \/ CloseLooks(c) \/ CloseOff(c) \/ DropAuthed(c) \/ CountAuthed(c) \/ ResetAll(c)

WorkerStep(c) == AcquireOn(c) \/ FinishOn(c) \/ DropResult(c)

PeerStep(c) ==
    \/ Open(c) \/ TurnOffPrivacy(c) \/ Close(c)
    \/ \E k \in Impls : TogglePrivacyMode(c, k)

Next == HostStep \/ \E c \in Conns : TaskStep(c) \/ WorkerStep(c) \/ PeerStep(c)

Spec == Init /\ [][Next]_vars

\* Tasks and threads run, and the platform's calls return.
FairSpec ==
    /\ Spec
    /\ \A c \in Conns : WF_vars(TaskStep(c)) /\ WF_vars(WorkerStep(c))

-----------------------------------------------------------------------------
(* Properties *)

\* Every variable has the shape of the Rust value it stands for.
TypeOK ==
    /\ impl \in Impls /\ owner \in Conns \cup {None}
    /\ lock \in Conns \cup {None}
    /\ conn \in [Conns -> ConnSteps] /\ req \in [Conns -> Impls]
    /\ worker \in [Conns -> WorkerSteps]
    /\ ended \in [of : Conns \cup {None}, by : Conns \cup {None},
                  in : ConnSteps \cup {"host"}]
    /\ outlived \subseteq Conns /\ kept \subseteq Conns
    /\ requests \in 0 .. MaxRequests

\* "Failed to turn off privacy mode that belongs to someone else.": no connection
\* but the one that turned the mode on ends it (check_off_conn_id).
OnlyOwnerTurnsOff == ended.by \in {ended.of, None}

\* What does hold: a connection that ends the mode of another one has failed to
\* turn it on, or found no remote connection left when it ended and resets the
\* virtual displays.
OthersEndItOnFailure ==
    OnlyOwnerTurnsOff \/ ended.in \in {"force", "reset"}

\* The mode does not outlive its connection (the teardown of Connection::start),
\* unless the platform failed to turn it off or a thread that was still turning
\* it on when the connection ended has the last word.
EndsWithConnection ==
    \A c \in Conns :
        conn[c] \in {"drop", "count", "reset", "gone"} /\ owner = c =>
            c \in kept \cup outlived

\* A peer that asks for the mode gets an answer, and a connection that ends is
\* gone, although turning on may last longer than the connection waits.
RequestsEnd ==
    \A c \in Conns : (conn[c] \notin {"out", "idle", "gone"}) ~>
                         (conn[c] \in {"idle", "gone"})
=============================================================================
