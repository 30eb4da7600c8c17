------------------------------- MODULE LanAuth -------------------------------
(***************************************************************************)
(* How a connection logs in (src/server/login_failure_check.rs and         *)
(* `handle_lan_login_request` of src/server/connection.rs).                *)
(*                                                                         *)
(* An attempt is checked against the back-off of its source, takes one of  *)
(* the few verification permits, is verified on a blocking thread, and     *)
(* then either is recorded as a failure of every key of its source or      *)
(* opens a session bound to the revision of the credentials.  The steps    *)
(* of different connections interleave: the back-off table, the permits    *)
(* and the credentials each have a lock of their own, and none is held     *)
(* from one step to the next.                                              *)
(*                                                                         *)
(* Time is counted in ticks, Second of them to a second: the code stores   *)
(* milliseconds and answers in seconds.                                    *)
(***************************************************************************)
EXTENDS Integers, FiniteSets

CONSTANTS
    Conns,        \* connections
    Keys,         \* source addresses and their IPv6 prefixes
    KeysOf,       \* the keys of a connection's source, its address included
    IpOf,         \* the source address of a connection
    Permits,      \* LAN_AUTH_GATE
    Second,       \* ticks in a second
    BackoffMax,   \* LAN_AUTH_BACKOFF_MAX_SECONDS
    IdleReset,    \* LAN_AUTH_BACKOFF_IDLE_RESET_MS, in ticks
    MaxTime,      \* bound on the clock
    MaxRevision   \* bound on the changes of the credentials

ASSUME LanAuthAssumption ==
    /\ IsFiniteSet(Conns)
    /\ KeysOf \in [Conns -> SUBSET Keys]
    /\ IpOf \in [Conns -> Keys]
    /\ \A c \in Conns : IpOf[c] \in KeysOf[c]
    /\ Permits \in Nat \ {0}
    /\ Second \in Nat \ {0}
    /\ BackoffMax \in Nat \ {0}
    /\ IdleReset \in Nat
    /\ IdleReset >= BackoffMax * Second
    /\ MaxTime \in Nat
    /\ MaxRevision \in Nat \ {0}

VARIABLES
    now,          \* get_time()
    failures,     \* LAN_AUTH_FAILURES
    permits,      \* free permits of the gate
    revision,     \* Config::get_credential_revision()
    pc,           \* where a connection is in its login
    stamp,        \* the time it read before it took the lock of the table
    password,     \* the revision whose password the attempt carries
    verified,     \* the result of the verification task
    revision_at_auth,  \* credential_revision_at_auth
    told          \* until when the peer was told to wait, if nothing has
                  \* happened to its keys since

vars == <<now, failures, permits, revision, pc, stamp, password,
          verified, revision_at_auth, told>>

Never == -1       \* not told to wait, or no longer

\* A key without an entry of the map; `Default` of LanAuthFailureState.
NoFailure == [failures |-> 0, retry_until |-> 0, last_failure |-> 0]

\* Steps of `start` and of the login handler between two locks.
Waiting == "waiting"            \* connected, not authorized
Checking == "checking"          \* about to look at the back-off
Gate == "gate"                  \* past the back-off check
Verifying == "verifying"        \* the blocking task holds a permit
Verified == "verified"          \* the task is over, its permit released
Recording == "recording"        \* about to record a failure
Cleared == "cleared"            \* the source's own failures are forgotten
Configuring == "configuring"    \* bound to a revision
Authorized == "authorized"      \* in the main loop
Forwarding == "forwarding"      \* in try_port_forward_loop
Closed == "closed"
Stages == {Waiting, Checking, Gate, Verifying, Verified, Recording, Cleared,
           Configuring, Authorized, Forwarding, Closed}

FailureState == [failures : Nat, retry_until : Nat, last_failure : Nat]

(***************************************************************************)
(* The back-off table.                                                     *)
(***************************************************************************)

\* An entry the idle window has not outlived at time t.
Live(state, t) == state.failures > 0 /\ t - state.last_failure < IdleReset

\* The `retain` at the head of `lan_auth_retry_after_at`.
Retained(t) ==
    [k \in Keys |-> IF Live(failures[k], t) THEN failures[k] ELSE NoFailure]

\* Seconds from t to the end of a back-off, rounded up.
Remaining(until, t) ==
    IF until > t THEN (until - t + Second - 1) \div Second ELSE 0

\* What remains of the back-offs of the keys; `lan_auth_retry_after_at`
\* returns the longest.
Waits(keys, t) ==
    {Remaining(failures[k].retry_until, t) :
        k \in {key \in keys : Live(failures[key], t)}}

\* 1 << n, for the shifts the code makes.
Shifted == <<1, 2, 4, 8, 16, 32, 64>>

AtMost(a, b) == IF a <= b THEN a ELSE b

\* Seconds to wait after the n-th failure in a row.
Delay(n) == IF n < 2 THEN 0 ELSE AtMost(Shifted[AtMost(n - 2, 6) + 1], BackoffMax)

\* How many failures of k still count: none once the idle window has passed.
Counted(k, t) ==
    IF t - failures[k].last_failure >= IdleReset THEN 0 ELSE failures[k].failures

\* The body of the loop of `record_lan_auth_failure_at`.
Bumped(k, t) ==
    [failures |-> Counted(k, t) + 1,
     retry_until |-> t + Delay(Counted(k, t) + 1) * Second,
     last_failure |-> t]

Init ==
    /\ now = 0
    /\ failures = [k \in Keys |-> NoFailure]
    /\ permits = Permits
    /\ revision = 1
    /\ pc = [c \in Conns |-> Closed]
    /\ stamp = [c \in Conns |-> 0]
    /\ password = [c \in Conns |-> 0]
    /\ verified = [c \in Conns |-> FALSE]
    /\ revision_at_auth = [c \in Conns |-> 0]
    /\ told = [c \in Conns |-> Never]

Go(c, from, to) == pc[c] = from /\ pc' = [pc EXCEPT ![c] = to]

(***************************************************************************)
(* The login of one connection.                                            *)
(***************************************************************************)

\* `on_open`: a new connection of that source.
Open(c) ==
    /\ Go(c, Closed, Waiting)
    /\ revision_at_auth' = [revision_at_auth EXCEPT ![c] = 0]
    /\ UNCHANGED <<now, failures, permits, revision, stamp, password, verified, told>>

\* A login request arrives; its password is that of revision p (0: of none).
\* `lan_auth_retry_after` reads the clock before it locks the table.
LoginRequest(c, p) ==
    /\ Go(c, Waiting, Checking)
    /\ password' = [password EXCEPT ![c] = p]
    /\ stamp' = [stamp EXCEPT ![c] = now]
    /\ told' = [told EXCEPT ![c] = Never]
    /\ UNCHANGED <<now, failures, permits, revision, verified, revision_at_auth>>

\* `lan_auth_retry_after_at` lets the attempt pass.
PassBackoff(c) ==
    /\ Go(c, Checking, Gate)
    /\ \A w \in Waits(KeysOf[c], stamp[c]) : w = 0
    /\ failures' = Retained(stamp[c])
    /\ stamp' = [stamp EXCEPT ![c] = 0]
    /\ UNCHANGED <<now, permits, revision, password, verified, revision_at_auth, told>>

\* "Authentication retry is temporarily blocked"; the connection stays.
Blocked(c, r) ==
    /\ Go(c, Checking, Waiting)
    /\ r > 0
    /\ \A w \in Waits(KeysOf[c], stamp[c]) : w <= r
    /\ failures' = Retained(stamp[c])
    /\ told' = [told EXCEPT ![c] = now + r * Second]
    /\ stamp' = [stamp EXCEPT ![c] = 0]
    /\ password' = [password EXCEPT ![c] = 0]
    /\ UNCHANGED <<now, permits, revision, verified, revision_at_auth>>

\* `try_acquire_lan_auth_gate`; the blocking task starts with the permit.
AcquireGate(c) ==
    /\ Go(c, Gate, Verifying)
    /\ permits > 0
    /\ permits' = permits - 1
    /\ UNCHANGED <<now, failures, revision, stamp, password, verified,
                   revision_at_auth, told>>

\* Plausible bug: the request waits for a permit instead of being refused.
BusyWaits(c) == pc[c] = Gate /\ permits = 0 /\ UNCHANGED vars

\* "Authentication is busy; retry shortly".
Busy(c) ==
    /\ Go(c, Gate, Waiting)
    /\ permits = 0
    /\ password' = [password EXCEPT ![c] = 0]
    /\ UNCHANGED <<now, failures, permits, revision, stamp, verified,
                   revision_at_auth, told>>

\* Plausible bug: the permit is released by hand and again when it is dropped.
VerifyTwice(c) ==
    /\ Go(c, Verifying, Verified)
    /\ verified' = [verified EXCEPT ![c] = password[c] = revision]
    /\ permits' = permits + 2
    /\ password' = [password EXCEPT ![c] = 0]
    /\ UNCHANGED <<now, failures, revision, stamp, revision_at_auth, told>>

\* Plausible bug: only a successful verification gives its permit back.
VerifyKeepsPermit(c) ==
    /\ Go(c, Verifying, Verified)
    /\ verified' = [verified EXCEPT ![c] = password[c] = revision]
    /\ permits' = IF password[c] = revision THEN permits + 1 ELSE permits
    /\ password' = [password EXCEPT ![c] = 0]
    /\ UNCHANGED <<now, failures, revision, stamp, revision_at_auth, told>>

\* The blocking task: `verify_lan_credentials` against the credentials of the
\* moment, then the password is wiped and the permit dropped.  An error of the
\* verification or of the task counts as a wrong password.
Verify(c) ==
    /\ Go(c, Verifying, Verified)
    /\ verified' = [verified EXCEPT ![c] = password[c] = revision]
    /\ permits' = permits + 1
    /\ password' = [password EXCEPT ![c] = 0]
    /\ UNCHANGED <<now, failures, revision, stamp, revision_at_auth, told>>

\* `record_lan_auth_failure` reads the clock before it locks the table.
Reject(c) ==
    /\ Go(c, Verified, Recording)
    /\ ~verified[c]
    /\ stamp' = [stamp EXCEPT ![c] = now]
    /\ UNCHANGED <<now, failures, permits, revision, password, verified,
                   revision_at_auth, told>>

\* Plausible bug: only the address itself is looked at, not its prefixes.
DelaysOfAddress(c) == {Delay(Counted(IpOf[c], stamp[c]) + 1)}

\* The delays that a failure now costs each of the keys of the source.
Delays(c) == {Delay(Counted(k, stamp[c]) + 1) : k \in KeysOf[c]}

\* `record_lan_auth_failure_at` and the answer; the connection may try again.
RecordFailure(c, r) ==
    /\ Go(c, Recording, Waiting)
    /\ \A d \in Delays(c) : d <= r
    /\ failures' = [k \in Keys |-> IF k \in KeysOf[c] THEN Bumped(k, stamp[c])
                                   ELSE failures[k]]
    /\ told' = [d \in Conns |-> IF d = c THEN now + r * Second
                                ELSE IF KeysOf[c] \cap KeysOf[d] # {} THEN Never
                                ELSE told[d]]
    /\ stamp' = [stamp EXCEPT ![c] = 0]
    /\ UNCHANGED <<now, permits, revision, password, verified, revision_at_auth>>

\* Plausible bug: a success forgives the whole prefix.
ClearSourceAndPrefixes(c) ==
    /\ Go(c, Verified, Cleared)
    /\ verified[c]
    /\ failures' = [k \in Keys |-> IF k \in KeysOf[c] THEN NoFailure ELSE failures[k]]
    /\ verified' = [verified EXCEPT ![c] = FALSE]
    /\ UNCHANGED <<now, permits, revision, stamp, password, revision_at_auth, told>>

\* `clear_lan_auth_source`: the address itself, not the prefixes it shares.
ClearSource(c) ==
    /\ Go(c, Verified, Cleared)
    /\ verified[c]
    /\ failures' = [failures EXCEPT ![IpOf[c]] = NoFailure]
    /\ verified' = [verified EXCEPT ![c] = FALSE]
    /\ UNCHANGED <<now, permits, revision, stamp, password, revision_at_auth, told>>

\* The session is bound to the revision of this moment; then the permissions
\* are set.
BindRevision(c) ==
    /\ Go(c, Cleared, Configuring)
    /\ revision_at_auth' = [revision_at_auth EXCEPT ![c] = revision]
    /\ UNCHANGED <<now, failures, permits, revision, stamp, password, verified, told>>

\* The rest of the handler.  It may end the connection (privacy mode is on, a
\* port cannot be forwarded, the terminal user is refused) or leave it
\* unauthorized (no desktop session could be started).
Configure(c, outcome) ==
    /\ outcome \in {Authorized, Forwarding, Waiting, Closed}
    /\ Go(c, Configuring, outcome)
    /\ UNCHANGED <<now, failures, permits, revision, stamp, password, verified,
                   revision_at_auth, told>>

\* Plausible bug: only an older revision than the session's is looked for.
SecondTimerOlder(c) ==
    /\ Go(c, Authorized, Closed)
    /\ revision_at_auth[c] # 0 /\ revision_at_auth[c] > revision
    /\ UNCHANGED <<now, failures, permits, revision, stamp, password, verified,
                   revision_at_auth, told>>

\* A tick of `second_timer`: "Access credentials changed".  The loop of a
\* forwarded port has no such tick.
SecondTimer(c) ==
    /\ Go(c, Authorized, Closed)
    /\ revision_at_auth[c] # 0 /\ revision_at_auth[c] # revision
    /\ UNCHANGED <<now, failures, permits, revision, stamp, password, verified,
                   revision_at_auth, told>>

\* A request that is refused before anything is looked up, and ends the
\* connection: no encryption, no LAN login in it, or a web session that asks
\* for anything but the desktop.
Refuse(c) ==
    /\ Go(c, Waiting, Closed)
    /\ UNCHANGED <<now, failures, permits, revision, stamp, password, verified,
                   revision_at_auth, told>>

\* The peer leaves; the handler of a request in progress is not interrupted.
Close(c) ==
    /\ pc[c] \in {Waiting, Authorized, Forwarding}
    /\ pc' = [pc EXCEPT ![c] = Closed]
    /\ UNCHANGED <<now, failures, permits, revision, stamp, password, verified,
                   revision_at_auth, told>>

\* New credentials are stored (the configuration belongs to hbb_common).
ChangeCredentials ==
    /\ revision < MaxRevision
    /\ revision' = revision + 1
    /\ UNCHANGED <<now, failures, permits, pc, stamp, password, verified,
                   revision_at_auth, told>>

Tick ==
    /\ now < MaxTime
    /\ now' = now + 1
    /\ UNCHANGED <<failures, permits, revision, pc, stamp, password, verified,
                   revision_at_auth, told>>

Step(c) ==
    \/ PassBackoff(c) \/ AcquireGate(c) \/ Busy(c) \/ Verify(c) \/ Reject(c)
    \/ ClearSource(c) \/ BindRevision(c) \/ SecondTimer(c)
    \/ \E r \in Waits(KeysOf[c], stamp[c]) : Blocked(c, r)
    \/ \E r \in Delays(c) : RecordFailure(c, r)
    \/ \E outcome \in Stages : Configure(c, outcome)

Next ==
    \/ Tick \/ ChangeCredentials
    \/ \E c \in Conns :
        \/ Step(c) \/ Open(c) \/ Refuse(c) \/ Close(c)
        \/ \E p \in 0 .. revision : LoginRequest(c, p)

Spec == Init /\ [][Next]_vars

FairSpec == Spec /\ \A c \in Conns : WF_vars(Step(c))

-----------------------------------------------------------------------------
(***************************************************************************)
(* Properties.                                                             *)
(***************************************************************************)

\* Every variable has the shape of the Rust value it stands for; the gate never
\* has more than its permits.
TypeOK ==
    /\ now \in Nat
    /\ failures \in [Keys -> FailureState]
    /\ permits \in 0 .. Permits
    /\ revision \in 1 .. MaxRevision
    /\ pc \in [Conns -> Stages]
    /\ stamp \in [Conns -> Nat]
    /\ password \in [Conns -> 0 .. MaxRevision]
    /\ verified \in [Conns -> BOOLEAN]
    /\ revision_at_auth \in [Conns -> 0 .. MaxRevision]
    /\ told \in [Conns -> Nat \cup {Never}]

\* The wait a peer is told is enough: once it is over, and if nobody sharing
\* a key with it has failed in between, its next attempt is not blocked, in
\* spite of the rounding to seconds and of the clock being read before the
\* table is locked (`retry_after_seconds` of the login response).
RetryAfterIsEnough ==
    \A c \in Conns :
        (told[c] # Never /\ now >= told[c])
            => \A w \in Waits(KeysOf[c], now) : w = 0

\* A success from the very address k, which says nothing of the prefixes it
\* shares with others (clear_lan_auth_source).
ClearedByOwner(k) ==
    \E c \in Conns : IpOf[c] = k /\ pc[c] = Verified /\ pc'[c] = Cleared

\* A failure of the source k belongs to is recorded with a reading of the clock
\* older than that of the failure recorded last; the end of the back-off moves
\* earlier by no more than the two readings are apart.
RecordedLate(k) ==
    \E c \in Conns :
        /\ k \in KeysOf[c] /\ pc[c] = Recording /\ pc'[c] = Waiting
        /\ stamp[c] < failures[k].last_failure
        /\ failures[k].retry_until - failures'[k].retry_until
               <= failures[k].last_failure - stamp[c]

\* While a key is in back-off no step of any connection moves the end of it
\* earlier or forgets it, not the clean-up of idle entries, nor a success from
\* another address of its prefix; with two exceptions: a success from that very
\* address, and a failure recorded late (record_lan_auth_failure_at sets
\* `retry_until_ms` from its own reading of the clock and keeps no maximum).
BackoffStands ==
    [][\A k \in Keys :
        failures[k].retry_until > now =>
            \/ failures'[k].retry_until >= failures[k].retry_until
            \/ ClearedByOwner(k)
            \/ RecordedLate(k)]_vars

\* No permit of the gate is lost or made up, whichever way the
\* verifications that hold them end: a lost one would turn every later login
\* away as busy.
PermitsAreReturned ==
    permits + Cardinality({c \in Conns : pc[c] = Verifying}) = Permits

\* A session of the main loop that is bound to an older revision than the
\* stored one ends, whether the credentials changed during the session or in
\* the last part of its login, after `credential_revision_at_auth` was set.
CredentialChangeEndsSessions ==
    \A c \in Conns :
        (pc[c] = Authorized /\ revision_at_auth[c] # revision) ~> (pc[c] = Closed)

\* Every login request is answered: no attempt is stuck at the back-off
\* table, at the gate or in the verification.
LoginsAreAnswered ==
    \A c \in Conns :
        (pc[c] = Checking) ~> (pc[c] \in {Waiting, Authorized, Forwarding, Closed})
=============================================================================
