---------------------------- MODULE LanAuthProofs ----------------------------
(***************************************************************************)
(* Proofs about LanAuth, for any connections, keys, delays and bounds.     *)
(*                                                                         *)
(* The invariant behind all of them: the length of a back-off is the delay *)
(* of its number of failures, nothing carries a time later than the clock, *)
(* and what a peer was told covers the back-off of each of its keys.       *)
(***************************************************************************)
EXTENDS LanAuth, FiniteSetTheorems, TLAPS

USE LanAuthAssumption

\* A back-off lasts as long as its count of failures says, from the last one.
LengthIsDelay ==
    \A k \in Keys :
        /\ failures[k].retry_until
             = failures[k].last_failure + Delay(failures[k].failures) * Second
        /\ failures[k].last_failure <= now

\* The clock was read in the past.
StampsArePast == \A c \in Conns : stamp[c] <= now

\* The time a peer was told is beyond the back-offs of all keys of its source.
ToldCoversKeys ==
    \A c \in Conns : told[c] # Never =>
        \A k \in KeysOf[c] : failures[k].retry_until <= told[c]

IInv ==
    /\ TypeOK
    /\ PermitsAreReturned
    /\ LengthIsDelay
    /\ StampsArePast
    /\ ToldCoversKeys

-----------------------------------------------------------------------------
(***************************************************************************)
(* Facts about the operators.                                              *)
(***************************************************************************)

\* Products keep the order of their first factor.
LEMMA ProductMonotone ==
    ASSUME NEW a \in Nat, NEW b \in Nat, NEW s \in Nat, a <= b
    PROVE  a * s <= b * s
<1>1. (b - a) * s >= 0
  OBVIOUS
<1> QED
  BY <1>1

\* Rounding up to seconds never makes a wait too short.
LEMMA RoundingUp ==
    ASSUME NEW x \in Nat, NEW s \in Nat \ {0}
    PROVE  /\ (x + s - 1) \div s \in Nat
           /\ x <= ((x + s - 1) \div s) * s
  OBVIOUS

\* Delays are at most the maximum and never get shorter with more failures.
LEMMA DelayFacts ==
    ASSUME NEW n \in Nat
    PROVE  /\ Delay(n) \in 0 .. BackoffMax
           /\ Delay(n) <= Delay(n + 1)
<1>1. \A i \in 1 .. 7 : Shifted[i] \in Nat /\ (i < 7 => Shifted[i] <= Shifted[i + 1])
  BY DEF Shifted
<1>2. CASE n < 2
  BY <1>1, <1>2 DEF Delay, AtMost
<1>3. CASE n >= 2
  <2>1. PICK i \in 1 .. 7 : i = AtMost(n - 2, 6) + 1
    BY <1>3 DEF AtMost
  <2>2. PICK j \in 1 .. 7 : j = AtMost(n + 1 - 2, 6) + 1
    BY <1>3 DEF AtMost
  <2>3. j = i \/ (i < 7 /\ j = i + 1)
    BY <2>1, <2>2, <1>3 DEF AtMost
  <2>4. Shifted[i] <= Shifted[j] /\ Shifted[i] \in Nat /\ Shifted[j] \in Nat
    BY <2>3, <1>1
  <2> QED
    BY <2>1, <2>2, <2>4, <1>3 DEF Delay, AtMost
<1> QED
  BY <1>2, <1>3

\* What remains of a back-off, in seconds, covers it.
LEMMA RemainingFacts ==
    ASSUME NEW until \in Nat, NEW t \in Nat
    PROVE  /\ Remaining(until, t) \in Nat
           /\ until <= t + Remaining(until, t) * Second
           /\ until <= t => Remaining(until, t) = 0
<1>1. CASE until > t
  <2>1. PICK x \in Nat : x = until - t
    BY <1>1
  <2>2. /\ (x + Second - 1) \div Second \in Nat
        /\ x <= ((x + Second - 1) \div Second) * Second
    BY Zenon, RoundingUp
  <2>3. Remaining(until, t) = (x + Second - 1) \div Second
    BY Zenon, <1>1, <2>1 DEF Remaining
  <2> QED
    BY <1>1, <2>1, <2>2, <2>3
<1>2. CASE until <= t
  BY <1>2 DEF Remaining
<1> QED
  BY <1>1, <1>2

\* A back-off that has not ended belongs to an entry the idle window keeps.
LEMMA PendingIsLive ==
    ASSUME IInv, NEW k \in Keys, NEW t \in Nat, t <= now,
           failures[k].retry_until > now
    PROVE  Live(failures[k], t) /\ Counted(k, t) = failures[k].failures
<1> DEFINE e == failures[k]
<1>1. /\ e.failures \in Nat /\ e.retry_until \in Nat /\ e.last_failure \in Nat
      /\ e.retry_until = e.last_failure + Delay(e.failures) * Second
      /\ e.last_failure <= now /\ now \in Nat
  BY Zenon DEF IInv, TypeOK, FailureState, LengthIsDelay
<1>2. Delay(e.failures) \in 0 .. BackoffMax
  BY Zenon, <1>1, DelayFacts
<1>3. Delay(e.failures) * Second <= BackoffMax * Second
  BY <1>2, ProductMonotone
<1>4. e.failures > 0
  BY <1>1 DEF Delay
<1>5. t - e.last_failure < IdleReset
  BY <1>1, <1>2, <1>3
<1> QED
  BY <1>1, <1>4, <1>5 DEF Live, Counted

\* The clean-up keeps the shape of the table.
LEMMA RetainedFacts ==
    ASSUME IInv, NEW t \in Nat, t <= now
    PROVE  /\ Retained(t) \in [Keys -> FailureState]
           /\ \A k \in Keys :
                /\ Retained(t)[k].retry_until
                     = Retained(t)[k].last_failure + Delay(Retained(t)[k].failures) * Second
                /\ Retained(t)[k].last_failure <= now
                /\ Retained(t)[k].retry_until <= failures[k].retry_until
                /\ failures[k].retry_until > now => Retained(t)[k] = failures[k]
<1>1. NoFailure \in FailureState
  BY Zenon DEF NoFailure, FailureState
<1>2. \A k \in Keys : failures[k] \in FailureState
  BY Zenon DEF IInv, TypeOK
<1>3. \A k \in Keys : Retained(t)[k] = IF Live(failures[k], t) THEN failures[k] ELSE NoFailure
  BY Zenon DEF Retained
<1>4. Retained(t) \in [Keys -> FailureState]
  BY Zenon, <1>1, <1>2 DEF Retained
<1>5. ASSUME NEW k \in Keys
      PROVE  /\ Retained(t)[k].retry_until
                   = Retained(t)[k].last_failure + Delay(Retained(t)[k].failures) * Second
             /\ Retained(t)[k].last_failure <= now
             /\ Retained(t)[k].retry_until <= failures[k].retry_until
             /\ failures[k].retry_until > now => Retained(t)[k] = failures[k]
  <2>0. now \in Nat /\ failures[k].retry_until \in Nat
    BY Zenon, <1>2 DEF IInv, TypeOK, FailureState
  <2>1. CASE Live(failures[k], t)
    BY <1>3, <1>5, <2>0, <2>1 DEF IInv, LengthIsDelay
  <2>2. CASE ~Live(failures[k], t)
    <3>1. Retained(t)[k] = NoFailure
      BY Zenon, <1>3, <2>2
    <3>2. ~(failures[k].retry_until > now)
      BY Zenon, <2>2, PendingIsLive
    <3>3. Delay(0) * Second = 0
      BY DEF Delay
    <3> QED
      BY <3>1, <3>2, <3>3, <2>0 DEF NoFailure
  <2> QED
    BY Zenon, <2>1, <2>2
<1> QED
  BY Zenon, <1>4, <1>5

\* A bumped entry has its shape, and counts a pending back-off's failures.
LEMMA BumpedFacts ==
    ASSUME IInv, NEW k \in Keys, NEW t \in Nat, t <= now
    PROVE  /\ Bumped(k, t) \in FailureState
           /\ Bumped(k, t).last_failure = t
           /\ Bumped(k, t).retry_until = t + Delay(Bumped(k, t).failures) * Second
           /\ Counted(k, t) \in Nat
           /\ Bumped(k, t).failures = Counted(k, t) + 1
<1>1. Counted(k, t) \in Nat
  BY Zenon DEF Counted, IInv, TypeOK, FailureState
<1>2. PICK n \in Nat : n = Counted(k, t) + 1
  BY <1>1
<1>3. Delay(n) * Second \in Nat
  BY DelayFacts
<1> QED
  BY <1>1, <1>2, <1>3 DEF Bumped, FailureState

\* The gate's accounts when one connection starts or ends its verification.
LEMMA VerifyingCount ==
    ASSUME IInv, NEW c \in Conns, NEW from \in Stages, NEW to \in Stages,
           pc[c] = from, pc' = [pc EXCEPT ![c] = to]
    PROVE  LET n == Cardinality({d \in Conns : pc[d] = Verifying})
               m == Cardinality({d \in Conns : pc'[d] = Verifying})
           IN  /\ n \in Nat /\ m \in Nat
               /\ (from # Verifying /\ to # Verifying) => m = n
               /\ (from # Verifying /\ to = Verifying) => m = n + 1
               /\ (from = Verifying /\ to # Verifying) => m = n - 1
<1> DEFINE A == {d \in Conns : pc[d] = Verifying}
           B == {d \in Conns : pc'[d] = Verifying}
<1>0. pc \in [Conns -> Stages]
  BY Zenon DEF IInv, TypeOK
<1>1. IsFiniteSet(A) /\ IsFiniteSet(B)
  BY Zenon, FS_Subset
<1>2. Cardinality(A) \in Nat /\ Cardinality(B) \in Nat
  BY Zenon, <1>1, FS_CardinalityType
<1>3. CASE from # Verifying /\ to # Verifying
  <2>1. A = B
    BY Zenon, <1>0, <1>3
  <2> QED
    BY Zenon, <2>1, <1>2, <1>3
<1>4. CASE from # Verifying /\ to = Verifying
  <2>1. c \notin A /\ B = A \cup {c}
    BY Zenon, <1>0, <1>4
  <2>2. Cardinality(B) = Cardinality(A) + 1
    BY Zenon, <2>1, <1>1, FS_AddElement
  <2> QED
    BY Zenon, <2>2, <1>2, <1>4
<1>5. CASE from = Verifying /\ to # Verifying
  <2>1. c \in A /\ B = A \ {c}
    BY Zenon, <1>0, <1>5
  <2>2. Cardinality(B) = Cardinality(A) - 1
    <3> HIDE DEF A, B
    <3> QED
      BY Zenon, <2>1, <1>1, FS_RemoveElement
  <2> QED
    BY Zenon, <2>2, <1>2, <1>5
<1>6. CASE from = Verifying /\ to = Verifying
  BY Zenon, <1>2, <1>6
<1> QED
  BY Zenon, <1>3, <1>4, <1>5, <1>6

-----------------------------------------------------------------------------
(***************************************************************************)
(* The invariant.                                                          *)
(***************************************************************************)

\* No login has been tried.
LEMMA InitIInv == Init => IInv
<1> SUFFICES ASSUME Init PROVE IInv
  BY Zenon
<1>1. TypeOK
  BY DEF Init, TypeOK, NoFailure, FailureState, Stages, Closed, Never
<1>2. PermitsAreReturned
  <2>1. {c \in Conns : pc[c] = Verifying} = {}
    BY Zenon DEF Init, Closed, Verifying
  <2> QED
    BY <2>1, FS_EmptySet DEF Init, PermitsAreReturned
<1>3. LengthIsDelay
  <2>1. Delay(0) * Second = 0
    BY DEF Delay
  <2> QED
    BY <2>1 DEF Init, LengthIsDelay, NoFailure
<1>4. StampsArePast /\ ToldCoversKeys
  BY DEF Init, StampsArePast, ToldCoversKeys
<1> QED
  BY Zenon, <1>1, <1>2, <1>3, <1>4 DEF IInv

\* The steps that touch neither the table, the clock readings nor the gate.
LEMMA QuietSteps ==
    ASSUME IInv, NEW c \in Conns,
           \/ Open(c) \/ Busy(c) \/ BindRevision(c) \/ SecondTimer(c)
           \/ Refuse(c) \/ Close(c)
           \/ \E outcome \in Stages : Configure(c, outcome)
    PROVE  IInv'
<1>1. PICK from \in Stages, to \in Stages :
        /\ pc[c] = from /\ pc' = [pc EXCEPT ![c] = to]
        /\ from # Verifying /\ to # Verifying
  BY Zenon DEF Open, Busy, BindRevision, SecondTimer, Refuse, Close, Configure, Go, Stages,
     Waiting, Checking, Gate, Verifying, Verified, Recording, Cleared, Configuring,
     Authorized, Forwarding, Closed
<1>2. UNCHANGED <<now, failures, permits, revision, stamp, verified, told>>
  BY Zenon DEF Open, Busy, BindRevision, SecondTimer, Refuse, Close, Configure
<1>3. /\ password' \in [Conns -> 0 .. MaxRevision]
      /\ revision_at_auth' \in [Conns -> 0 .. MaxRevision]
  BY DEF IInv, TypeOK, Open, Busy, BindRevision, SecondTimer, Refuse, Close, Configure
<1>4. TypeOK'
  BY Zenon, <1>1, <1>2, <1>3 DEF IInv, TypeOK
<1>5. PermitsAreReturned'
  BY Zenon, <1>1, <1>2, VerifyingCount DEF IInv, PermitsAreReturned
<1>6. LengthIsDelay' /\ StampsArePast' /\ ToldCoversKeys'
  BY Zenon, <1>2 DEF IInv, LengthIsDelay, StampsArePast, ToldCoversKeys
<1> QED
  BY Zenon, <1>4, <1>5, <1>6 DEF IInv

\* The steps that only read the clock: a request arrives, a failure is found.
LEMMA StampSteps ==
    ASSUME IInv, NEW c \in Conns,
           \/ \E p \in 0 .. revision : LoginRequest(c, p)
           \/ Reject(c)
    PROVE  IInv'
<1>1. PICK from \in Stages, to \in Stages :
        /\ pc[c] = from /\ pc' = [pc EXCEPT ![c] = to]
        /\ from # Verifying /\ to # Verifying
  BY Zenon DEF LoginRequest, Reject, Go, Stages, Waiting, Checking, Verifying, Verified,
     Recording
<1>2. /\ UNCHANGED <<now, failures, permits, revision, verified, revision_at_auth>>
      /\ stamp' = [stamp EXCEPT ![c] = now]
  BY Zenon DEF LoginRequest, Reject
<1>3. password' \in [Conns -> 0 .. MaxRevision]
  BY DEF IInv, TypeOK, LoginRequest, Reject
<1>4. told' = told \/ told' = [told EXCEPT ![c] = Never]
  BY Zenon DEF LoginRequest, Reject
<1>5. TypeOK'
  BY Zenon, <1>1, <1>2, <1>3, <1>4 DEF IInv, TypeOK
<1>6. PermitsAreReturned'
  BY Zenon, <1>1, <1>2, VerifyingCount DEF IInv, PermitsAreReturned
<1>7. LengthIsDelay' /\ StampsArePast'
  BY <1>2 DEF IInv, TypeOK, LengthIsDelay, StampsArePast
<1>8. ToldCoversKeys'
  BY Zenon, <1>2, <1>4 DEF IInv, TypeOK, ToldCoversKeys
<1> QED
  BY Zenon, <1>5, <1>6, <1>7, <1>8 DEF IInv

\* The two outcomes of the check: both clean the table up first.
LEMMA CheckSteps ==
    ASSUME IInv, NEW c \in Conns,
           \/ PassBackoff(c)
           \/ \E r \in Waits(KeysOf[c], stamp[c]) : Blocked(c, r)
    PROVE  IInv'
<1>0. stamp[c] \in Nat /\ stamp[c] <= now /\ now \in Nat
  BY Zenon DEF IInv, TypeOK, StampsArePast
<1>1. PICK from \in Stages, to \in Stages :
        /\ pc[c] = from /\ pc' = [pc EXCEPT ![c] = to]
        /\ from # Verifying /\ to # Verifying
  BY Zenon DEF PassBackoff, Blocked, Go, Stages, Waiting, Checking, Verifying, Gate
<1>2. /\ UNCHANGED <<now, permits, revision, verified, revision_at_auth>>
      /\ stamp' = [stamp EXCEPT ![c] = 0]
      /\ failures' = Retained(stamp[c])
  BY Zenon DEF PassBackoff, Blocked
<1>3. password' \in [Conns -> 0 .. MaxRevision]
  BY DEF IInv, TypeOK, PassBackoff, Blocked
<1>4. failures' \in [Keys -> FailureState] /\ LengthIsDelay'
  BY Zenon, <1>0, <1>2, RetainedFacts DEF LengthIsDelay
<1>5. \A k \in Keys : failures'[k].retry_until <= failures[k].retry_until
  BY Zenon, <1>0, <1>2, RetainedFacts
<1>6. \A k \in Keys : failures[k].retry_until \in Nat /\ failures'[k].retry_until \in Nat
  BY Zenon, <1>4 DEF IInv, TypeOK, FailureState
<1>7. told' \in [Conns -> Nat \cup {Never}] /\ ToldCoversKeys'
  <2>1. CASE PassBackoff(c)
    <3>1. told' = told /\ told \in [Conns -> Nat \cup {Never}]
      BY Zenon, <2>1 DEF PassBackoff, IInv, TypeOK
    <3> QED
      BY <3>1, <1>5, <1>6 DEF IInv, ToldCoversKeys, Never
  <2>2. ASSUME NEW r \in Waits(KeysOf[c], stamp[c]), Blocked(c, r)
        PROVE  told' \in [Conns -> Nat \cup {Never}] /\ ToldCoversKeys'
    <3>1. r \in Nat
      BY Zenon, <2>2, <1>0, <1>6, RemainingFacts DEF Waits
    <3>2. PICK w \in Nat : w = now + r * Second
      BY <3>1, <1>0
    <3>3. told' = [told EXCEPT ![c] = w] /\ told \in [Conns -> Nat \cup {Never}]
      BY Zenon, <2>2, <3>2 DEF Blocked, IInv, TypeOK
    <3>4. ASSUME NEW k \in KeysOf[c]
          PROVE  failures'[k].retry_until <= w
      <4>0. k \in Keys
        BY Zenon
      <4>1. CASE Live(failures[k], stamp[c])
        <5>1. PICK u \in Nat : u = Remaining(failures[k].retry_until, stamp[c])
          BY Zenon, <4>0, <1>0, <1>6, RemainingFacts
        <5>2. u <= r
          BY Zenon, <5>1, <4>1, <2>2 DEF Blocked, Waits
        <5>3. u * Second <= r * Second
          BY Zenon, <5>2, <3>1, ProductMonotone
        <5>4. failures[k].retry_until <= stamp[c] + u * Second
          BY Zenon, <4>0, <5>1, <1>0, <1>6, RemainingFacts
        <5>5. u * Second \in Nat /\ r * Second \in Nat
          BY <3>1
        <5>6. failures[k].retry_until <= w
          BY <4>0, <5>3, <5>4, <5>5, <3>2, <1>0, <1>6
        <5> QED
          BY <4>0, <5>6, <1>5, <1>6
      <4>2. CASE ~Live(failures[k], stamp[c])
        <5>1. failures'[k] = NoFailure
          BY Zenon, <4>0, <4>2, <1>2 DEF Retained
        <5> QED
          BY <5>1, <3>2 DEF NoFailure
      <4> QED
        BY Zenon, <4>1, <4>2
    <3>5. told' \in [Conns -> Nat \cup {Never}]
      BY Zenon, <3>3
    <3>6. ASSUME NEW d \in Conns, told'[d] # Never, NEW k \in KeysOf[d]
          PROVE  failures'[k].retry_until <= told'[d]
      <4>1. CASE d = c
        BY Zenon, <4>1, <3>3, <3>4
      <4>2. CASE d # c
        <5>1. told'[d] = told[d] /\ told[d] \in Nat
          BY Zenon, <4>2, <3>3, <3>6
        <5> QED
          BY <5>1, <3>6, <1>5, <1>6 DEF IInv, ToldCoversKeys
      <4> QED
        BY Zenon, <4>1, <4>2
    <3> QED
      BY Zenon, <3>5, <3>6 DEF ToldCoversKeys
  <2> QED
    BY Zenon, <2>1, <2>2
<1>8. TypeOK'
  BY Zenon, <1>1, <1>2, <1>3, <1>4, <1>7 DEF IInv, TypeOK
<1>9. PermitsAreReturned'
  BY Zenon, <1>1, <1>2, VerifyingCount DEF IInv, PermitsAreReturned
<1>10. StampsArePast'
  BY <1>0, <1>2 DEF IInv, TypeOK, StampsArePast
<1> QED
  BY Zenon, <1>4, <1>7, <1>8, <1>9, <1>10 DEF IInv

\* The two steps that move a permit.
LEMMA GateSteps ==
    ASSUME IInv, NEW c \in Conns, AcquireGate(c) \/ Verify(c)
    PROVE  IInv'
<1>1. UNCHANGED <<now, failures, revision, stamp, revision_at_auth, told>>
  BY Zenon DEF AcquireGate, Verify
<1>2. /\ password' \in [Conns -> 0 .. MaxRevision]
      /\ verified' \in [Conns -> BOOLEAN]
  <2>1. CASE AcquireGate(c)
    BY Zenon, <2>1 DEF AcquireGate, IInv, TypeOK
  <2>2. CASE Verify(c)
    <3>1. PICK b \in BOOLEAN : b = (password[c] = revision)
      BY Zenon
    <3>2. verified' = [verified EXCEPT ![c] = b]
      BY <3>1, <2>2, Zenon DEF Verify
    <3>3. verified \in [Conns -> BOOLEAN]
      BY Zenon DEF IInv, TypeOK
    <3>4. verified' \in [Conns -> BOOLEAN]
      BY <3>2, <3>3, Zenon
    <3>5. password' \in [Conns -> 0 .. MaxRevision]
      BY <2>2 DEF Verify, IInv, TypeOK
    <3> QED
      BY Zenon, <3>4, <3>5
  <2> QED
    BY Zenon, <2>1, <2>2
<1>3. PICK from \in Stages, to \in Stages :
        /\ pc[c] = from /\ pc' = [pc EXCEPT ![c] = to]
        /\ \/ from # Verifying /\ to = Verifying /\ permits > 0 /\ permits' = permits - 1
           \/ from = Verifying /\ to # Verifying /\ permits' = permits + 1
  BY Zenon DEF AcquireGate, Verify, Go, Stages, Gate, Verifying, Verified
<1>4. PermitsAreReturned' /\ permits' \in 0 .. Permits
  <2> DEFINE n == Cardinality({d \in Conns : pc[d] = Verifying})
             m == Cardinality({d \in Conns : pc'[d] = Verifying})
  <2>1. n \in Nat /\ m \in Nat /\ permits + n = Permits /\ permits \in 0 .. Permits
    BY Zenon, <1>3, VerifyingCount DEF IInv, TypeOK, PermitsAreReturned
  <2>2. (permits' = permits - 1 /\ permits > 0 /\ m = n + 1)
          \/ (permits' = permits + 1 /\ m = n - 1)
    BY Zenon, <1>3, VerifyingCount
  <2>3. permits' + m = Permits /\ permits' \in 0 .. Permits
    BY <2>1, <2>2
  <2> QED
    BY Zenon, <2>3 DEF PermitsAreReturned
<1>5. TypeOK'
  BY Zenon, <1>1, <1>2, <1>3, <1>4 DEF IInv, TypeOK
<1>6. LengthIsDelay' /\ StampsArePast' /\ ToldCoversKeys'
  BY Zenon, <1>1 DEF IInv, LengthIsDelay, StampsArePast, ToldCoversKeys
<1> QED
  BY Zenon, <1>4, <1>5, <1>6 DEF IInv

\* A failure is recorded for every key of the source.
LEMMA RecordStep ==
    ASSUME IInv, NEW c \in Conns, NEW r \in Delays(c), RecordFailure(c, r)
    PROVE  IInv'
<1>0. stamp[c] \in Nat /\ stamp[c] <= now /\ now \in Nat
  BY Zenon DEF IInv, TypeOK, StampsArePast
<1>1. PICK from \in Stages, to \in Stages :
        /\ pc[c] = from /\ pc' = [pc EXCEPT ![c] = to]
        /\ from # Verifying /\ to # Verifying
  BY Zenon DEF RecordFailure, Go, Stages, Waiting, Recording, Verifying
<1>2. /\ UNCHANGED <<now, permits, revision, password, verified, revision_at_auth>>
      /\ stamp' = [stamp EXCEPT ![c] = 0]
  BY Zenon DEF RecordFailure
<1>3. \A k \in Keys : failures'[k] = IF k \in KeysOf[c] THEN Bumped(k, stamp[c])
                                     ELSE failures[k]
  BY Zenon DEF RecordFailure
<1>4. failures' \in [Keys -> FailureState]
  <2>0. \A k \in Keys : failures[k] \in FailureState
    BY Zenon DEF IInv, TypeOK
  <2>1. \A k \in Keys : failures'[k] \in FailureState
    BY <2>0, <1>0, <1>3, BumpedFacts
  <2> QED
    BY Zenon, <2>1 DEF RecordFailure
<1>5. LengthIsDelay'
  <2>1. ASSUME NEW k \in Keys
        PROVE  /\ failures'[k].retry_until
                     = failures'[k].last_failure + Delay(failures'[k].failures) * Second
               /\ failures'[k].last_failure <= now
    <3>1. CASE k \in KeysOf[c]
      BY <3>1, <1>0, <1>3, BumpedFacts
    <3>2. CASE k \notin KeysOf[c]
      BY Zenon, <3>2, <1>3 DEF IInv, LengthIsDelay
    <3> QED
      BY Zenon, <3>1, <3>2
  <2> QED
    BY Zenon, <2>1, <1>2 DEF LengthIsDelay
<1>6. r \in Nat
  <2>1. PICK k \in KeysOf[c] : r = Delay(Counted(k, stamp[c]) + 1)
    BY Zenon DEF Delays
  <2>2. Counted(k, stamp[c]) + 1 \in Nat
    BY <1>0, BumpedFacts
  <2> QED
    BY <2>1, <2>2, DelayFacts
<1>7. PICK w \in Nat : w = now + r * Second
  BY <1>0, <1>6
<1>8. \A d \in Conns :
        told'[d] = IF d = c THEN w
                   ELSE IF KeysOf[c] \cap KeysOf[d] # {} THEN Never ELSE told[d]
  BY Zenon, <1>7 DEF RecordFailure
<1>9. told' \in [Conns -> Nat \cup {Never}]
  <2>1. \A d \in Conns : told'[d] \in Nat \cup {Never}
    BY Zenon, <1>8 DEF IInv, TypeOK
  <2> QED
    BY Zenon, <2>1 DEF RecordFailure
<1>10. ToldCoversKeys'
  <2> SUFFICES ASSUME NEW d \in Conns, told'[d] # Never, NEW k \in KeysOf[d]
               PROVE  failures'[k].retry_until <= told'[d]
    BY Zenon DEF ToldCoversKeys
  <2>0. k \in Keys
    BY Zenon
  <2>1. CASE d = c
    <3>1. PICK n \in Nat : n = Counted(k, stamp[c]) + 1
      BY <2>0, <1>0, BumpedFacts
    <3>2. failures'[k].retry_until = stamp[c] + Delay(n) * Second
      <4>1. /\ Bumped(k, stamp[c]).retry_until
                    = stamp[c] + Delay(Bumped(k, stamp[c]).failures) * Second
            /\ Bumped(k, stamp[c]).failures = Counted(k, stamp[c]) + 1
        BY Zenon, <2>0, <1>0, BumpedFacts
      <4>2. failures'[k] = Bumped(k, stamp[c])
        BY Zenon, <2>0, <2>1, <1>3
      <4> QED
        BY ONLY Zenon, <3>1, <4>1, <4>2
    <3>3. Delay(n) <= r /\ Delay(n) \in Nat
      <4>1. \A k2 \in KeysOf[c] : Delay(Counted(k2, stamp[c]) + 1) <= r
        BY Zenon DEF RecordFailure, Delays
      <4>2. Delay(n) <= r
        BY Zenon, <4>1, <2>1, <3>1
      <4> QED
        BY <4>2, DelayFacts
    <3>4. Delay(n) * Second <= r * Second
      BY Zenon, <3>3, <1>6, ProductMonotone
    <3>5. Delay(n) * Second \in Nat /\ r * Second \in Nat
      BY <3>3, <1>6
    <3>6. told'[d] = w
      BY Zenon, <1>8, <2>1
    <3> QED
      BY <3>2, <3>4, <3>5, <3>6, <1>7, <1>0
  <2>2. CASE d # c
    <3>1. KeysOf[c] \cap KeysOf[d] = {} /\ told'[d] = told[d]
      BY Zenon, <2>2, <1>8
    <3>2. failures'[k] = failures[k]
      BY Zenon, <3>1, <2>0, <1>3
    <3> QED
      BY Zenon, <3>1, <3>2 DEF IInv, ToldCoversKeys
  <2> QED
    BY Zenon, <2>1, <2>2
<1>11. TypeOK'
  BY Zenon, <1>1, <1>2, <1>4, <1>9 DEF IInv, TypeOK
<1>12. PermitsAreReturned'
  BY Zenon, <1>1, <1>2, VerifyingCount DEF IInv, PermitsAreReturned
<1>13. StampsArePast'
  BY <1>0, <1>2 DEF IInv, TypeOK, StampsArePast
<1> QED
  BY Zenon, <1>5, <1>10, <1>11, <1>12, <1>13 DEF IInv

\* A success forgets the failures of its own address.
LEMMA ClearStep ==
    ASSUME IInv, NEW c \in Conns, ClearSource(c)
    PROVE  IInv'
<1>1. PICK from \in Stages, to \in Stages :
        /\ pc[c] = from /\ pc' = [pc EXCEPT ![c] = to]
        /\ from # Verifying /\ to # Verifying
  BY Zenon DEF ClearSource, Go, Stages, Verified, Cleared, Verifying
<1>2. UNCHANGED <<now, permits, revision, stamp, password, revision_at_auth, told>>
  BY Zenon DEF ClearSource
<1>3. verified' \in [Conns -> BOOLEAN]
  <2>1. verified' = [verified EXCEPT ![c] = FALSE] /\ verified \in [Conns -> BOOLEAN]
    BY Zenon DEF ClearSource, IInv, TypeOK
  <2> QED
    BY <2>1, Zenon
<1>4. \A k \in Keys : failures'[k] = NoFailure \/ failures'[k] = failures[k]
  BY Zenon DEF ClearSource, IInv, TypeOK
<1>5. failures' \in [Keys -> FailureState]
  BY Zenon DEF ClearSource, IInv, TypeOK, NoFailure, FailureState
<1>6. LengthIsDelay'
  <2>1. Delay(0) * Second = 0
    BY DEF Delay
  <2> QED
    BY SMTT(40), <2>1, <1>2, <1>4 DEF IInv, TypeOK, LengthIsDelay, NoFailure
<1>7. StampsArePast' /\ ToldCoversKeys'
  BY SMTT(40), <1>2, <1>4 DEF IInv, TypeOK, StampsArePast, ToldCoversKeys, NoFailure
<1>8. TypeOK'
  BY Zenon, <1>1, <1>2, <1>3, <1>5 DEF IInv, TypeOK
<1>9. PermitsAreReturned'
  BY Zenon, <1>1, <1>2, VerifyingCount DEF IInv, PermitsAreReturned
<1> QED
  BY Zenon, <1>6, <1>7, <1>8, <1>9 DEF IInv

\* The credentials change, or time passes.
LEMMA WorldSteps ==
    ASSUME IInv, ChangeCredentials \/ Tick
    PROVE  IInv'
<1>1. UNCHANGED <<failures, permits, pc, stamp, password, verified, revision_at_auth, told>>
  BY Zenon DEF ChangeCredentials, Tick
<1>2. TypeOK' /\ now' >= now /\ now \in Nat /\ now' \in Nat
  BY SMTT(40), <1>1 DEF IInv, TypeOK, ChangeCredentials, Tick
<1>3. LengthIsDelay'
  BY SMTT(40), <1>1, <1>2 DEF IInv, TypeOK, LengthIsDelay, FailureState
<1>4. StampsArePast' /\ ToldCoversKeys' /\ PermitsAreReturned'
  BY <1>1, <1>2 DEF IInv, TypeOK, StampsArePast, ToldCoversKeys, PermitsAreReturned
<1> QED
  BY Zenon, <1>2, <1>3, <1>4 DEF IInv

\* One step of a login, a session, the clock or the credential.
LEMMA StepIInv == IInv /\ [Next]_vars => IInv'
<1> SUFFICES ASSUME IInv, [Next]_vars PROVE IInv'
  BY Zenon
<1>1. CASE ChangeCredentials \/ Tick
  BY Zenon, <1>1, WorldSteps
<1>2. ASSUME NEW c \in Conns,
             \/ Open(c) \/ Refuse(c) \/ Close(c)
             \/ \E p \in 0 .. revision : LoginRequest(c, p)
      PROVE  IInv'
  BY Zenon, <1>2, QuietSteps, StampSteps
<1>3. ASSUME NEW c \in Conns, Step(c) PROVE IInv'
  <2>1. CASE Busy(c) \/ BindRevision(c) \/ SecondTimer(c)
               \/ \E outcome \in Stages : Configure(c, outcome)
    BY Zenon, <2>1, QuietSteps
  <2>2. CASE Reject(c)
    BY Zenon, <2>2, StampSteps
  <2>3. CASE PassBackoff(c) \/ \E r \in Waits(KeysOf[c], stamp[c]) : Blocked(c, r)
    BY Zenon, <2>3, CheckSteps
  <2>4. CASE AcquireGate(c) \/ Verify(c)
    BY Zenon, <2>4, GateSteps
  <2>5. CASE \E r \in Delays(c) : RecordFailure(c, r)
    BY Zenon, <2>5, RecordStep
  <2>6. CASE ClearSource(c)
    BY Zenon, <2>6, ClearStep
  <2> QED
    BY Zenon, <1>3, <2>1, <2>2, <2>3, <2>4, <2>5, <2>6 DEF Step
<1>4. CASE UNCHANGED vars
  BY Zenon, <1>4 DEF vars, IInv, TypeOK, PermitsAreReturned, LengthIsDelay, StampsArePast,
     ToldCoversKeys
<1> QED
  BY Zenon, <1>1, <1>2, <1>3, <1>4 DEF Next

-----------------------------------------------------------------------------
\* The inductive invariant holds in every reachable state.
THEOREM Invariance == Spec => []IInv
  BY InitIInv, StepIInv, PTL DEF Spec

\* Every variable keeps its type; in particular the free permits of the gate
\* never exceed the gate's (LAN_AUTH_GATE of login_failure_check.rs).
THEOREM TypeCorrect == Spec => []TypeOK
<1>1. IInv => TypeOK
  BY Zenon DEF IInv
<1> QED
  BY <1>1, Invariance, PTL

\* The permits of the gate are never lost or made up, whatever the order in
\* which verifications start and end (`_permit` in handle_lan_login_request).
THEOREM GateIsConserved == Spec => []PermitsAreReturned
<1>1. IInv => PermitsAreReturned
  BY Zenon DEF IInv
<1> QED
  BY <1>1, Invariance, PTL

\* A peer that waits as long as it was told is not blocked again by its own
\* failures (`retry_after_seconds`), for every rounding and every delay.
THEOREM WaitingAsToldSuffices == Spec => []RetryAfterIsEnough
<1>1. ASSUME IInv PROVE RetryAfterIsEnough
  <2> SUFFICES ASSUME NEW c \in Conns, told[c] # Never, now >= told[c],
                      NEW k \in KeysOf[c]
               PROVE  Remaining(failures[k].retry_until, now) = 0
    BY Zenon DEF RetryAfterIsEnough, Waits
  <2>1. k \in Keys /\ failures[k].retry_until \in Nat /\ now \in Nat /\ told[c] \in Nat
    BY Zenon, <1>1 DEF IInv, TypeOK, FailureState
  <2>2. failures[k].retry_until <= now
    BY <1>1, <2>1 DEF IInv, ToldCoversKeys
  <2> QED
    BY Zenon, <2>1, <2>2, RemainingFacts
<1> QED
  BY <1>1, Invariance, PTL

\* No step moves the end of a back-off that still runs earlier, but a success
\* from the very address and a failure recorded with an older reading of the
\* clock, and the latter by no more than the readings are apart
\* (record_lan_auth_failure_at, clear_lan_auth_source).
THEOREM BackoffsStand == Spec => BackoffStands
<1> DEFINE Stands(k) ==
      \/ failures'[k].retry_until >= failures[k].retry_until
      \/ ClearedByOwner(k)
      \/ RecordedLate(k)
<1>1. ASSUME IInv, [Next]_vars, NEW k \in Keys, failures[k].retry_until > now
      PROVE  Stands(k)
  <2>0. /\ failures[k].retry_until \in Nat /\ failures[k].last_failure \in Nat
        /\ failures[k].failures \in Nat
        /\ failures[k].retry_until - failures[k].last_failure
             = Delay(failures[k].failures) * Second
    <3>1. failures[k] \in FailureState
      BY Zenon, <1>1 DEF IInv, TypeOK
    <3>2. Delay(failures[k].failures) * Second \in Nat
      BY <3>1, DelayFacts DEF FailureState
    <3> QED
      BY SMTT(40), <1>1, <3>1, <3>2 DEF IInv, LengthIsDelay, FailureState
  <2>1. CASE failures'[k] = failures[k]
    BY <2>0, <2>1
  <2>2. ASSUME NEW c \in Conns, failures' = Retained(stamp[c])
        PROVE  Stands(k)
    <3>1. stamp[c] \in Nat /\ stamp[c] <= now
      BY Zenon, <1>1 DEF IInv, TypeOK, StampsArePast
    <3>2. failures'[k] = failures[k]
      BY Zenon, <1>1, <2>2, <3>1, RetainedFacts
    <3> QED
      BY Zenon, <3>2, <2>1
  <2>3. ASSUME NEW c \in Conns, NEW r \in Delays(c), RecordFailure(c, r)
        PROVE  Stands(k)
    <3>1. stamp[c] \in Nat /\ stamp[c] <= now
      BY Zenon, <1>1 DEF IInv, TypeOK, StampsArePast
    <3>2. CASE k \notin KeysOf[c]
      BY Zenon, <3>2, <2>1, <2>3 DEF RecordFailure
    <3>3. CASE k \in KeysOf[c]
      <4>1. failures'[k] = Bumped(k, stamp[c])
        BY Zenon, <3>3, <2>3 DEF RecordFailure
      <4>2. Counted(k, stamp[c]) = failures[k].failures
        BY Zenon, <1>1, <3>1, PendingIsLive
      <4>3. PICK n \in Nat : n = failures[k].failures
        BY Zenon, <2>0
      <4>4. /\ failures'[k].last_failure = stamp[c]
            /\ failures'[k].retry_until = stamp[c] + Delay(n + 1) * Second
        <5>1. /\ Bumped(k, stamp[c]).last_failure = stamp[c]
              /\ Bumped(k, stamp[c]).retry_until
                    = stamp[c] + Delay(Bumped(k, stamp[c]).failures) * Second
              /\ Bumped(k, stamp[c]).failures = Counted(k, stamp[c]) + 1
          BY Zenon, <1>1, <3>1, BumpedFacts
        <5> QED
          BY ONLY Zenon, <4>1, <4>2, <4>3, <5>1
      <4>5. Delay(n) \in Nat /\ Delay(n + 1) \in Nat /\ Delay(n) <= Delay(n + 1)
        BY DelayFacts
      <4>6. Delay(n) * Second <= Delay(n + 1) * Second
        BY Zenon, <4>5, ProductMonotone
      <4>7. Delay(n) * Second \in Nat /\ Delay(n + 1) * Second \in Nat
        BY <4>5
      <4>8. PICK old \in Nat, new \in Nat :
              old = Delay(n) * Second /\ new = Delay(n + 1) * Second
        BY Zenon, <4>7
      <4>9. /\ failures[k].retry_until - failures[k].last_failure = old
            /\ failures'[k].retry_until = stamp[c] + new
            /\ old <= new
        BY ONLY Zenon, <2>0, <4>3, <4>4, <4>6, <4>8
      <4>10. CASE stamp[c] >= failures[k].last_failure
        <5>1. failures'[k].retry_until >= failures[k].retry_until
          BY <2>0, <3>1, <4>9, <4>10
        <5> QED
          BY Zenon, <5>1
      <4>11. CASE stamp[c] < failures[k].last_failure
        <5>1. failures[k].retry_until - failures'[k].retry_until
                <= failures[k].last_failure - stamp[c]
          BY <2>0, <3>1, <4>9
        <5>2. pc[c] = Recording /\ pc'[c] = Waiting
          BY Zenon, <1>1, <2>3 DEF RecordFailure, Go, IInv, TypeOK
        <5>3. RecordedLate(k)
          BY Zenon, <3>3, <4>11, <5>1, <5>2 DEF RecordedLate
        <5> QED
          BY Zenon, <5>3
      <4>12. stamp[c] >= failures[k].last_failure \/ stamp[c] < failures[k].last_failure
        BY <2>0, <3>1
      <4> QED
        BY Zenon, <4>10, <4>11, <4>12
    <3> QED
      BY Zenon, <3>2, <3>3
  <2>4. ASSUME NEW c \in Conns, ClearSource(c)
        PROVE  Stands(k)
    <3>1. CASE k = IpOf[c]
      BY Zenon, <1>1, <3>1, <2>4 DEF ClearedByOwner, ClearSource, Go, IInv, TypeOK
    <3>2. CASE k # IpOf[c]
      BY Zenon, <1>1, <3>2, <2>1, <2>4 DEF ClearSource, IInv, TypeOK
    <3> QED
      BY Zenon, <3>1, <3>2
  <2>5. \/ failures' = failures
        \/ \E c \in Conns :
            \/ failures' = Retained(stamp[c])
            \/ \E r \in Delays(c) : RecordFailure(c, r)
            \/ ClearSource(c)
    BY Zenon, <1>1 DEF Next, Step, vars, Tick, ChangeCredentials, Open, Refuse, Close,
       LoginRequest, PassBackoff, Blocked, AcquireGate, Busy, Verify, Reject, BindRevision,
       Configure, SecondTimer
  <2> QED
    BY Zenon, <2>1, <2>2, <2>3, <2>4, <2>5
<1>2. IInv /\ [Next]_vars =>
        [\A k \in Keys : failures[k].retry_until > now => Stands(k)]_vars
  BY Zenon, <1>1
<1> QED
  BY <1>2, Invariance, PTL DEF Spec, BackoffStands
=============================================================================
