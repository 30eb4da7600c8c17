-------------------------- MODULE PrivacyModeProofs --------------------------
(***************************************************************************)
(* Proofs about PrivacyMode for any connections and implementations: its   *)
(* type, who may end the mode of another connection, and that the mode     *)
(* ends with its connection.                                               *)
(***************************************************************************)
EXTENDS PrivacyMode, TLAPS

\* The mutex is held exactly while a thread is turning the mode on, and the
\* mode is off then.
LockIsHeld ==
    /\ \A c \in Conns : worker[c] = "hold" <=> lock = c
    /\ lock # None => owner = None

\* The steps after the teardown of the mode.
Ending == {"drop", "count", "reset", "gone"}

\* Who has ended and still has the mode: what EndsWithConnection says, and of a
\* connection that has looked and found nothing to turn off.
NoHolderLeft ==
    \A c \in Conns :
        conn[c] \in Ending =>
            /\ worker[c] \in {"start", "hold"} => c \in outlived
            /\ owner = c => c \in kept \cup outlived

\* A thread belongs to a request; while the connection waits for the outcome of
\* a thread's work it has not ended.
ClosingIsQuiet ==
    \A c \in Conns :
        /\ conn[c] = "close_off" /\ worker[c] \in {"start", "hold"} => c \in outlived
        /\ conn[c] = "ask" => worker[c] = "none"

IInv == TypeOK /\ LockIsHeld /\ OthersEndItOnFailure /\ NoHolderLeft /\ ClosingIsQuiet

\* Initially nobody has the mode and nothing is at work.
LEMMA InitIInv == Init => IInv
BY PrivacyAssumption DEF Init, IInv, TypeOK, LockIsHeld, OthersEndItOnFailure,
   OnlyOwnerTurnsOff, NoHolderLeft, ClosingIsQuiet, Ending,
   ConnSteps, WorkerSteps, Results

\* A connection's step that only moves its task, and what it has got from its
\* thread, without taking the mode or starting a thread after the end.
LEMMA TaskMoves ==
    ASSUME IInv, NEW c \in Conns,
           UNCHANGED <<mode, lock, ended, kept>>, TypeOK',
           \A d \in Conns \ {c} : conn'[d] = conn[d] /\ worker'[d] = worker[d],
           outlived \subseteq outlived', worker'[c] = "hold" <=> worker[c] = "hold",
           conn'[c] \in Ending \cup {"close_off"} /\ worker'[c] \in {"start", "hold"}
               => c \in outlived',
           conn'[c] \in Ending /\ owner = c => c \in kept \cup outlived',
           conn'[c] = "ask" => worker'[c] = "none"
    PROVE  IInv'
<1>1. LockIsHeld'
  BY DEF IInv, TypeOK, LockIsHeld, mode
<1>2. OthersEndItOnFailure'
  BY DEF IInv, OthersEndItOnFailure, OnlyOwnerTurnsOff, mode
<1>3. NoHolderLeft'
  BY DEF IInv, TypeOK, NoHolderLeft, Ending, mode
<1>4. ClosingIsQuiet'
  BY DEF IInv, TypeOK, ClosingIsQuiet, Ending, mode
<1> QED BY <1>1, <1>2, <1>3, <1>4 DEF IInv

\* Turning the mode off, whoever asks: by the owner, by the host, after a
\* failure or by the last remote connection.
LEMMA TurnOffKeepsIInv ==
    ASSUME IInv, NEW c \in Conns \cup {None}, NEW id \in Conns \cup {None},
           TurnOff(id, c), UNCHANGED <<req, worker, outlived, requests>>,
           conn' \in [Conns -> ConnSteps],
           c # None => (id = c \/ conn[c] \in {"force", "reset"}),
           \A d \in Conns :
               /\ conn'[d] \in Ending =>
                      conn[d] \in Ending \/ (conn[d] = "close_off" /\ id = d)
               /\ conn'[d] = "close_off" => conn[d] = "close_off"
               /\ conn'[d] = "ask" => conn[d] = "ask"
    PROVE  IInv'
<1>1. TypeOK' /\ owner' \in {owner, None}
  BY PrivacyAssumption DEF IInv, TypeOK, TurnOff, EndedBy
<1>2. LockIsHeld'
  BY PrivacyAssumption DEF IInv, TypeOK, LockIsHeld, TurnOff
<1>3. OthersEndItOnFailure'
  <2>1. CASE ended' = ended
    BY <2>1 DEF IInv, OthersEndItOnFailure, OnlyOwnerTurnsOff
  <2>2. CASE ended' # ended
    <3>1. CheckOff(id) /\ owner # None /\ ended' = EndedBy(c)
      BY <2>2 DEF TurnOff, EndedBy
    <3>2. CASE c = None
      BY <3>1, <3>2 DEF EndedBy, OthersEndItOnFailure, OnlyOwnerTurnsOff
    <3>3. CASE c # None /\ id = c
      BY <3>1, <3>3 DEF EndedBy, CheckOff, OthersEndItOnFailure, OnlyOwnerTurnsOff
    <3>4. CASE c # None /\ conn[c] \in {"force", "reset"}
      BY <3>1, <3>4 DEF EndedBy, OthersEndItOnFailure, OnlyOwnerTurnsOff
    <3> QED BY <3>2, <3>3, <3>4
  <2> QED BY <2>1, <2>2
<1>4. NoHolderLeft'
  <2> SUFFICES ASSUME NEW d \in Conns, conn'[d] \in Ending
               PROVE  /\ worker[d] \in {"start", "hold"} => d \in outlived
                      /\ owner' = d => d \in kept' \cup outlived
    BY DEF NoHolderLeft
  <2>1. worker[d] \in {"start", "hold"} => d \in outlived
    BY DEF IInv, NoHolderLeft, ClosingIsQuiet
  <2>2. kept \subseteq kept'
    BY DEF TurnOff
  <2>3. CASE conn[d] \in Ending
    BY <1>1, <2>1, <2>2, <2>3, PrivacyAssumption DEF IInv, NoHolderLeft
  <2>4. CASE conn[d] = "close_off" /\ id = d
    BY <2>1, <2>4, PrivacyAssumption DEF TurnOff, CheckOff
  <2> QED BY <2>3, <2>4
<1>5. ClosingIsQuiet'
  BY DEF IInv, ClosingIsQuiet
<1> QED BY <1>1, <1>2, <1>3, <1>4, <1>5 DEF IInv

\* The steps that do not touch the object.
LEMMA MovesKeepIInv ==
    ASSUME IInv, NEW c \in Conns,
           \/ Open(c) \/ IsAsync(c) \/ Timeout(c) \/ TurnOnResult(c)
           \/ CheckPasses(c) \/ CheckFails(c) \/ TurnOnFailed(c) \/ Close(c)
           \/ CloseLooks(c) \/ DropAuthed(c) \/ CountAuthed(c) \/ DropResult(c)
           \/ \E k \in Impls : TogglePrivacyMode(c, k)
    PROVE  IInv'
<1> USE PrivacyAssumption DEF Goto, mode, ghosts, ConnSteps, WorkerSteps, Results, Ending
<1>0. /\ TypeOK
      /\ worker[c] = "hold" => lock = c
      /\ conn[c] \in Ending => /\ worker[c] \in {"start", "hold"} => c \in outlived
                               /\ owner = c => c \in kept \cup outlived
      /\ conn[c] = "close_off" /\ worker[c] \in {"start", "hold"} => c \in outlived
      /\ conn[c] = "ask" => worker[c] = "none"
  BY DEF IInv, LockIsHeld, NoHolderLeft, ClosingIsQuiet
<1>1. CASE Open(c)
  <2>1. TypeOK' BY <1>0, <1>1 DEF TypeOK, Open
  <2> QED BY <1>0, <1>1, <2>1, TaskMoves DEF TypeOK, Open
<1>2. CASE IsAsync(c)
  <2>1. TypeOK' BY <1>0, <1>2 DEF TypeOK, IsAsync
  <2> QED BY <1>0, <1>2, <2>1, TaskMoves DEF TypeOK, IsAsync
<1>3. CASE Timeout(c)
  <2>1. TypeOK' BY <1>0, <1>3 DEF TypeOK, Timeout
  <2> QED BY <1>0, <1>3, <2>1, TaskMoves DEF TypeOK, Timeout
<1>4. CASE TurnOnResult(c)
  <2>1. TypeOK' BY <1>0, <1>4 DEF TypeOK, TurnOnResult
  <2> QED BY <1>0, <1>4, <2>1, TaskMoves DEF TypeOK, TurnOnResult
<1>5. CASE CheckPasses(c)
  <2>1. TypeOK' BY <1>0, <1>5 DEF TypeOK, CheckPasses
  <2> QED BY <1>0, <1>5, <2>1, TaskMoves DEF TypeOK, CheckPasses
<1>6. CASE CheckFails(c)
  <2>1. TypeOK' BY <1>0, <1>6 DEF TypeOK, CheckFails
  <2> QED BY <1>0, <1>6, <2>1, TaskMoves DEF TypeOK, CheckFails
<1>7. CASE TurnOnFailed(c)
  <2>1. TypeOK' BY <1>0, <1>7 DEF TypeOK, TurnOnFailed
  <2> QED BY <1>0, <1>7, <2>1, TaskMoves DEF TypeOK, TurnOnFailed
<1>8. CASE Close(c)
  <2>1. TypeOK' BY <1>0, <1>8 DEF TypeOK, Close
  <2> QED BY <1>0, <1>8, <2>1, TaskMoves DEF TypeOK, Close
<1>9. CASE CloseLooks(c)
  <2>1. TypeOK' BY <1>0, <1>9 DEF TypeOK, CloseLooks
  <2> QED BY <1>0, <1>9, <2>1, TaskMoves DEF TypeOK, CloseLooks
<1>10. CASE DropAuthed(c)
  <2>1. TypeOK' BY <1>0, <1>10 DEF TypeOK, DropAuthed
  <2> QED BY <1>0, <1>10, <2>1, TaskMoves DEF TypeOK, DropAuthed
<1>11. CASE DropResult(c)
  <2>1. TypeOK' BY <1>0, <1>11 DEF TypeOK, DropResult
  <2> QED BY <1>0, <1>11, <2>1, TaskMoves DEF TypeOK, DropResult
<1>12. CASE \E k \in Impls : TogglePrivacyMode(c, k)
  <2>1. TypeOK' BY <1>0, <1>12 DEF TypeOK, TogglePrivacyMode
  <2> QED BY <1>0, <1>12, <2>1, TaskMoves DEF TypeOK, TogglePrivacyMode
<1>13. CASE CountAuthed(c)
  <2>1. TypeOK' BY <1>0, <1>13 DEF TypeOK, CountAuthed
  <2> QED BY <1>0, <1>13, <2>1, TaskMoves DEF TypeOK, CountAuthed
<1> QED BY <1>1, <1>2, <1>3, <1>4, <1>5, <1>6, <1>7, <1>8, <1>9, <1>10, <1>11, <1>12,
           <1>13

\* Those that turn the mode off.
LEMMA OffsKeepIInv ==
    ASSUME IInv, NEW c \in Conns,
           \/ Undo(c) \/ ForceOff(c) \/ TurnOffPrivacy(c) \/ CloseOff(c) \/ ResetAll(c)
    PROVE  IInv'
<1> USE PrivacyAssumption DEF Goto, ConnSteps, Ending
<1>0. TypeOK BY DEF IInv
<1>1. CASE Undo(c)
  BY <1>0, <1>1, TurnOffKeepsIInv DEF TypeOK, Undo
<1>2. CASE ForceOff(c)
  BY <1>0, <1>2, TurnOffKeepsIInv DEF TypeOK, ForceOff
<1>3. CASE TurnOffPrivacy(c)
  BY <1>0, <1>3, TurnOffKeepsIInv DEF TypeOK, TurnOffPrivacy
<1>4. CASE CloseOff(c)
  BY <1>0, <1>4, TurnOffKeepsIInv DEF TypeOK, CloseOff
<1>5. CASE ResetAll(c)
  BY <1>0, <1>5, TurnOffKeepsIInv DEF TypeOK, ResetAll
<1> QED BY <1>1, <1>2, <1>3, <1>4, <1>5

\* Turning the mode on: the thread takes the mutex, ...
LEMMA AcquireKeepsIInv ==
    ASSUME IInv, NEW c \in Conns, AcquireOn(c)
    PROVE  IInv'
<1> USE PrivacyAssumption DEF mode, WorkerSteps, Results, AcquireOn, EndedBy
<1>1. TypeOK'
  BY DEF IInv, TypeOK
<1>2. LockIsHeld'
  BY DEF IInv, TypeOK, LockIsHeld
<1>3. OthersEndItOnFailure'
  BY DEF IInv, OthersEndItOnFailure, OnlyOwnerTurnsOff
<1>4. NoHolderLeft'
  BY DEF IInv, TypeOK, NoHolderLeft
<1>5. ClosingIsQuiet'
  BY DEF IInv, TypeOK, ClosingIsQuiet
<1> QED BY <1>1, <1>2, <1>3, <1>4, <1>5 DEF IInv

\* ... and the platform's outcome decides who has the mode.
LEMMA FinishKeepsIInv ==
    ASSUME IInv, NEW c \in Conns, FinishOn(c)
    PROVE  IInv'
<1> USE PrivacyAssumption DEF ghosts, WorkerSteps, Results, FinishOn
<1>1. TypeOK'
  BY DEF IInv, TypeOK
<1>2. LockIsHeld'
  BY DEF IInv, TypeOK, LockIsHeld
<1>3. OthersEndItOnFailure'
  BY DEF IInv, OthersEndItOnFailure, OnlyOwnerTurnsOff
<1>4. NoHolderLeft'
  BY DEF IInv, TypeOK, NoHolderLeft
<1>5. ClosingIsQuiet'
  BY DEF IInv, TypeOK, ClosingIsQuiet
<1> QED BY <1>1, <1>2, <1>3, <1>4, <1>5 DEF IInv

\* What the host's user does.
LEMMA HostKeepsIInv ==
    ASSUME IInv, HostStep
    PROVE  IInv'
<1>1. CASE HostTurnsOff
  BY <1>1, PrivacyAssumption, TurnOffKeepsIInv DEF HostTurnsOff, tasks, IInv, TypeOK, Ending
<1>2. CASE \E k \in Impls : Switch(k)
  <2> USE <1>2, PrivacyAssumption DEF Switch, tasks, EndedBy
  <2>1. TypeOK'
    BY DEF IInv, TypeOK
  <2>2. LockIsHeld'
    BY DEF IInv, TypeOK, LockIsHeld
  <2>3. OthersEndItOnFailure'
    BY DEF IInv, OthersEndItOnFailure, OnlyOwnerTurnsOff
  <2>4. NoHolderLeft'
    BY DEF IInv, NoHolderLeft
  <2>5. ClosingIsQuiet'
    BY DEF IInv, ClosingIsQuiet
  <2> QED BY <2>1, <2>2, <2>3, <2>4, <2>5 DEF IInv
<1> QED BY <1>1, <1>2 DEF HostStep

\* Every step of the specification keeps the invariant.
LEMMA NextIInv == IInv /\ [Next]_vars => IInv'
<1> SUFFICES ASSUME IInv, [Next]_vars PROVE IInv'
  OBVIOUS
<1>1. CASE HostStep
  BY <1>1, HostKeepsIInv
<1>2. ASSUME NEW c \in Conns, TaskStep(c) \/ WorkerStep(c) \/ PeerStep(c)
      PROVE  IInv'
  BY <1>2, MovesKeepIInv, OffsKeepIInv, AcquireKeepsIInv, FinishKeepsIInv
     DEF TaskStep, WorkerStep, PeerStep
<1>3. CASE UNCHANGED vars
  BY <1>3 DEF vars, mode, tasks, ghosts, IInv, TypeOK, LockIsHeld, NoHolderLeft,
     ClosingIsQuiet, OthersEndItOnFailure, OnlyOwnerTurnsOff
<1> QED BY <1>1, <1>2, <1>3 DEF Next

\* The invariant holds in every reachable state.
THEOREM Invariance == Spec => []IInv
BY InitIInv, NextIInv, PTL DEF Spec

\* The variables keep their types, whatever the connections and the platform do.
THEOREM TypeCorrect == Spec => []TypeOK
<1>1. IInv => TypeOK BY DEF IInv
<1> QED BY <1>1, Invariance, PTL

\* A connection that ends the mode of another one (turn_off_privacy in
\* src/privacy_mode.rs) has failed to turn it on or found no remote one left.
THEOREM OthersEndOnlyOnFailure == Spec => []OthersEndItOnFailure
<1>1. IInv => OthersEndItOnFailure BY DEF IInv
<1> QED BY <1>1, Invariance, PTL

\* The mode ends with its connection (the teardown of Connection::start), unless
\* the platform failed or a thread was still turning it on.
THEOREM ModeEndsWithConnection == Spec => []EndsWithConnection
<1>1. IInv => EndsWithConnection
  BY DEF IInv, NoHolderLeft, EndsWithConnection, Ending
<1> QED BY <1>1, Invariance, PTL
=============================================================================
