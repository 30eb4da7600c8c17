-------------------------- MODULE LanServerProofs --------------------------
(***************************************************************************)
(* Proofs about LanServer for any addresses, any number of settings        *)
(* threads and any number of restarts.                                     *)
(***************************************************************************)
EXTENDS LanServer, FiniteSetTheorems, TLAPS

\* No round overlaps the next, and the generation only grows.
RoundOK ==
    /\ RoundsDoNotOverlap
    /\ sup.gen <= generation

Bound == {"web", "active", "listening", "watch"}

\* From the moment the addresses are bound: if no restart was requested since
\* the generation was read and no thread is about to request one, they are
\* still the configured ones.
BoundIsConfigured ==
    /\ sup.at \in Bound
    /\ sup.gen = generation
    /\ \A w \in Writers : writer[w].at \in {"idle", "status"}
    => /\ bound = config.addrs
       /\ WebGateway \in tasks => config.web

IndInv == TypeOK /\ RoundOK /\ BoundIsConfigured

\* The listeners bound for a set of addresses are finitely many.
LEMMA ListenersFinite ==
    ASSUME LanServerAssumption, NEW addrs \in SUBSET Addrs
    PROVE  Cardinality(Listeners(addrs)) \in Nat
<1>1. IsFiniteSet(addrs) /\ IsFiniteSet({AnyAddr})
  BY FS_Subset, FS_Singleton DEF LanServerAssumption
<1>2. IsFiniteSet(Listeners(addrs))
  BY <1>1 DEF Listeners
<1> QED
  BY <1>2, FS_CardinalityType

\* The default configuration is one.
LEMMA NoConfigType == LanServerAssumption => NoConfig \in Config
  BY DEF LanServerAssumption, NoConfig, Config

\* A supervisor that has not started a round.
LEMMA InitIndInv == LanServerAssumption /\ Init => IndInv
<1> SUFFICES ASSUME LanServerAssumption, Init PROVE IndInv
  OBVIOUS
<1>1. config \in Config /\ writer \in [Writers -> [at : WriterSteps, new : Config]]
  BY NoConfigType DEF Init, WriterSteps
<1>2. sup \in [at : SupSteps, gen : Nat,
               sig : [addrs : SUBSET Addrs, nets : Networks, web : BOOLEAN]]
  BY <1>1 DEF Init, SupSteps, ListenerSignature, Config
<1>3. TypeOK
  BY <1>1, <1>2 DEF Init, TypeOK
<1> QED
  BY <1>3 DEF Init, IndInv, RoundOK, RoundsDoNotOverlap, BoundIsConfigured, Bound

\* A settings thread that writes an option still has its restart to request.
LEMMA WriterPreservesIndInv ==
    ASSUME IndInv, LanServerAssumption, NEW w \in Writers,
           \/ \E new \in Config : ApplySettings(w, new) \/ SetOptions(w, new)
           \/ WriterStep(w)
    PROVE  IndInv'
<1>1. /\ config \in Config /\ generation \in Nat
      /\ writer \in [Writers -> [at : WriterSteps, new : Config]]
  BY DEF IndInv, TypeOK
<1>2. UNCHANGED <<active, sup, bound, stop, tasks, peers>>
  BY DEF ApplySettings, SetOptions, WriterStep, WriteOption, RestartGeneration,
         RestartStatus, OnlyWrites
<1>3. ASSUME config' \in Config, generation' = generation, status' = status,
             writer' \in [Writers -> [at : WriterSteps, new : Config]],
             writer'[w].at \notin {"idle", "status"}
      PROVE  IndInv'
  BY <1>2, <1>3 DEF IndInv, TypeOK, RoundOK, RoundsDoNotOverlap, BoundIsConfigured
<1>4. ASSUME NEW new \in Config, ApplySettings(w, new) PROVE IndInv'
  <2>1. config' \in Config
    BY <1>1, <1>4 DEF ApplySettings, Config
  <2>2. /\ writer' \in [Writers -> [at : WriterSteps, new : Config]]
        /\ writer'[w].at = "addrs"
    BY <1>1, <1>4 DEF ApplySettings, WriterSteps
  <2> QED
    BY <1>3, <1>4, <2>1, <2>2 DEF ApplySettings
<1>5. ASSUME NEW new \in Config, SetOptions(w, new) PROVE IndInv'
  <2>1. /\ writer' \in [Writers -> [at : WriterSteps, new : Config]]
        /\ writer'[w].at = "bump"
    BY <1>1, <1>5 DEF SetOptions, Goto, WriterSteps
  <2> QED
    BY <1>3, <1>5, <2>1 DEF SetOptions
<1>6. ASSUME WriteOption(w) PROVE IndInv'
  <2>1. writer[w].new \in Config /\ NoConfig \in Config
    BY <1>1, NoConfigType
  <2>2. config' \in Config
    BY <1>1, <1>6, <2>1 DEF WriteOption, Config
  <2>3. /\ writer' \in [Writers -> [at : WriterSteps, new : Config]]
        /\ writer'[w].at \notin {"idle", "status"}
    <3>1. CASE writer[w].at = "web"
      <4>1. writer' = [writer EXCEPT ![w] = [at |-> "start", new |-> NoConfig]]
        BY <1>6, <3>1 DEF WriteOption
      <4> QED
        BY <1>1, <2>1, <4>1 DEF WriterSteps
    <3>2. CASE writer[w].at # "web"
      <4>1. \E at \in {"nets", "web", "bump"} :
               writer' = [writer EXCEPT ![w].at = at]
        BY <1>6, <3>2 DEF WriteOption, Goto
      <4> QED
        BY <1>1, <4>1 DEF WriterSteps
    <3> QED
      BY <3>1, <3>2
  <2> QED
    BY <1>3, <1>6, <2>2, <2>3 DEF WriteOption
<1>7. ASSUME RestartGeneration(w) PROVE IndInv'
  <2>1. /\ writer' \in [Writers -> [at : WriterSteps, new : Config]]
        /\ generation' = generation + 1 /\ UNCHANGED <<config, status>>
    BY <1>1, <1>7 DEF RestartGeneration, Goto, WriterSteps
  <2>2. sup.gen \in Nat /\ sup.gen <= generation
    BY DEF IndInv, TypeOK, RoundOK
  <2>3. sup.gen <= generation' /\ sup.gen # generation' /\ generation' \in Nat
    BY <1>1, <2>1, <2>2
  <2> QED
    BY <1>2, <2>1, <2>3
       DEF IndInv, TypeOK, RoundOK, RoundsDoNotOverlap, BoundIsConfigured
<1>8. ASSUME RestartStatus(w) PROVE IndInv'
  <2>1. /\ writer' \in [Writers -> [at : WriterSteps, new : Config]]
        /\ \A v \in Writers : writer'[v].at \in {"idle", "status"} =>
                                 writer[v].at \in {"idle", "status"}
    BY <1>1, <1>8 DEF RestartStatus, Goto, WriterSteps
  <2> QED
    BY <1>2, <1>8, <2>1 DEF RestartStatus, IndInv, TypeOK, RoundOK,
                            RoundsDoNotOverlap, BoundIsConfigured
<1> QED
  BY <1>4, <1>5, <1>6, <1>7, <1>8 DEF WriterStep

\* One step of `lan_server::start`.
LEMMA SupPreservesIndInv ==
    ASSUME IndInv, LanServerAssumption, SupStep
    PROVE  IndInv'
<1> USE DEF OnlySupervises, At
<1>1. /\ UNCHANGED <<config, generation, writer, peers>>
      /\ config \in Config /\ generation \in Nat /\ bound \subseteq Addrs
      /\ sup \in [at : SupSteps, gen : Nat,
                  sig : [addrs : SUBSET Addrs, nets : Networks, web : BOOLEAN]]
  BY DEF IndInv, TypeOK, SupStep, ReadGeneration, ReadSignature, CheckReady,
         SetStopped, BindListeners, BindFails, SetFailed, SpawnListeners,
         SetActive, SetListening, Watch, SendStop, SetInactive, SetRestarting,
         Drain
<1>2. ASSUME ReadGeneration \/ ReadSignature PROVE IndInv'
  <2>1. ListenerSignature \in [addrs : SUBSET Addrs, nets : Networks, web : BOOLEAN]
    BY <1>1 DEF ListenerSignature, Config
  <2>2. /\ sup' \in [at : SupSteps, gen : Nat,
                     sig : [addrs : SUBSET Addrs, nets : Networks, web : BOOLEAN]]
        /\ sup'.gen <= generation /\ sup'.at \in {"sign", "ready"}
        /\ tasks' = tasks /\ sup.at \in {"top", "sign"}
    <3>1. CASE ReadGeneration
      <4>1. sup' = [sup EXCEPT !.at = "sign", !.gen = generation]
        BY <3>1 DEF ReadGeneration
      <4>2. generation <= generation
        BY <1>1
      <4> QED
        BY <1>1, <3>1, <4>1, <4>2 DEF ReadGeneration, SupSteps
    <3>2. CASE ReadSignature
      BY <1>1, <2>1, <3>2 DEF ReadSignature, SupSteps, IndInv, RoundOK
    <3> QED
      BY <1>2, <3>1, <3>2
  <2>3. TypeOK'
    BY <1>1, <1>2, <2>2 DEF ReadGeneration, ReadSignature, IndInv, TypeOK
  <2> QED
    BY <1>1, <2>2, <2>3 DEF IndInv, RoundOK, RoundsDoNotOverlap,
       BoundIsConfigured, Bound
<1>3. ASSUME CheckReady \/ SetStopped \/ BindFails \/ SetFailed PROVE IndInv'
  BY <1>1, <1>3 DEF CheckReady, SetStopped, BindFails, SetFailed, IndInv, TypeOK,
     RoundOK, RoundsDoNotOverlap, BoundIsConfigured, Bound, SupSteps
<1>4. ASSUME BindListeners PROVE IndInv'
  BY <1>1, <1>4 DEF BindListeners, IndInv, TypeOK, RoundOK, RoundsDoNotOverlap,
     BoundIsConfigured, Bound, SupSteps, Config
<1>5. ASSUME NEW web \in BOOLEAN, SpawnListeners(web) PROVE IndInv'
  <2>1. tasks = {} /\ Listeners(bound) \subseteq Addrs \cup {AnyAddr}
    BY <1>1, <1>5 DEF SpawnListeners, IndInv, RoundOK, RoundsDoNotOverlap, Listeners
  <2>2. /\ tasks' \subseteq Addrs \cup {AnyAddr, WebGateway}
        /\ WebGateway \in tasks' => config.web
    BY <1>5, <2>1 DEF SpawnListeners, LanServerAssumption
  <2> QED
    BY <1>1, <1>5, <2>2 DEF SpawnListeners, IndInv, TypeOK, RoundOK,
       RoundsDoNotOverlap, BoundIsConfigured, Bound, SupSteps
<1>6. ASSUME SetActive PROVE IndInv'
  <2>1. Cardinality(Listeners(bound)) \in Nat
    BY <1>1, ListenersFinite
  <2> QED
    BY <1>1, <1>6, <2>1 DEF SetActive, IndInv, TypeOK, RoundOK,
       RoundsDoNotOverlap, BoundIsConfigured, Bound, SupSteps
<1>7. ASSUME SetListening \/ Watch PROVE IndInv'
  BY <1>1, <1>7 DEF SetListening, Watch, IndInv, TypeOK, RoundOK,
     RoundsDoNotOverlap, BoundIsConfigured, Bound, SupSteps
<1>9. ASSUME SendStop \/ SetInactive \/ SetRestarting PROVE IndInv'
  <2>1. sup'.at \in {"inactive", "restarting", "drain"} /\ sup'.gen = sup.gen
    BY <1>1, <1>9 DEF SendStop, SetInactive, SetRestarting
  <2>2. TypeOK'
    <3>1. sup' \in [at : SupSteps, gen : Nat,
                    sig : [addrs : SUBSET Addrs, nets : Networks, web : BOOLEAN]]
      BY <1>1, <1>9 DEF SendStop, SetInactive, SetRestarting, SupSteps
    <3>2. /\ active' \in Nat /\ stop' \in BOOLEAN /\ UNCHANGED <<bound, tasks>>
          /\ status' \in {"stopped", "starting", "listening", "failed"}
      <4>1. CASE SendStop
        BY <4>1, Zenon DEF SendStop, IndInv, TypeOK
      <4>3. CASE SetInactive
        BY <4>3 DEF SetInactive, IndInv, TypeOK
      <4>2. CASE SetRestarting
        BY <4>2, SMT DEF SetRestarting, IndInv, TypeOK, ServiceReady, Config
      <4> QED
        BY <1>9, <4>1, <4>2, <4>3
    <3> QED
      BY <1>1, <3>1, <3>2 DEF IndInv, TypeOK
  <2> QED
    BY <1>1, <2>1, <2>2 DEF IndInv, RoundOK, RoundsDoNotOverlap,
       BoundIsConfigured, Bound
<1>8. ASSUME Drain PROVE IndInv'
  BY <1>1, <1>8 DEF Drain, IndInv, TypeOK, RoundOK, RoundsDoNotOverlap,
     BoundIsConfigured, Bound, SupSteps
<1> QED
  BY <1>2, <1>3, <1>4, <1>5, <1>6, <1>7, <1>8, <1>9 DEF SupStep

\* A listener accepts or stops; a peer leaves.
LEMMA ListenerPreservesIndInv ==
    ASSUME IndInv,
           \/ \E t \in tasks : ListenerStops(t) \/ \E s \in Sources : Accept(t, s)
           \/ \E s \in Sources : PeerLeaves(s)
    PROVE  IndInv'
  BY DEF ListenerStops, Accept, PeerLeaves, OnlyListens, IndInv, TypeOK, RoundOK,
         RoundsDoNotOverlap, BoundIsConfigured

\* The invariant is inductive.
THEOREM Invariance == Spec => []IndInv
<1>1. Init => IndInv
  BY InitIndInv, LanServerAssumption
<1>2. IndInv /\ [Next]_vars => IndInv'
  <2>1. ASSUME IndInv, UNCHANGED vars PROVE IndInv'
    BY <2>1 DEF vars, IndInv, TypeOK, RoundOK, RoundsDoNotOverlap, BoundIsConfigured
  <2> QED
    BY <2>1, WriterPreservesIndInv, SupPreservesIndInv, ListenerPreservesIndInv,
       LanServerAssumption DEF Next
<1> QED
  BY <1>1, <1>2, PTL DEF Spec

\* Every static and field keeps its type.
THEOREM TypeCorrect == Spec => []TypeOK
  BY Invariance, PTL DEF IndInv

\* When LanServer::start binds the addresses again, every listener task of the
\* previous round has ended.
THEOREM RoundsAreSequential == Spec => []RoundsDoNotOverlap
<1>1. IndInv => RoundsDoNotOverlap
  BY DEF IndInv, RoundOK
<1> QED
  BY <1>1, Invariance, PTL

\* While the supervisor sees no reason to rebind and nobody is changing the
\* settings, the bound addresses are the configured ones.
THEOREM RestartsAreNoticed == Spec => []NoLostRestart
<1>1. IndInv => NoLostRestart
  BY DEF IndInv, BoundIsConfigured, Bound, NoLostRestart, MustRebind
<1> QED
  BY <1>1, Invariance, PTL
=============================================================================
