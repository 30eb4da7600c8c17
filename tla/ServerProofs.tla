---------------------------- MODULE ServerProofs ----------------------------
(***************************************************************************)
(* Proofs about Server for any set of connections and services.            *)
(*                                                                         *)
(* IndInv strengthens the safety properties to something inductive: while  *)
(* the Server lock is held the properties hold "up to" what the holder     *)
(* still has to do, so the invariant relates its todo set to the tables    *)
(* and to the wishes of the peers.                                         *)
(***************************************************************************)
EXTENDS Server, TLAPS

\* The lock holder is an open connection whose wishes are consistent, name
\* created services only, and include the one being looked at.
JobOK ==
    /\ ~Unlocked => job.conn \in Conns \ closed
    /\ Unlocked => job.todo = {}
    /\ job.todo \subseteq services \X BOOLEAN
    /\ job.at # "next" => Checking /\ job.cur \in job.todo
    /\ job.at = "apply" => job.kind # "count"
    /\ \A s \in Services : ~(<<s, TRUE>> \in job.todo /\ <<s, FALSE>> \in job.todo)
    /\ job.kind = "remove" => \A s \in Services : <<s, TRUE>> \notin job.todo

\* Only displays are created on demand, and a service that was never created
\* has no members; its snapshot mode is the one it was created with, and one
\* that takes none has no newcomers.
ServicesOK ==
    /\ Services \ VideoServices \subseteq services
    /\ \A s \in Services : s \notin services => Members(svc[s]) = {}
    /\ \A s \in Services : svc[s].need_snapshot = (s \in Snapshotting)
    /\ \A s \in Services : ~svc[s].need_snapshot => svc[s].new_subscribes = {}
    /\ connections \cap closed = {}

\* remove_connection: a service it has already visited has lost the id.
RemovalProgress ==
    job.kind = "remove" =>
       \A s \in Services :
          <<s, FALSE>> \notin job.todo => job.conn \notin Members(svc[s])

\* A wanted subscription is in force or still to be made by the lock holder;
\* what the holder still has to undo is not wanted.
WantsProgress ==
    /\ \A w \in wants :
          \/ w[2] \in Members(svc[w[1]])
          \/ /\ w[2] = job.conn
             /\ job.kind # "count"
             /\ <<w[1], TRUE>> \in job.todo
    /\ \A s \in Services : <<s, FALSE>> \in job.todo => <<s, job.conn>> \notin wants

\* PromotedIsCurrent at every step of the callback, and the newcomers about
\* to be promoted are covered once the snapshot has been sent.
SnapshotProgress ==
    \A s \in StateServices :
       /\ svc[s].subscribes \subseteq current[s] \cup late[s]
       /\ thread[s] = "swap" =>
             svc[s].new_subscribes \subseteq current[s] \cup late[s]

IndInv ==
    /\ TypeOK
    /\ TablesDisjoint
    /\ ClosedIsUnsubscribed
    /\ JobOK
    /\ ServicesOK
    /\ RemovalProgress
    /\ WantsProgress
    /\ SnapshotProgress

-----------------------------------------------------------------------------
(* The subscriber tables *)

\* on_subscribe makes the connection a member and keeps everybody else, keeps
\* the tables disjoint, and promotes nobody if the service takes snapshots.
LEMMA OnSubscribeLemma ==
    ASSUME NEW t \in ServiceType, NEW c \in Conns,
           ~t.need_snapshot => t.new_subscribes = {}
    PROVE  LET u == OnSubscribe(t, c)
           IN  /\ u \in ServiceType
               /\ Members(u) = Members(t) \cup {c}
               /\ u.need_snapshot = t.need_snapshot
               /\ t.subscribes \cap t.new_subscribes = {} =>
                     u.subscribes \cap u.new_subscribes = {}
               /\ t.need_snapshot => u.subscribes = t.subscribes
               /\ u.new_subscribes \subseteq t.new_subscribes \cup {c}
<1>1. CASE c \in t.subscribes
  BY <1>1 DEF ServiceType, OnSubscribe, Members
<1>2. CASE c \notin t.subscribes /\ t.need_snapshot
  <2>1. OnSubscribe(t, c) = [t EXCEPT !.new_subscribes = @ \cup {c}]
    BY <1>2 DEF OnSubscribe
  <2> QED
    BY <1>2, <2>1 DEF ServiceType, Members
<1>3. CASE c \notin t.subscribes /\ ~t.need_snapshot
  <2>1. OnSubscribe(t, c) = [t EXCEPT !.subscribes = @ \cup {c}]
    BY <1>3 DEF OnSubscribe
  <2> QED
    BY <1>3, <2>1 DEF ServiceType, Members
<1> QED
  BY <1>1, <1>2, <1>3

\* on_unsubscribe removes exactly the connection, provided it is in at most
\* one of the tables.
LEMMA OnUnsubscribeLemma ==
    ASSUME NEW t \in ServiceType, NEW c \in Conns,
           t.subscribes \cap t.new_subscribes = {}
    PROVE  LET u == OnUnsubscribe(t, c)
           IN  /\ u \in ServiceType
               /\ Members(u) = Members(t) \ {c}
               /\ u.need_snapshot = t.need_snapshot
               /\ u.subscribes \cap u.new_subscribes = {}
               /\ u.subscribes = t.subscribes \ {c}
               /\ u.new_subscribes = t.new_subscribes \ {c}
  BY DEF ServiceType, OnUnsubscribe, Members

\* The swap moves every newcomer and changes the set of members not at all.
LEMMA SwapLemma ==
    ASSUME NEW t \in ServiceType
    PROVE  LET u == SwapNewSubscribes(t)
           IN  /\ u \in ServiceType
               /\ Members(u) = Members(t)
               /\ u.need_snapshot = t.need_snapshot
               /\ u.subscribes = Members(t)
               /\ u.new_subscribes = {}
  BY DEF ServiceType, SwapNewSubscribes, Members

-----------------------------------------------------------------------------
(* Taking the Server lock *)

\* A connection task that takes the lock for consistent wishes about created
\* services preserves the invariant, provided every earlier wish is granted.
LEMMA LockPreservesIndInv ==
    ASSUME IndInv, ServicesAssumption,
           NEW kind \in {"add", "remove", "sub", "capture"},
           NEW c \in Conns, c \notin closed,
           NEW todo, todo \subseteq services' \X BOOLEAN,
           \A s \in Services : ~(<<s, TRUE>> \in todo /\ <<s, FALSE>> \in todo),
           kind = "remove" => services' = services /\ todo = services \X {FALSE},
           \A w \in wants : w[2] \in Members(svc[w[1]]),
           Lock(kind, c, todo),
           services \subseteq services', services' \subseteq Services,
           view_camera' \in SUBSET Conns,
           display' \in [Conns -> VideoServices],
           follow' \in SUBSET Conns,
           UNCHANGED <<connections, closed, svc, thread, current, late>>
    PROVE  IndInv'
<1>1. /\ job'.kind = kind /\ job'.conn = c /\ job'.todo = todo
      /\ job'.at = "next" /\ job'.cur = NoWish /\ job'.count = 0
  BY DEF Lock, Job
<1>2. wants' = Granted(c, todo)
  BY DEF Lock
<1>3. TypeOK'
  <2>1. job' \in JobType
    BY DEF Lock, Job, JobType, JobKinds, NoWish, Wish, ServicesAssumption
  <2>2. wants' \in SUBSET (Services \X Conns)
    <3>1. ASSUME NEW w \in wants' PROVE w \in Services \X Conns
      <4>1. CASE w \in wants
        BY <4>1 DEF IndInv, TypeOK
      <4>2. CASE w \notin wants
        <5>1. PICK s \in Services : w = <<s, c>>
          BY <1>2, <3>1, <4>2 DEF Granted
        <5> QED
          BY <5>1
      <4> QED
        BY <4>1, <4>2
    <3> QED
      BY <3>1
  <2> QED
    BY <2>1, <2>2 DEF IndInv, TypeOK
<1>4. TablesDisjoint' /\ ClosedIsUnsubscribed' /\ SnapshotProgress'
  BY DEF IndInv, TablesDisjoint, ClosedIsUnsubscribed, SnapshotProgress
<1>5. JobOK'
  BY <1>1 DEF JobOK, Unlocked, Checking, IndInv, TypeOK
<1>6. ServicesOK'
  BY DEF IndInv, ServicesOK
<1>7. RemovalProgress'
  <2>1. SUFFICES ASSUME kind = "remove", NEW s \in Services,
                        <<s, FALSE>> \notin todo
                 PROVE  c \notin Members(svc[s])
    BY <1>1 DEF RemovalProgress
  <2>2. s \notin services
    BY <2>1
  <2> QED
    BY <2>2 DEF IndInv, ServicesOK
<1>8. WantsProgress'
  <2>1. ASSUME NEW w \in wants'
        PROVE  \/ w[2] \in Members(svc[w[1]])
               \/ w[2] = c /\ <<w[1], TRUE>> \in todo
    <3>1. CASE w \in wants
      BY <3>1
    <3>2. CASE w \notin wants
      <4>1. PICK s \in Services : <<s, TRUE>> \in todo /\ w = <<s, c>>
        BY <1>2, <2>1, <3>2 DEF Granted
      <4> QED
        BY <4>1
    <3> QED
      BY <3>1, <3>2
  <2>2. ASSUME NEW s \in Services, <<s, FALSE>> \in todo
        PROVE  <<s, c>> \notin wants'
    BY <1>2, <2>2 DEF Granted
  <2> QED
    BY <1>1, <2>1, <2>2 DEF WantsProgress
<1> QED
  BY <1>3, <1>4, <1>5, <1>6, <1>7, <1>8 DEF IndInv

-----------------------------------------------------------------------------
(* The steps of the lock holder *)

\* Granting one wish in the tables of one service preserves the invariant.
LEMMA VisitPreservesIndInv ==
    ASSUME IndInv, ServicesAssumption,
           ~Unlocked, job.kind # "count",
           NEW w \in job.todo,
           Visit(w),
           job' \in JobType, job'.kind = job.kind, job'.conn = job.conn,
           job'.todo = job.todo \ {w}, job'.at = "next",
           UNCHANGED <<connections, closed, services, session, thread, wants>>
    PROVE  IndInv'
<1> DEFINE s == w[1]
           c == job.conn
           t == svc[s]
           u == svc'[s]
<1>1. s \in services /\ s \in Services /\ w[2] \in BOOLEAN /\ w = <<s, w[2]>>
  BY DEF IndInv, JobOK, TypeOK
<1>2. c \in Conns /\ c \notin closed
  BY DEF IndInv, JobOK
<1>3. /\ t \in ServiceType
      /\ t.subscribes \cap t.new_subscribes = {}
      /\ ~t.need_snapshot => t.new_subscribes = {}
  BY <1>1 DEF IndInv, TypeOK, TablesDisjoint, ServicesOK
<1>4. /\ \A r \in Services : r # s => svc'[r] = svc[r]
      /\ u = IF w[2] THEN OnSubscribe(t, c) ELSE OnUnsubscribe(t, c)
      /\ DOMAIN svc' = Services
      /\ svc' = [svc EXCEPT ![s] = u]
  BY <1>1 DEF Visit, IndInv, TypeOK
<1>5. /\ u \in ServiceType
      /\ u.need_snapshot = t.need_snapshot
      /\ u.subscribes \cap u.new_subscribes = {}
      /\ ~u.need_snapshot => u.new_subscribes = {}
      /\ Members(u) = IF w[2] THEN Members(t) \cup {c} ELSE Members(t) \ {c}
  <2>1. CASE w[2]
    <3>1. u = OnSubscribe(t, c)
      BY <1>4, <2>1
    <3>2. ~t.need_snapshot => OnSubscribe(t, c).new_subscribes = {}
      BY <1>3 DEF OnSubscribe, ServiceType
    <3> QED
      BY <1>2, <1>3, <2>1, <3>1, <3>2, OnSubscribeLemma
  <2>2. CASE ~w[2]
    <3>1. u = OnUnsubscribe(t, c)
      BY <1>4, <2>2
    <3> QED
      BY <1>2, <1>3, <2>2, <3>1, OnUnsubscribeLemma
  <2> QED
    BY <1>1, <2>1, <2>2
<1>6. TypeOK'
  <2>1. svc' \in [Services -> ServiceType]
    BY <1>1, <1>4, <1>5 DEF IndInv, TypeOK
  <2>2. current' \in [Services -> SUBSET Conns] /\ late' \in [Services -> SUBSET Conns]
    BY <1>1, <1>2 DEF Visit, Joined, IndInv, TypeOK
  <2> QED
    BY <2>1, <2>2 DEF IndInv, TypeOK, session
<1> HIDE DEF t, u
<1>7. TablesDisjoint'
  BY <1>1, <1>4, <1>5 DEF IndInv, TablesDisjoint, u
<1>8. ClosedIsUnsubscribed'
  <2>1. ASSUME NEW d \in closed, NEW r \in Services PROVE d \notin Members(svc'[r])
    BY <1>1, <1>2, <1>4, <1>5, <2>1 DEF IndInv, ClosedIsUnsubscribed, t, u
  <2> QED
    BY <2>1 DEF IndInv, ClosedIsUnsubscribed
<1>9. JobOK'
  BY DEF IndInv, JobOK, Unlocked, Checking, Direct
<1>10. ServicesOK'
  BY <1>1, <1>4, <1>5 DEF IndInv, ServicesOK, t, u
<1>11. RemovalProgress'
  <2>1. SUFFICES ASSUME job.kind = "remove", NEW r \in Services,
                        <<r, FALSE>> \notin job.todo \ {w}
                 PROVE  c \notin Members(svc'[r])
    BY DEF RemovalProgress
  <2>2. ~w[2]
    BY <1>1, <2>1 DEF IndInv, JobOK
  <2>3. CASE r = s
    BY <1>1, <1>5, <2>2, <2>3 DEF u
  <2>4. CASE r # s
    <3>1. <<r, FALSE>> # w
      <4>1. <<r, FALSE>>[1] # w[1]
        BY <2>4
      <4> QED
        BY ONLY <4>1
    <3>2. <<r, FALSE>> \notin job.todo
      BY <2>1, <3>1
    <3> QED
      BY <1>4, <2>1, <2>4, <3>2 DEF IndInv, RemovalProgress
  <2> QED
    BY <2>3, <2>4
<1>12. WantsProgress'
  <2>1. ASSUME NEW x \in wants
        PROVE  \/ x[2] \in Members(svc'[x[1]])
               \/ x[2] = c /\ <<x[1], TRUE>> \in job.todo \ {w}
    <3>1. x[1] \in Services /\ x = <<x[1], x[2]>>
      BY DEF IndInv, TypeOK
    <3>2. \/ x[2] \in Members(svc[x[1]])
          \/ x[2] = c /\ <<x[1], TRUE>> \in job.todo
      BY DEF IndInv, WantsProgress
    <3>3. CASE x[1] # s
      <4>1. <<x[1], TRUE>> # w
        <5>1. <<x[1], TRUE>>[1] # w[1]
          BY <3>3
        <5> QED
          BY ONLY <5>1
      <4>2. svc'[x[1]] = svc[x[1]]
        BY <1>4, <3>1, <3>3
      <4> QED
        BY <3>2, <4>1, <4>2
    <3>4. CASE x[1] = s /\ w[2]
      BY <1>1, <1>5, <3>2, <3>4 DEF t, u
    <3>5. CASE x[1] = s /\ ~w[2]
      <4>1. x[2] # c
        BY <1>1, <3>1, <3>5 DEF IndInv, WantsProgress
      <4> QED
        BY <1>5, <3>2, <3>5, <4>1 DEF t, u
    <3> QED
      BY <1>1, <3>3, <3>4, <3>5
  <2> QED
    BY <2>1 DEF IndInv, WantsProgress
<1>13. SnapshotProgress'
  <2>1. SUFFICES ASSUME NEW r \in StateServices
                 PROVE  /\ svc'[r].subscribes \subseteq current'[r] \cup late'[r]
                        /\ thread[r] = "swap" =>
                              svc'[r].new_subscribes \subseteq current'[r] \cup late'[r]
    BY DEF SnapshotProgress
  <2>2. r \in Services /\ svc[r].need_snapshot
    BY <2>1 DEF IndInv, ServicesOK, ServicesAssumption
  <2>3. /\ svc[r].subscribes \subseteq current[r] \cup late[r]
        /\ thread[r] = "swap" => svc[r].new_subscribes \subseteq current[r] \cup late[r]
    BY <2>1 DEF IndInv, SnapshotProgress
  <2>4. CASE r # s
    <3>1. current'[r] = current[r] /\ late'[r] = late[r]
      BY <1>1, <2>2, <2>4 DEF Visit, Joined, IndInv, TypeOK
    <3> QED
      BY <1>4, <2>2, <2>3, <2>4, <3>1
  <2>5. CASE r = s /\ w[2]
    <3>1. /\ u.subscribes = t.subscribes
          /\ u.new_subscribes \subseteq t.new_subscribes \cup {c}
      BY <1>2, <1>3, <1>4, <2>2, <2>5, OnSubscribeLemma DEF t, u
    <3>2. current' = current
      BY <2>5 DEF Visit
    <3>3. late[r] \subseteq late'[r]
      BY <1>1, <2>2, <2>5 DEF Visit, Joined, IndInv, TypeOK
    <3>4. CASE thread[r] = "swap" /\ c \notin Members(t)
      <4>1. c \in late'[r]
        BY <1>1, <2>1, <2>2, <2>5, <3>4 DEF Visit, Joined, IndInv, TypeOK, t
      <4> QED
        BY <2>3, <2>5, <3>1, <3>2, <3>3, <4>1 DEF t, u
    <3>5. CASE c \in Members(t)
      BY <2>3, <2>5, <3>1, <3>2, <3>3, <3>5 DEF t, u, Members
    <3>6. CASE thread[r] # "swap"
      BY <2>3, <2>5, <3>1, <3>2, <3>3, <3>6 DEF t, u
    <3> QED
      BY <3>4, <3>5, <3>6
  <2>6. CASE r = s /\ ~w[2]
    <3>1. /\ u.subscribes = t.subscribes \ {c}
          /\ u.new_subscribes = t.new_subscribes \ {c}
      BY <1>2, <1>3, <1>4, <2>6, OnUnsubscribeLemma DEF t, u
    <3>2. current'[r] = current[r] \ {c} /\ late'[r] = late[r] \ {c}
      BY <1>1, <2>2, <2>6 DEF Visit, IndInv, TypeOK
    <3> QED
      BY <2>3, <2>6, <3>1, <3>2 DEF t, u
  <2> QED
    BY <1>1, <2>4, <2>5, <2>6
<1> QED
  BY <1>6, <1>7, <1>8, <1>9, <1>10, <1>11, <1>12, <1>13 DEF IndInv

\* Acting on an answer of is_subed preserves the invariant if "yes" is true; a
\* wrong "no" only makes subscribe() redo or skip work.
LEMMA AnswerPreservesIndInv ==
    ASSUME IndInv, ServicesAssumption, Checking,
           NEW w \in job.todo, NEW subed \in BOOLEAN,
           subed => job.conn \in Members(svc[w[1]]),
           Answer(w, subed),
           UNCHANGED <<connections, closed, services, svc, session, thread,
                       current, late, wants>>
    PROVE  IndInv'
<1>1. /\ w \in Wish /\ w[1] \in Services /\ w[2] \in BOOLEAN
      /\ NoWish \in Wish /\ job \in JobType
  BY DEF IndInv, TypeOK, JobOK, Wish, NoWish, ServicesAssumption
<1>2. /\ job' \in JobType
      /\ job'.kind = job.kind /\ job'.conn = job.conn
      /\ \/ job'.todo = job.todo \ {w} /\ job'.at = "next"
            /\ (job.kind # "count" => subed = w[2])
         \/ job'.todo = job.todo /\ job'.at = "apply" /\ job'.cur = w
            /\ job.kind # "count"
  <2>1. CASE job.kind = "count"
    <3>1. PICK n \in Nat :
            job' = [job EXCEPT !.todo = @ \ {w}, !.at = "next", !.cur = NoWish,
                               !.count = n]
      <4>1. job.count \in Nat /\ job.count + 1 \in Nat
        BY <1>1 DEF JobType
      <4> QED
        BY <2>1, <4>1 DEF Answer
    <3> QED
      BY <1>1, <2>1, <3>1 DEF JobType
  <2>2. CASE job.kind # "count" /\ subed = w[2]
    BY <1>1, <2>2 DEF Answer, JobType
  <2>3. CASE job.kind # "count" /\ subed # w[2]
    BY <1>1, <2>3 DEF Answer, JobType
  <2> QED
    BY <2>1, <2>2, <2>3
<1>3. TypeOK'
  BY <1>2 DEF IndInv, TypeOK, session
<1>4. TablesDisjoint' /\ ClosedIsUnsubscribed' /\ ServicesOK' /\ SnapshotProgress'
  BY DEF IndInv, TablesDisjoint, ClosedIsUnsubscribed, ServicesOK, SnapshotProgress
<1>5. JobOK'
  BY <1>2 DEF IndInv, JobOK, Unlocked, Checking, Direct
<1>6. RemovalProgress'
  BY <1>2 DEF RemovalProgress, Checking, Direct
<1>7. WantsProgress'
  <2>1. ASSUME NEW x \in wants
        PROVE  \/ x[2] \in Members(svc[x[1]])
               \/ /\ x[2] = job.conn
                  /\ job.kind # "count"
                  /\ <<x[1], TRUE>> \in job'.todo
    <3>1. \/ x[2] \in Members(svc[x[1]])
          \/ /\ x[2] = job.conn
             /\ job.kind # "count"
             /\ <<x[1], TRUE>> \in job.todo
      BY DEF IndInv, WantsProgress
    <3>2. CASE <<x[1], TRUE>> = w
      <4>1. x[1] = w[1] /\ w[2] = TRUE
        BY <3>2
      <4> QED
        BY <1>2, <3>1, <4>1
    <3>3. CASE <<x[1], TRUE>> # w
      BY <1>2, <3>1, <3>3
    <3> QED
      BY <3>2, <3>3
  <2> QED
    BY <1>2, <2>1 DEF IndInv, WantsProgress
<1> QED
  BY <1>3, <1>4, <1>5, <1>6, <1>7 DEF IndInv

-----------------------------------------------------------------------------
(* Every step preserves the invariant *)

\* A connection task takes the server's lock, or asks for it.
LEMMA TaskStepPreservesIndInv ==
    ASSUME IndInv, ServicesAssumption, TaskStep
    PROVE  IndInv'
<1>0. PICK c \in Conns :
        \/ \E noperms \in SUBSET (Services \ VideoServices) :
              AddConnection(c, noperms)
        \/ AddCameraConnection(c)
        \/ RemoveConnection(c)
        \/ \E s \in Services, sub \in BOOLEAN : UpdateOption(c, s, sub)
        \/ \E mode \in {"add", "sub", "set"}, displays \in SUBSET VideoServices :
              CaptureDisplays(c, mode, displays)
        \/ \E new \in VideoServices, multi \in BOOLEAN :
              SwitchDisplay(c, new, multi)
  BY DEF TaskStep
<1>1. Unlocked
  BY <1>0 DEF AddConnection, AddCameraConnection, RemoveConnection,
              UpdateOption, CaptureDisplays, SwitchDisplay
<1>2. /\ \A w \in wants : w[2] \in Members(svc[w[1]])
      /\ services \subseteq Services /\ connections \cap closed = {}
      /\ view_camera \in SUBSET Conns /\ follow \in SUBSET Conns
      /\ display \in [Conns -> VideoServices]
      /\ VideoServices \subseteq Services /\ Cameras \subseteq VideoServices
      /\ Primary \in VideoServices
  BY <1>1 DEF IndInv, WantsProgress, JobOK, ServicesOK, TypeOK, ServicesAssumption
<1>3. ASSUME NEW noperms \in SUBSET (Services \ VideoServices),
             AddConnection(c, noperms)
      PROVE  IndInv'
  <2>1. PICK inc : inc = {s \in services' : /\ s \in VideoServices => s = Primary
                                            /\ s \notin noperms}
    OBVIOUS
  <2>2. PICK todo : todo = inc \X {TRUE}
    OBVIOUS
  <2>3. Lock("add", c, todo)
    BY <1>3, <2>1, <2>2 DEF AddConnection
  <2>4. services \subseteq services' /\ services' \subseteq Services
    BY <1>2, <1>3 DEF AddConnection
  <2>5. /\ todo \subseteq services' \X BOOLEAN
        /\ \A s \in Services : ~(<<s, TRUE>> \in todo /\ <<s, FALSE>> \in todo)
    BY <2>1, <2>2
  <2> QED
    BY <1>2, <1>3, <2>3, <2>4, <2>5, LockPreservesIndInv
       DEF AddConnection, session
<1>4. ASSUME AddCameraConnection(c) PROVE IndInv'
  <2>1. PICK todo : todo = Cameras \X {TRUE}
    OBVIOUS
  <2>2. Lock("add", c, todo)
    BY <1>4, <2>1 DEF AddCameraConnection
  <2>3. /\ services \subseteq services' /\ services' \subseteq Services
        /\ Cameras \subseteq services' /\ view_camera' \in SUBSET Conns
        /\ display' \in [Conns -> VideoServices]
    BY <1>2, <1>4 DEF AddCameraConnection
  <2>4. /\ todo \subseteq services' \X BOOLEAN
        /\ \A s \in Services : ~(<<s, TRUE>> \in todo /\ <<s, FALSE>> \in todo)
    BY <2>1, <2>3
  <2> QED
    BY <1>2, <1>4, <2>2, <2>3, <2>4, LockPreservesIndInv
       DEF AddCameraConnection
<1>5. ASSUME RemoveConnection(c) PROVE IndInv'
  <2>1. PICK todo : todo = services \X {FALSE}
    OBVIOUS
  <2>2. Lock("remove", c, todo)
    BY <1>5, <2>1 DEF RemoveConnection
  <2>3. /\ todo \subseteq services' \X BOOLEAN
        /\ \A s \in Services : ~(<<s, TRUE>> \in todo /\ <<s, FALSE>> \in todo)
    BY <1>5, <2>1 DEF RemoveConnection
  <2> QED
    BY <1>2, <1>5, <2>1, <2>2, <2>3, LockPreservesIndInv
       DEF RemoveConnection, session
<1>6. ASSUME NEW s \in Services, NEW sub \in BOOLEAN, UpdateOption(c, s, sub)
      PROVE  IndInv'
  <2>1. follow' \in SUBSET Conns
    BY <1>2, <1>6 DEF UpdateOption
  <2>2. PICK todo : todo = {<<s, sub>>}
    OBVIOUS
  <2>3. Lock("sub", c, todo)
    BY <1>6, <2>2 DEF UpdateOption
  <2>4. todo \subseteq services' \X BOOLEAN
    BY <1>6, <2>2 DEF UpdateOption
  <2>5. \A r \in Services : ~(<<r, TRUE>> \in todo /\ <<r, FALSE>> \in todo)
    BY <2>2
  <2> QED
    BY <1>2, <1>6, <2>1, <2>3, <2>4, <2>5, LockPreservesIndInv DEF UpdateOption
<1>7. ASSUME NEW mode \in {"add", "sub", "set"},
             NEW displays \in SUBSET VideoServices,
             CaptureDisplays(c, mode, displays)
      PROVE  IndInv'
  <2>0. PICK inc, exc :
           /\ inc = IF mode = "sub" THEN {} ELSE (services' \cap VideoServices) \cap displays
           /\ exc = IF mode = "add" THEN {} ELSE (services' \cap VideoServices) \ displays
    OBVIOUS
  <2>1. PICK todo : /\ todo = (inc \X {TRUE}) \cup (exc \X {FALSE})
                    /\ Lock("capture", c, todo)
    BY <1>7, <2>0 DEF CaptureDisplays
  <2>2. services \subseteq services' /\ services' \subseteq Services
    BY <1>2, <1>7 DEF CaptureDisplays
  <2>3. /\ todo \subseteq services' \X BOOLEAN
        /\ \A s \in Services : ~(<<s, TRUE>> \in todo /\ <<s, FALSE>> \in todo)
    <3>1. inc \subseteq services' /\ exc \subseteq services' /\ inc \cap exc = {}
      BY <2>0
    <3> QED
      BY <2>1, <3>1
  <2> QED
    BY <1>2, <1>7, <2>1, <2>2, <2>3, LockPreservesIndInv
       DEF CaptureDisplays, session
<1>8. ASSUME NEW new \in VideoServices, NEW multi \in BOOLEAN,
             SwitchDisplay(c, new, multi)
      PROVE  IndInv'
  <2>0. PICK inc, exc :
           /\ inc = {new} \cap services'
           /\ exc = IF multi THEN {} ELSE {display[c]} \cap services'
    OBVIOUS
  <2>1. PICK todo : /\ todo = (exc \X {FALSE}) \cup (inc \X {TRUE})
                    /\ Lock("sub", c, todo)
    BY <1>8, <2>0 DEF SwitchDisplay
  <2>4. inc \subseteq services' /\ exc \subseteq services' /\ inc \cap exc = {}
    BY <1>8, <2>0 DEF SwitchDisplay
  <2>2. /\ services \subseteq services' /\ services' \subseteq Services
        /\ display' \in [Conns -> VideoServices]
    BY <1>2, <1>8 DEF SwitchDisplay
  <2>3. /\ todo \subseteq services' \X BOOLEAN
        /\ \A s \in Services : ~(<<s, TRUE>> \in todo /\ <<s, FALSE>> \in todo)
    BY <2>1, <2>4
  <2> QED
    BY <1>2, <1>8, <2>1, <2>2, <2>3, LockPreservesIndInv DEF SwitchDisplay
<1> QED
  BY <1>0, <1>3, <1>4, <1>5, <1>6, <1>7, <1>8

\* The walk over the services that runs under the server's write lock.
LEMMA LockHolderStepPreservesIndInv ==
    ASSUME IndInv, ServicesAssumption, LockHolderStep
    PROVE  IndInv'
<1>1. /\ job \in JobType /\ NoWish \in Wish
      /\ job.todo \subseteq Wish
  BY DEF IndInv, TypeOK, JobType, Wish, NoWish, ServicesAssumption
<1>2. ASSUME NEW w \in Wish, VisitDirect(w) PROVE IndInv'
  <2>1. /\ job' \in JobType /\ job'.kind = job.kind /\ job'.conn = job.conn
        /\ job'.todo = job.todo \ {w} /\ job'.at = job.at
    BY <1>1, <1>2 DEF VisitDirect, JobType
  <2>2. job.at = "next" /\ ~Unlocked /\ job.kind # "count"
    BY <1>1, <1>2 DEF VisitDirect, IndInv, JobOK, Checking, Direct, Unlocked,
                      JobType
  <2> QED
    BY <1>2, <2>1, <2>2, VisitPreservesIndInv DEF VisitDirect
<1>3. ASSUME NEW w \in Wish, IsSubedFirst(w) PROVE IndInv'
  <2>1. CASE job.conn \in svc[w[1]].subscribes
    <3>1. job.conn \in Members(svc[w[1]])
      BY <2>1 DEF Members
    <3> QED
      BY <1>3, <2>1, <3>1, AnswerPreservesIndInv DEF IsSubedFirst
  <2>2. CASE job.conn \notin svc[w[1]].subscribes
    <3>1. job' = [job EXCEPT !.at = "second", !.cur = w]
      BY <1>3, <2>2 DEF IsSubedFirst
    <3>2. /\ job' \in JobType /\ job'.kind = job.kind /\ job'.conn = job.conn
          /\ job'.todo = job.todo /\ job'.at = "second" /\ job'.cur = w
      BY <1>1, <1>3, <3>1 DEF JobType
    <3>3. UNCHANGED <<connections, closed, services, svc, session, thread,
                      current, late, wants>> /\ Checking /\ w \in job.todo
      BY <1>3 DEF IsSubedFirst
    <3>4. TypeOK'
      BY <3>2, <3>3 DEF IndInv, TypeOK, session
    <3>5. /\ TablesDisjoint' /\ ClosedIsUnsubscribed' /\ ServicesOK'
          /\ SnapshotProgress'
      BY <3>3 DEF IndInv, TablesDisjoint, ClosedIsUnsubscribed, ServicesOK,
                  SnapshotProgress
    <3>6. JobOK'
      BY <3>2, <3>3 DEF IndInv, JobOK, Unlocked, Checking, Direct
    <3>7. RemovalProgress' /\ WantsProgress'
      BY <3>2, <3>3 DEF IndInv, RemovalProgress, WantsProgress
    <3> QED
      BY <3>4, <3>5, <3>6, <3>7 DEF IndInv
  <2> QED
    BY <2>1, <2>2
<1>4. ASSUME IsSubedSecond PROVE IndInv'
  <2>1. Checking /\ job.cur \in job.todo
    BY <1>4 DEF IsSubedSecond, IndInv, JobOK
  <2>2. CASE job.conn \in svc[job.cur[1]].new_subscribes
    <3>1. Answer(job.cur, TRUE) /\ job.conn \in Members(svc[job.cur[1]])
      BY <1>4, <2>2 DEF IsSubedSecond, Members, Answer
    <3> QED
      BY <1>4, <2>1, <3>1, AnswerPreservesIndInv DEF IsSubedSecond
  <2>3. CASE job.conn \notin svc[job.cur[1]].new_subscribes
    <3>1. Answer(job.cur, FALSE)
      <4>1. (job.conn \in svc[job.cur[1]].new_subscribes) = FALSE
        BY <2>3
      <4>2. Answer(job.cur, job.conn \in svc[job.cur[1]].new_subscribes)
        BY <1>4 DEF IsSubedSecond
      <4> QED
        BY <4>1, <4>2, Zenon
    <3> QED
      BY <1>4, <2>1, <3>1, AnswerPreservesIndInv DEF IsSubedSecond
  <2> QED
    BY <2>2, <2>3
<1>5. ASSUME Apply PROVE IndInv'
  <2>1. /\ job.cur \in job.todo /\ job.kind # "count" /\ ~Unlocked
    BY <1>5 DEF Apply, Checking, IndInv, JobOK
  <2>2. /\ job' \in JobType /\ job'.kind = job.kind /\ job'.conn = job.conn
        /\ job'.todo = job.todo \ {job.cur} /\ job'.at = "next"
    BY <1>1, <1>5 DEF Apply, JobType
  <2> QED
    BY <1>5, <2>1, <2>2, VisitPreservesIndInv DEF Apply
<1>6. ASSUME Finish PROVE IndInv'
  <2>1. /\ job'.kind = "none" /\ job'.conn = NoConn /\ job'.todo = {}
        /\ job'.at = "next" /\ job' \in JobType
    BY <1>1, <1>6 DEF Finish, Idle, Job, JobType, JobKinds
  <2>2. /\ job.conn \in Conns \ closed /\ job.todo = {} /\ ~Unlocked
    BY <1>6 DEF Finish, AllVisited, IndInv, JobOK
  <2>3. UNCHANGED <<services, svc, session, thread, current, late, wants>>
    BY <1>6 DEF Finish
  <2>4. /\ connections' \in SUBSET Conns /\ closed' \in SUBSET Conns
        /\ connections' \cap closed' = {}
        /\ \A d \in closed' : d \in closed \/ (job.kind = "remove" /\ d = job.conn)
    <3>1. /\ connections \in SUBSET Conns /\ closed \in SUBSET Conns
          /\ connections \cap closed = {}
      BY DEF IndInv, TypeOK, ServicesOK
    <3>2. CASE job.kind = "add"
      <4>1. connections' = connections \cup {job.conn} /\ closed' = closed
        BY <1>6, <3>2 DEF Finish
      <4> QED
        BY <2>2, <3>1, <4>1
    <3>3. CASE job.kind = "remove"
      <4>1. /\ connections' = connections \ {job.conn}
            /\ closed' = closed \cup {job.conn}
        BY <1>6, <3>3 DEF Finish
      <4> QED
        BY <2>2, <3>1, <3>3, <4>1
    <3>4. CASE job.kind \notin {"add", "remove"}
      <4>1. connections' = connections /\ closed' = closed
        BY <1>6, <3>4 DEF Finish
      <4> QED
        BY <2>2, <3>1, <4>1
    <3> QED
      BY <3>2, <3>3, <3>4
  <2>5. TypeOK'
    BY <2>1, <2>3, <2>4 DEF IndInv, TypeOK, session
  <2>6. TablesDisjoint' /\ SnapshotProgress'
    BY <2>3 DEF IndInv, TablesDisjoint, SnapshotProgress
  <2>7. ClosedIsUnsubscribed'
    <3>1. ASSUME NEW d \in closed', NEW s \in Services
          PROVE  d \notin Members(svc[s])
      BY <2>2, <2>4, <3>1 DEF IndInv, ClosedIsUnsubscribed, RemovalProgress
    <3> QED
      BY <2>3, <2>4, <3>1 DEF ClosedIsUnsubscribed
  <2>8. JobOK' /\ RemovalProgress'
    BY <2>1 DEF JobOK, RemovalProgress, Unlocked, Checking
  <2>9. ServicesOK'
    BY <2>3, <2>4 DEF IndInv, ServicesOK
  <2>10. WantsProgress'
    BY <2>1, <2>2, <2>3 DEF IndInv, WantsProgress
  <2> QED
    BY <2>5, <2>6, <2>7, <2>8, <2>9, <2>10 DEF IndInv
<1>7. ASSUME StartCount PROVE IndInv'
  <2>1. PICK todo : todo = (services \cap VideoServices) \X {TRUE}
    OBVIOUS
  <2>2. /\ job'.kind = "count" /\ job'.conn = job.conn /\ job'.todo = todo
        /\ job'.at = "next"
    BY <1>7, <2>1 DEF StartCount, Job
  <2>3. /\ todo \subseteq services \X BOOLEAN /\ todo \subseteq Wish
        /\ \A s \in Services : <<s, FALSE>> \notin todo
    BY <2>1 DEF IndInv, TypeOK, Wish
  <2>4. /\ job.conn \in Conns \ closed /\ job.todo = {} /\ ~Unlocked
        /\ UNCHANGED <<connections, closed, services, svc, session, thread,
                       current, late, wants>>
    BY <1>7 DEF StartCount, AllVisited, IndInv, JobOK
  <2>5. TypeOK'
    <3>1. job' \in JobType
      BY <1>1, <1>7, <2>1, <2>3, <2>4 DEF StartCount, Job, JobType, JobKinds
    <3> QED
      BY <2>4, <3>1 DEF IndInv, TypeOK, session
  <2>6. /\ TablesDisjoint' /\ SnapshotProgress' /\ ClosedIsUnsubscribed'
        /\ ServicesOK'
    BY <2>4 DEF IndInv, TablesDisjoint, SnapshotProgress, ClosedIsUnsubscribed,
                ServicesOK
  <2>7. JobOK' /\ RemovalProgress'
    BY <2>2, <2>3, <2>4 DEF JobOK, RemovalProgress, Unlocked, Checking
  <2>8. WantsProgress'
    BY <2>2, <2>3, <2>4 DEF IndInv, WantsProgress
  <2> QED
    BY <2>5, <2>6, <2>7, <2>8 DEF IndInv
<1>8. ASSUME FollowWindow PROVE IndInv'
  <2>1. PICK b \in BOOLEAN : b = ~(job.count > 1)
    OBVIOUS
  <2>2. PICK todo : todo = {<<Focus, b>>}
    OBVIOUS
  <2>3. /\ Lock("sub", job.conn, todo) /\ job.conn \in Conns /\ job.conn \notin closed
        /\ UNCHANGED <<connections, closed, services, svc, session, thread,
                       current, late>>
    BY <1>8, <2>1, <2>2 DEF FollowWindow, AllVisited, IndInv, JobOK
  <2>4. todo \subseteq services \X BOOLEAN
    BY <2>2 DEF IndInv, ServicesOK, ServicesAssumption
  <2>5. \A r \in Services : ~(<<r, TRUE>> \in todo /\ <<r, FALSE>> \in todo)
    BY <2>2
  <2>6. \A w \in wants : w[2] \in Members(svc[w[1]])
    BY <1>8 DEF FollowWindow, AllVisited, IndInv, WantsProgress
  <2>7. /\ services \subseteq Services /\ view_camera \in SUBSET Conns
        /\ display \in [Conns -> VideoServices] /\ follow \in SUBSET Conns
    BY DEF IndInv, TypeOK
  <2> QED
    BY <2>3, <2>4, <2>5, <2>6, <2>7, LockPreservesIndInv DEF session
<1> QED
  BY <1>2, <1>3, <1>4, <1>5, <1>6, <1>7, <1>8 DEF LockHolderStep

\* The thread of a service publishes, snapshots or swaps its tables.
LEMMA ServiceStepPreservesIndInv ==
    ASSUME IndInv, ServicesAssumption, NEW s \in Services, ServiceStep(s)
    PROVE  IndInv'
<1>1. /\ UNCHANGED <<connections, closed, services, session, job, wants>>
      /\ thread' \in [Services -> ThreadStates]
      /\ \A r \in Services : r # s => thread'[r] = thread[r]
  BY DEF ServiceStep, Poll, Publish, KeepState, CallbackError, SnapshotCheck,
         SnapshotSend, SnapshotSwap, IndInv, TypeOK, ThreadStates
<1>2. ASSUME NEW t \in ServiceType, t = svc[s], NEW u \in ServiceType, u = svc'[s],
             svc' = [svc EXCEPT ![s] = u],
             Members(u) = Members(t), u.need_snapshot = t.need_snapshot,
             u.subscribes \cap u.new_subscribes = {},
             ~u.need_snapshot => u.new_subscribes = {},
             current' \in [Services -> SUBSET Conns],
             late' \in [Services -> SUBSET Conns],
             SnapshotProgress'
      PROVE  IndInv'
  <2>1. /\ \A r \in Services : Members(svc'[r]) = Members(svc[r])
        /\ \A r \in Services : svc'[r].need_snapshot = svc[r].need_snapshot
        /\ \A r \in Services : r # s => svc'[r] = svc[r]
        /\ svc' \in [Services -> ServiceType]
    BY <1>2 DEF IndInv, TypeOK
  <2>2. TypeOK'
    BY <1>1, <1>2, <2>1 DEF IndInv, TypeOK, session
  <2>3. TablesDisjoint' /\ ServicesOK'
    BY <1>1, <1>2, <2>1 DEF IndInv, TablesDisjoint, ServicesOK
  <2>4. ClosedIsUnsubscribed' /\ RemovalProgress'
    BY <1>1, <2>1 DEF IndInv, ClosedIsUnsubscribed, RemovalProgress
  <2>5. JobOK'
    BY <1>1 DEF IndInv, JobOK, Unlocked, Checking, Direct
  <2>6. WantsProgress'
    <3>1. \A w \in wants : w[1] \in Services
      BY DEF IndInv, TypeOK
    <3> QED
      BY <1>1, <2>1, <3>1 DEF IndInv, WantsProgress
  <2> QED
    BY <1>2, <2>2, <2>3, <2>4, <2>5, <2>6 DEF IndInv
<1>3. /\ svc[s] \in ServiceType
      /\ svc[s].subscribes \cap svc[s].new_subscribes = {}
      /\ ~svc[s].need_snapshot => svc[s].new_subscribes = {}
      /\ current \in [Services -> SUBSET Conns]
      /\ late \in [Services -> SUBSET Conns]
      /\ thread \in [Services -> ThreadStates]
      /\ svc \in [Services -> ServiceType]
      /\ StateServices \subseteq Services
  BY DEF IndInv, TypeOK, TablesDisjoint, ServicesOK, ServicesAssumption
<1>4. ASSUME UNCHANGED svc, SnapshotProgress',
             current' \in [Services -> SUBSET Conns],
             late' \in [Services -> SUBSET Conns]
      PROVE  IndInv'
  BY <1>2, <1>3, <1>4
<1>5. ASSUME Poll(s) \/ KeepState(s) \/ CallbackError(s) \/ SnapshotCheck(s)
      PROVE  IndInv'
  <2>1. UNCHANGED <<svc, current, late>> /\ thread'[s] # "swap"
    BY <1>3, <1>5 DEF Poll, KeepState, CallbackError, SnapshotCheck
  <2>2. SnapshotProgress'
    BY <1>1, <1>3, <2>1 DEF IndInv, SnapshotProgress
  <2> QED
    BY <1>3, <1>4, <2>1, <2>2
<1>6. ASSUME Publish(s) PROVE IndInv'
  <2>1. /\ UNCHANGED svc /\ thread'[s] = "check"
        /\ current' = [current EXCEPT ![s] = svc[s].subscribes]
        /\ late' = [late EXCEPT ![s] = @ \ svc[s].subscribes]
    BY <1>3, <1>6 DEF Publish
  <2>2. /\ current' \in [Services -> SUBSET Conns]
        /\ late' \in [Services -> SUBSET Conns]
    BY <1>3, <2>1 DEF ServiceType
  <2>3. SnapshotProgress'
    <3>1. ASSUME NEW r \in StateServices
          PROVE  /\ svc[r].subscribes \subseteq current'[r] \cup late'[r]
                 /\ thread'[r] = "swap" =>
                       svc[r].new_subscribes \subseteq current'[r] \cup late'[r]
      <4>1. CASE r = s
        BY <1>3, <2>1, <4>1
      <4>2. CASE r # s
        BY <1>1, <1>3, <2>1, <4>2 DEF IndInv, SnapshotProgress
      <4> QED
        BY <4>1, <4>2
    <3> QED
      BY <2>1, <3>1 DEF SnapshotProgress
  <2> QED
    BY <1>4, <2>1, <2>2, <2>3
<1>7. ASSUME SnapshotSend(s) PROVE IndInv'
  <2>1. UNCHANGED <<svc, late>>
    BY <1>7 DEF SnapshotSend
  <2>2. current' \in [Services -> SUBSET Conns]
    BY <1>3, <1>7 DEF SnapshotSend, ServiceType
  <2>3. SnapshotProgress'
    <3>1. ASSUME NEW r \in StateServices
          PROVE  /\ svc[r].subscribes \subseteq current'[r] \cup late[r]
                 /\ thread'[r] = "swap" =>
                       svc[r].new_subscribes \subseteq current'[r] \cup late[r]
      <4>1. CASE r = s
        <5>1. current'[r] = current[r] \cup svc[r].new_subscribes
          BY <1>3, <1>7, <3>1, <4>1 DEF SnapshotSend
        <5> QED
          BY <3>1, <5>1 DEF IndInv, SnapshotProgress
      <4>2. CASE r # s
        <5>1. current'[r] = current[r]
          BY <1>3, <1>7, <3>1, <4>2 DEF SnapshotSend
        <5> QED
          BY <1>1, <1>3, <3>1, <4>2, <5>1 DEF IndInv, SnapshotProgress
      <4> QED
        BY <4>1, <4>2
    <3> QED
      BY <2>1, <3>1 DEF SnapshotProgress
  <2> QED
    BY <1>3, <1>4, <2>1, <2>2, <2>3
<1>8. ASSUME SnapshotSwap(s) PROVE IndInv'
  <2>1. PICK u : u = SwapNewSubscribes(svc[s])
    OBVIOUS
  <2>2. /\ svc' = [svc EXCEPT ![s] = u] /\ svc'[s] = u
        /\ UNCHANGED <<current, late>>
        /\ thread[s] = "swap" /\ thread'[s] # "swap"
    BY <1>3, <1>8, <2>1 DEF SnapshotSwap
  <2>3. /\ u \in ServiceType /\ Members(u) = Members(svc[s])
        /\ u.need_snapshot = svc[s].need_snapshot
        /\ u.subscribes = Members(svc[s]) /\ u.new_subscribes = {}
    BY <1>3, <2>1, SwapLemma
  <2>4. SnapshotProgress'
    <3>1. ASSUME NEW r \in StateServices
          PROVE  /\ svc'[r].subscribes \subseteq current[r] \cup late[r]
                 /\ thread'[r] = "swap" =>
                       svc'[r].new_subscribes \subseteq current[r] \cup late[r]
      <4>1. CASE r = s
        BY <2>2, <2>3, <4>1 DEF IndInv, SnapshotProgress, Members
      <4>2. CASE r # s
        BY <1>1, <1>3, <2>2, <4>2 DEF IndInv, SnapshotProgress
      <4> QED
        BY <4>1, <4>2
    <3> QED
      BY <2>2, <3>1 DEF SnapshotProgress
  <2> QED
    BY <1>2, <1>3, <2>2, <2>3, <2>4
<1> QED
  BY <1>5, <1>6, <1>7, <1>8 DEF ServiceStep

\* A server that has just been created.
LEMMA InitIndInv == ServicesAssumption /\ Init => IndInv
<1> SUFFICES ASSUME ServicesAssumption, Init PROVE IndInv
  OBVIOUS
<1>1. /\ job.kind = "none" /\ job.conn = NoConn /\ job.todo = {}
      /\ job.at = "next" /\ job \in JobType
  BY DEF Init, Idle, Job, JobType, JobKinds, NoWish, Wish, ServicesAssumption
<1>2. \A s \in Services : /\ svc[s].subscribes = {} /\ svc[s].new_subscribes = {}
                          /\ svc[s].need_snapshot = (s \in Snapshotting)
                          /\ Members(svc[s]) = {}
                          /\ svc[s] \in ServiceType
  BY DEF Init, NewService, Members, ServiceType
<1>3. TypeOK
  BY <1>1, <1>2 DEF Init, TypeOK, ThreadStates, ServicesAssumption
<1>4. TablesDisjoint /\ ClosedIsUnsubscribed /\ ServicesOK
  BY <1>2 DEF Init, TablesDisjoint, ClosedIsUnsubscribed, ServicesOK
<1>5. JobOK /\ RemovalProgress /\ WantsProgress
  BY <1>1 DEF Init, JobOK, RemovalProgress, WantsProgress, Unlocked
<1>6. SnapshotProgress
  BY <1>2 DEF Init, SnapshotProgress, ServicesAssumption
<1> QED
  BY <1>3, <1>4, <1>5, <1>6 DEF IndInv

\* A step that changes none of the variables.
LEMMA StutterPreservesIndInv == IndInv /\ UNCHANGED vars => IndInv'
  BY DEF IndInv, vars, session, TypeOK, TablesDisjoint, ClosedIsUnsubscribed,
         JobOK, ServicesOK, RemovalProgress, WantsProgress, SnapshotProgress,
         Unlocked, Checking, Direct

-----------------------------------------------------------------------------
(* The theorems *)

\* The invariant is inductive, for any connections and any services.
THEOREM Invariance == Spec => []IndInv
<1>1. Init => IndInv
  BY InitIndInv, ServicesAssumption
<1>2. IndInv /\ [Next]_vars => IndInv'
  BY TaskStepPreservesIndInv, LockHolderStepPreservesIndInv,
     ServiceStepPreservesIndInv, StutterPreservesIndInv, ServicesAssumption
     DEF Next
<1> QED
  BY <1>1, <1>2, PTL DEF Spec

\* Every variable keeps the shape of the Rust field it stands for.
THEOREM TypeCorrect == Spec => []TypeOK
  BY Invariance, PTL DEF IndInv

\* No id is ever in both tables of a service, so on_unsubscribe, which looks
\* at only one of them, removes it for good.
THEOREM TablesStayDisjoint == Spec => []TablesDisjoint
  BY Invariance, PTL DEF IndInv

\* After remove_connection the id is in no table of any service.
THEOREM RemoveConnectionIsComplete == Spec => []ClosedIsUnsubscribed
  BY Invariance, PTL DEF IndInv

\* Whenever the Server lock is free, every subscription a peer asked for is in
\* force, although is_subed reads the two tables under separate locks.
THEOREM NoSubscribeIsLost == Spec => []WantedIsSubscribed
<1>1. IndInv => WantedIsSubscribed
  BY DEF IndInv, JobOK, WantsProgress, WantedIsSubscribed
<1> QED
  BY <1>1, Invariance, PTL

\* Between two callbacks every subscriber of a state service holds the latest
\* state, but for those who came between the snapshot's send and its swap.
THEOREM SnapshotIsComplete == Spec => []PromotedIsCurrent
<1>1. IndInv => PromotedIsCurrent
  BY DEF IndInv, SnapshotProgress, PromotedIsCurrent
<1> QED
  BY <1>1, Invariance, PTL

\* The Server implements Subscriptions: every step enters or leaves one
\* member set, retires a connection, or changes nothing a peer can see.
THEOREM Refinement == Spec => ImplementsSubscriptions
<1> DEFINE members == [s \in Services |-> Members(svc[s])]
<1>1. Init => Abstract!Init
  <2>1. ASSUME Init PROVE members = [s \in Services |-> {}] /\ closed = {}
    BY <2>1 DEF Init, NewService, Members
  <2> QED
    BY <2>1 DEF Abstract!Init
<1>2. ASSUME IndInv, [Next]_vars PROVE [Abstract!Next]_(Abstract!vars)
  <2>1. ASSUME svc' = svc, closed' = closed PROVE UNCHANGED Abstract!vars
    BY <2>1 DEF Abstract!vars
  <2>2. ASSUME NEW w \in job.todo, ~Unlocked, Visit(w), closed' = closed
        PROVE  Abstract!Next
    <3>1. /\ w[1] \in Services /\ w[2] \in BOOLEAN
          /\ job.conn \in Conns /\ job.conn \notin closed
          /\ svc \in [Services -> ServiceType]
          /\ svc[w[1]].subscribes \cap svc[w[1]].new_subscribes = {}
          /\ ~svc[w[1]].need_snapshot => svc[w[1]].new_subscribes = {}
      BY <1>2, <2>2 DEF IndInv, JobOK, TypeOK, TablesDisjoint, ServicesOK
    <3>2. CASE w[2]
      <4>1. svc' = [svc EXCEPT ![w[1]] = OnSubscribe(@, job.conn)]
        BY <2>2, <3>2 DEF Visit
      <4>2. Members(OnSubscribe(svc[w[1]], job.conn))
              = Members(svc[w[1]]) \cup {job.conn}
        BY <3>1, OnSubscribeLemma
      <4>3. members' = [members EXCEPT ![w[1]] = @ \cup {job.conn}]
        BY <3>1, <4>1, <4>2
      <4>4. Abstract!Enter(w[1], job.conn)
        BY <2>2, <3>1, <4>3 DEF Abstract!Enter
      <4> QED
        BY <3>1, <4>4 DEF Abstract!Next
    <3>3. CASE ~w[2]
      <4>1. svc' = [svc EXCEPT ![w[1]] = OnUnsubscribe(@, job.conn)]
        BY <2>2, <3>3 DEF Visit
      <4>2. Members(OnUnsubscribe(svc[w[1]], job.conn))
              = Members(svc[w[1]]) \ {job.conn}
        BY <3>1, OnUnsubscribeLemma
      <4>3. members' = [members EXCEPT ![w[1]] = @ \ {job.conn}]
        BY <3>1, <4>1, <4>2
      <4>4. Abstract!Leave(w[1], job.conn)
        BY <2>2, <3>1, <4>3 DEF Abstract!Leave
      <4> QED
        BY <3>1, <4>4 DEF Abstract!Next
    <3> QED
      BY <3>1, <3>2, <3>3
  <2>3. ASSUME TaskStep PROVE svc' = svc /\ closed' = closed
    BY <2>3 DEF TaskStep, AddConnection, AddCameraConnection, RemoveConnection,
                UpdateOption, CaptureDisplays, SwitchDisplay
  <2>4. ASSUME NEW w \in Wish, VisitDirect(w) PROVE Abstract!Next
    BY <1>2, <2>2, <2>4 DEF VisitDirect, Direct, Unlocked
  <2>5. ASSUME Apply PROVE Abstract!Next
    <3>1. job.cur \in job.todo /\ ~Unlocked
      BY <1>2, <2>5 DEF Apply, Checking, IndInv, JobOK
    <3> QED
      BY <2>2, <2>5, <3>1 DEF Apply
  <2>6. ASSUME Finish PROVE [Abstract!Next]_(Abstract!vars)
    <3>1. CASE job.kind = "remove"
      <4>1. /\ svc' = svc /\ closed' = closed \cup {job.conn}
            /\ job.conn \in Conns
            /\ \A s \in Services : job.conn \notin Members(svc[s])
        BY <1>2, <2>6, <3>1
           DEF Finish, AllVisited, IndInv, JobOK, RemovalProgress
      <4>2. Abstract!Retire(job.conn)
        BY <4>1 DEF Abstract!Retire
      <4> QED
        BY <4>1, <4>2 DEF Abstract!Next
    <3>2. CASE job.kind # "remove"
      BY <2>1, <2>6, <3>2 DEF Finish
    <3> QED
      BY <3>1, <3>2
  <2>7. ASSUME \/ \E w \in Wish : IsSubedFirst(w)
               \/ IsSubedSecond \/ StartCount \/ FollowWindow
        PROVE  svc' = svc /\ closed' = closed
    BY <2>7 DEF IsSubedFirst, IsSubedSecond, StartCount, FollowWindow
  <2>8. ASSUME NEW s \in Services, ServiceStep(s) PROVE UNCHANGED Abstract!vars
    <3>1. CASE SnapshotSwap(s)
      <4>1. /\ svc' = [svc EXCEPT ![s] = SwapNewSubscribes(@)]
            /\ closed' = closed /\ svc \in [Services -> ServiceType]
        BY <1>2, <3>1 DEF SnapshotSwap, IndInv, TypeOK
      <4>2. Members(SwapNewSubscribes(svc[s])) = Members(svc[s])
        BY <4>1, SwapLemma
      <4>3. members' = members
        BY <4>1, <4>2
      <4> QED
        BY <4>1, <4>3 DEF Abstract!vars
    <3>2. CASE ~SnapshotSwap(s)
      <4>1. svc' = svc /\ closed' = closed
        BY <2>8, <3>2 DEF ServiceStep, Poll, Publish, KeepState, CallbackError,
                          SnapshotCheck, SnapshotSend
      <4> QED
        BY <2>1, <4>1
    <3> QED
      BY <3>1, <3>2
  <2>9. ASSUME UNCHANGED vars PROVE svc' = svc /\ closed' = closed
    BY <2>9 DEF vars
  <2> QED
    BY <1>2, <2>1, <2>3, <2>4, <2>5, <2>6, <2>7, <2>8, <2>9
       DEF Next, LockHolderStep
<1> QED
  BY <1>1, <1>2, Invariance, PTL DEF Spec, ImplementsSubscriptions, Abstract!Spec
=============================================================================
