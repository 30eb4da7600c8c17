---------------------------- MODULE ServiceInner ----------------------------
(***************************************************************************)
(* The subscriber tables of one host service (src/server/service.rs).      *)
(*                                                                         *)
(* A `ServiceInner` keeps two maps keyed by connection id: `subscribes`,   *)
(* who receives what the service sends, and `new_subscribes`, who joined   *)
(* since the last snapshot.  A map is modelled by its set of keys: the     *)
(* value is always the subscriber of that very id.  Every operator below   *)
(* is the body of one method and runs under the service's own RwLock.      *)
(***************************************************************************)
EXTENDS FiniteSets

CONSTANT Conns           \* connection ids

\* `ServiceTmpl::new`: an active service nobody is subscribed to.
NewService(need_snapshot) ==
    [subscribes |-> {}, new_subscribes |-> {}, need_snapshot |-> need_snapshot]

ServiceType ==
    [subscribes : SUBSET Conns, new_subscribes : SUBSET Conns,
     need_snapshot : BOOLEAN]

\* `has_subscribes`: counts the newcomers as well.
HasSubscribes(svc) == svc.subscribes # {} \/ svc.new_subscribes # {}

\* Everyone the service knows of.
Members(svc) == svc.subscribes \cup svc.new_subscribes

\* Plausible bug: the "already subscribed" early return is forgotten.
OnSubscribeUnchecked(svc, c) ==
    IF svc.need_snapshot
    THEN [svc EXCEPT !.new_subscribes = @ \cup {c}]
    ELSE [svc EXCEPT !.subscribes = @ \cup {c}]

\* `on_subscribe`: a member of `subscribes` is left alone; a newcomer waits
\* for the snapshot if the service takes one.
OnSubscribe(svc, c) ==
    IF c \in svc.subscribes THEN svc
    ELSE IF svc.need_snapshot
         THEN [svc EXCEPT !.new_subscribes = @ \cup {c}]
         ELSE [svc EXCEPT !.subscribes = @ \cup {c}]

\* Plausible bug: the newcomers' table is forgotten.
OnUnsubscribePromotedOnly(svc, c) ==
    [svc EXCEPT !.subscribes = @ \ {c}]

\* `on_unsubscribe`: `new_subscribes` is only looked at when the id was not in
\* `subscribes`, so the two tables have to stay disjoint.
OnUnsubscribe(svc, c) ==
    IF c \in svc.subscribes
    THEN [svc EXCEPT !.subscribes = @ \ {c}]
    ELSE [svc EXCEPT !.new_subscribes = @ \ {c}]

\* Plausible bug: the tables are exchanged instead of merged.
SwapNewSubscribesReplace(svc) ==
    [svc EXCEPT !.subscribes = svc.new_subscribes, !.new_subscribes = {}]

\* `swap_new_subscribes`, run by `Drop for ServiceSwap`: whoever is in
\* `new_subscribes` by then becomes a subscriber.
SwapNewSubscribes(svc) ==
    [svc EXCEPT !.subscribes = @ \cup svc.new_subscribes,
                !.new_subscribes = {}]
=============================================================================
