--------------------------- MODULE CuratedRegistry ---------------------------
(***************************************************************************)
(* What the curation tools promise of actions.json, whatever steps they    *)
(* take: the registry is a set of records, no two of which describe one    *)
(* event or carry one id; it grows by whole batches that hold no barred    *)
(* event, as long as the list of barred events can be read; and a record   *)
(* leaves it only once its event is barred.                                *)
(***************************************************************************)
CONSTANTS
    Event,          \* the records
    Key(_),         \* the event of a record, as a removal names it
    Id(_),          \* its action_id
    Same(_, _)      \* two records describe one event

VARIABLES
    registry,   \* the records
    barred,     \* the keys of the events that were removed for good
    enforced    \* the list of those keys can be read

(* Two distinct records of the set are told apart by every identity. *)
Consistent(set) ==
    \A a, b \in set : a # b => ~Same(a, b) /\ Id(a) # Id(b)

Init == registry \subseteq Event /\ Consistent(registry) /\ barred = {} /\ enforced = TRUE

Bar(a) ==
    /\ a \in registry
    /\ barred' = barred \cup {Key(a)}
    /\ UNCHANGED <<registry, enforced>>

Drop(a) ==
    /\ a \in registry
    /\ Key(a) \in barred
    /\ registry' = registry \ {a}
    /\ UNCHANGED <<barred, enforced>>

Grow(batch) ==
    /\ enforced => \A a \in batch : Key(a) \notin barred
    /\ registry' = registry \cup batch
    /\ Consistent(registry')
    /\ UNCHANGED <<barred, enforced>>

Edit ==
    /\ enforced' = ~enforced
    /\ UNCHANGED <<registry, barred>>

Next ==
    \/ Edit
    \/ \E a \in registry : Bar(a) \/ Drop(a)
    \/ \E batch \in SUBSET Event : Grow(batch)

Spec == Init /\ [][Next]_<<registry, barred, enforced>>
=============================================================================
