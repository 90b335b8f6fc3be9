-------------------------- MODULE SnapshotPipeline --------------------------
(***************************************************************************)
(* Publication of market snapshots on one event loop: the collector builds *)
(* a list of opportunities over several awaits and publishes it to the     *)
(* SnapshotStore and to the latest-only slots of its consumers; the shadow *)
(* runtime writes annotations back; dashboard editors and the catalog      *)
(* importer change the market bindings while a round is under way.         *)
(*                                                                         *)
(* The contents of a list are reduced to the publication it comes from and *)
(* the set of binding edits its trading capabilities were decided under.   *)
(***************************************************************************)
EXTENDS Integers

CONSTANTS
    Consumers,       \* consumers with a slot, the shadow ledger among them
    Shadow,          \* the consumer "shadow-ledger"
    Editors,         \* requests that edit a binding, each one once
    Importers,       \* those of them that are catalog imports
    MaxGenerations,  \* bound on publications
    MaxAttempts      \* attempts of MarketValidationService.prepare

ASSUME PipelineAssumption ==
    /\ Shadow \in Consumers
    /\ Importers \subseteq Editors
    /\ MaxGenerations \in Nat
    /\ MaxAttempts \in Nat \ {0}

VARIABLES
    \* market identities
    stage,          \* stage[e]: how far the edit of e is: EditStages
    bindings,       \* edits applied to the bindings table
    uncommitted,    \* edits of the transaction that is open on it
    read,           \* read[e]: bindings that e's refresh has read
    registry,       \* edits the in-memory registry holds
    epoch,          \* _mutation_epoch
    acknowledged,   \* dashboard edits whose request has been answered
    \* MarketCollector
    round,          \* where the round is, and what it has captured so far
    \* SnapshotStore
    generation,
    version,        \* _opportunities_version
    opportunities,  \* [gen, edits] of the published list, or NoList
    \* LatestSnapshotSlot and SnapshotConsumer
    slot,           \* slot[c]: [latest, pending, changed]
    dropped,        \* dropped[c]: _dropped
    consumer,       \* consumer[c]: [at, snapshot], with the snapshot in hand
    processed,      \* processed[c]: _processed_generation
    handled,        \* handled[c]: _processed + _failed
    \* ShadowRuntime
    active          \* snapshot of the round the worker computes, or NoSnapshot

editVars == <<stage, bindings, uncommitted, read, registry, epoch, acknowledged>>
storeVars == <<generation, version, opportunities>>
slotVars == <<slot, dropped>>
consumerVars == <<consumer, processed, handled>>
vars == <<stage, bindings, uncommitted, read, registry, epoch, acknowledged, round,
          generation, version, opportunities, slot, dropped, consumer, processed,
          handled, active>>

EditStages == {"new", "writing", "saved", "locked", "read", "done"}
RoundStages == {"idle", "combining", "annotating", "discovering", "building", "built"}

NoList == [gen |-> 0, edits |-> {}]
Lists == [gen : Nat, edits : SUBSET Editors]

NoSnapshot == [gen |-> 0, version |-> 0, list |-> NoList]
Snapshots == [gen : Nat, version : Nat, list : Lists]

Looking == [at |-> "looking", snapshot |-> NoSnapshot]
Asleep == [at |-> "asleep", snapshot |-> NoSnapshot]
Handling(s) == [at |-> "handling", snapshot |-> s]

NoRound == [at |-> "idle", epoch |-> 0, attemptEpoch |-> 0, attempt |-> 0, edits |-> {}]

TypeOK ==
    /\ stage \in [Editors -> EditStages]
    /\ bindings \subseteq Editors
    /\ uncommitted \subseteq Editors
    /\ read \in [Editors -> SUBSET Editors]
    /\ registry \subseteq Editors
    /\ epoch \in Nat
    /\ acknowledged \subseteq Editors
    /\ round \in [at : RoundStages, epoch : Nat, attemptEpoch : Nat,
                  attempt : 0..MaxAttempts, edits : SUBSET Editors]
    /\ generation \in Nat
    /\ version \in Nat
    /\ opportunities \in Lists
    /\ slot \in [Consumers -> [latest : Snapshots, pending : BOOLEAN, changed : BOOLEAN]]
    /\ dropped \in [Consumers -> Nat]
    /\ consumer \in [Consumers -> [at : {"looking", "asleep", "handling"},
                                   snapshot : Snapshots]]
    /\ processed \in [Consumers -> 0..generation]
    /\ handled \in [Consumers -> Nat]
    /\ active \in Snapshots

---------------------------------------------------------------------------
(* Edits of the market bindings. *)

\* BEGIN IMMEDIATE and the writes of save_binding or import_catalog.
BeginWrite(e) ==
    /\ stage[e] = "new"
    /\ uncommitted = {}
    /\ uncommitted' = {e}
    /\ stage' = [stage EXCEPT ![e] = "writing"]
    /\ UNCHANGED <<bindings, read, registry, epoch, acknowledged, round, storeVars,
                   slotVars, consumerVars, active>>

CommitWrite(e) ==
    /\ stage[e] = "writing"
    /\ bindings' = bindings \union uncommitted
    /\ uncommitted' = {}
    /\ stage' = [stage EXCEPT ![e] = "saved"]
    /\ UNCHANGED <<read, registry, epoch, acknowledged, round, storeVars, slotVars,
                   consumerVars, active>>

\* A revision conflict or an I/O error: the transaction is rolled back and
\* the request fails without a refresh.
RollBack(e) ==
    /\ stage[e] = "writing"
    /\ uncommitted' = {}
    /\ stage' = [stage EXCEPT ![e] = "done"]
    /\ UNCHANGED <<bindings, read, registry, epoch, acknowledged, round, storeVars,
                   slotVars, consumerVars, active>>

\* Mutant of RefreshLockFree: refreshes run side by side.
RefreshUnlocked == TRUE

\* _refresh_lock is free.
RefreshLockFree == \A e \in Editors : stage[e] \notin {"locked", "read"}

LockRefresh(e) ==
    /\ stage[e] = "saved"
    /\ RefreshLockFree
    /\ stage' = [stage EXCEPT ![e] = "locked"]
    /\ UNCHANGED <<bindings, uncommitted, read, registry, epoch, acknowledged, round,
                   storeVars, slotVars, consumerVars, active>>

\* list_bindings runs on the connection of the writers, without their lock: it
\* also sees what their open transaction has written.
ReadBindings(e) ==
    /\ stage[e] = "locked"
    /\ read' = [read EXCEPT ![e] = bindings \union uncommitted]
    /\ stage' = [stage EXCEPT ![e] = "read"]
    /\ UNCHANGED <<bindings, uncommitted, registry, epoch, acknowledged, round,
                   storeVars, slotVars, consumerVars, active>>

\* The new registry and epoch; a dashboard request goes on, without an await,
\* to _refresh_store, which withdraws the published opportunities.
InstallRegistry(e) ==
    /\ stage[e] = "read"
    /\ registry' = read[e]
    /\ epoch' = epoch + 1
    /\ stage' = [stage EXCEPT ![e] = "done"]
    /\ IF e \in Importers
       THEN UNCHANGED <<acknowledged, opportunities, version>>
       ELSE /\ acknowledged' = acknowledged \union {e}
            /\ opportunities' = NoList
            /\ version' = version + 1
    /\ UNCHANGED <<bindings, uncommitted, read, round, generation, slotVars,
                   consumerVars, active>>

\* A read of the refresh raises: the request fails and the registry stays.
RefreshFails(e) ==
    /\ stage[e] = "locked"
    /\ stage' = [stage EXCEPT ![e] = "done"]
    /\ UNCHANGED <<bindings, uncommitted, read, registry, epoch, acknowledged, round,
                   storeVars, slotVars, consumerVars, active>>

---------------------------------------------------------------------------
(* Slots and consumers. *)

\* Mutant of Put: a full mailbox keeps what it has.
PutIfEmpty(s, snapshot) ==
    IF s.pending THEN s
    ELSE [latest |-> snapshot, pending |-> TRUE, changed |-> TRUE]

Put(s, snapshot) == [latest |-> snapshot, pending |-> TRUE, changed |-> TRUE]

\* Mutant of Take: the mailbox is not marked as emptied.
TakePending(s) == s

Take(s) == [s EXCEPT !.pending = FALSE]

\* Mutant of Newer: the generation already processed counts as newer.
NewerOrSame(c) == slot[c].latest.gen >= processed[c]

Newer(c) == slot[c].latest.gen > processed[c]

\* get_newer finds a newer snapshot and hands it to the consumer.
GetNewer(c) ==
    /\ consumer[c] = Looking
    /\ Newer(c)
    /\ slot' = [slot EXCEPT ![c] = Take(@)]
    /\ consumer' = [consumer EXCEPT ![c] = Handling(slot[c].latest)]
    /\ UNCHANGED <<editVars, round, storeVars, dropped, processed, handled, active>>

\* get_newer finds none, clears the event and waits for it.
FallAsleep(c) ==
    /\ consumer[c] = Looking
    /\ ~Newer(c)
    /\ slot' = [slot EXCEPT ![c].changed = FALSE]
    /\ consumer' = [consumer EXCEPT ![c] = Asleep]
    /\ UNCHANGED <<editVars, round, storeVars, dropped, processed, handled, active>>

WakeUp(c) ==
    /\ consumer[c] = Asleep
    /\ slot[c].changed
    /\ consumer' = [consumer EXCEPT ![c] = Looking]
    /\ UNCHANGED <<editVars, round, storeVars, slotVars, processed, handled, active>>

\* The handler has returned or raised: the snapshot is consumed either way.
Consumed(c) ==
    /\ consumer[c].at = "handling"
    /\ processed' = [processed EXCEPT ![c] = consumer[c].snapshot.gen]
    /\ handled' = [handled EXCEPT ![c] = @ + 1]
    /\ consumer' = [consumer EXCEPT ![c] = Looking]

FinishHandler(c) ==
    /\ c # Shadow
    /\ Consumed(c)
    /\ UNCHANGED <<editVars, round, storeVars, slotVars, active>>

\* ShadowRuntime.submit reserves the single round of the worker and returns;
\* while a round is under way, or the worker is not ready, the snapshot is skipped.
Submit ==
    /\ Consumed(Shadow)
    /\ \/ /\ active = NoSnapshot
          /\ active' = consumer[Shadow].snapshot
       \/ UNCHANGED active
    /\ UNCHANGED <<editVars, round, storeVars, slotVars>>

\* Mutants of MayAnnotate: only the generation is compared; nothing is.
MayAnnotateByGeneration == generation = active.gen

MayAnnotateAlways == TRUE

\* The published list is still the one the worker has annotated.
MayAnnotate == version = active.version /\ generation = active.gen

\* _receive_message of the "round" reply: set_opportunities_if_version.
Annotate ==
    /\ active # NoSnapshot
    /\ MayAnnotate
    /\ opportunities' = active.list
    /\ version' = version + 1
    /\ active' = NoSnapshot
    /\ UNCHANGED <<editVars, round, generation, slotVars, consumerVars>>

\* The reply comes too late or without a result, or the worker has failed.
SkipAnnotation ==
    /\ active # NoSnapshot
    /\ active' = NoSnapshot
    /\ UNCHANGED <<editVars, round, storeVars, slotVars, consumerVars>>

---------------------------------------------------------------------------
(* The collector. *)

\* The exchanges have been polled; validation_epoch is read.
BeginRound ==
    /\ round.at = "idle"
    /\ round' = [NoRound EXCEPT !.at = "combining", !.epoch = epoch]
    /\ UNCHANGED <<editVars, storeVars, slotVars, consumerVars, active>>

\* Mutant of Cooperative: the last attempt yields as well.
CooperativeAlways(n) == TRUE

\* The n-th attempt yields to other tasks; the last one does not.
Cooperative(n) == n < MaxAttempts

\* An attempt of prepare copies the registry and annotates the markets.
BeginAttempt ==
    LET n == round.attempt + 1
    IN /\ round.at = "combining"
       /\ round' = [round EXCEPT !.at = IF Cooperative(n) THEN "annotating"
                                        ELSE "discovering",
                                 !.attempt = n, !.attemptEpoch = epoch]
       /\ UNCHANGED <<editVars, storeVars, slotVars, consumerVars, active>>

EndAttempt ==
    /\ round.at = "annotating"
    /\ round' = [round EXCEPT !.at = IF round.attemptEpoch = epoch THEN "discovering"
                                     ELSE "combining"]
    /\ UNCHANGED <<editVars, storeVars, slotVars, consumerVars, active>>

\* New markets have been recorded, and the attempt is checked against the
\* epoch again; further awaits follow.
Discover ==
    /\ round.at = "discovering"
    /\ round' = IF round.attemptEpoch = epoch THEN [round EXCEPT !.at = "building"]
                ELSE NoRound
    /\ UNCHANGED <<editVars, storeVars, slotVars, consumerVars, active>>

\* The opportunities are built and validated against the registry.
Build ==
    /\ round.at = "building"
    /\ round' = [round EXCEPT !.at = "built", !.edits = registry]
    /\ UNCHANGED <<editVars, storeVars, slotVars, consumerVars, active>>

\* set_opportunities, mark_published and _publish_to_slots, with no await between.
PublishList(edits) ==
    LET list == [gen |-> generation + 1, edits |-> edits]
        snapshot == [gen |-> generation + 1, version |-> version + 1, list |-> list]
    IN /\ generation < MaxGenerations
       /\ opportunities' = list
       /\ generation' = generation + 1
       /\ version' = version + 1
       /\ slot' = [c \in Consumers |-> Put(slot[c], snapshot)]
       /\ dropped' = [c \in Consumers |-> IF slot[c].pending THEN dropped[c] + 1
                                          ELSE dropped[c]]
       /\ round' = NoRound

\* Mutant of MappingUnchanged: no check before the publication.
MappingUnchecked == TRUE

MappingUnchanged == round.epoch = epoch

Publish ==
    /\ round.at = "built"
    /\ MappingUnchanged
    /\ PublishList(round.edits)
    /\ UNCHANGED <<editVars, consumerVars, active>>

\* Every exchange is ignored: an empty list, with no capability any edit could
\* revoke, is published at once.
PublishNothing ==
    /\ round.at = "idle"
    /\ PublishList(Editors)
    /\ UNCHANGED <<editVars, consumerVars, active>>

\* The mapping has changed, or an await of the round has raised.
AbortRound ==
    /\ round.at # "idle"
    /\ round' = NoRound
    /\ UNCHANGED <<editVars, storeVars, slotVars, consumerVars, active>>

---------------------------------------------------------------------------
Init ==
    /\ stage = [e \in Editors |-> "new"]
    /\ bindings = {} /\ uncommitted = {} /\ registry = {} /\ acknowledged = {}
    /\ read = [e \in Editors |-> {}]
    /\ epoch = 0
    /\ round = NoRound
    /\ generation = 0 /\ version = 0
    /\ opportunities = NoList
    /\ slot = [c \in Consumers |-> [latest |-> NoSnapshot, pending |-> FALSE,
                                    changed |-> FALSE]]
    /\ dropped = [c \in Consumers |-> 0]
    /\ consumer = [c \in Consumers |-> Looking]
    /\ processed = [c \in Consumers |-> 0]
    /\ handled = [c \in Consumers |-> 0]
    /\ active = NoSnapshot

Edit(e) ==
    \/ BeginWrite(e) \/ CommitWrite(e) \/ RollBack(e)
    \/ LockRefresh(e) \/ ReadBindings(e) \/ InstallRegistry(e) \/ RefreshFails(e)

Collect ==
    \/ BeginRound \/ BeginAttempt \/ EndAttempt \/ Discover \/ Build
    \/ Publish \/ PublishNothing \/ AbortRound

Consume(c) == GetNewer(c) \/ FallAsleep(c) \/ WakeUp(c) \/ FinishHandler(c)

Annotation == Annotate \/ SkipAnnotation

Next ==
    \/ \E e \in Editors : Edit(e)
    \/ Collect
    \/ \E c \in Consumers : Consume(c)
    \/ Submit
    \/ Annotation

\* The event loop runs every consumer task that can go on, and every handler
\* returns or raises.
Fairness == \A c \in Consumers : WF_vars(Consume(c) \/ (c = Shadow /\ Submit))

Spec == Init /\ [][Next]_vars /\ Fairness

---------------------------------------------------------------------------
(* Properties. *)

\* Once a dashboard edit has been answered, the registry that decides the
\* capabilities holds it for good: no refresh that overlaps another one puts
\* an older reading of the bindings in force (refresh, _refresh_lock).
AnsweredEditsInForce == acknowledged \subseteq registry

\* "Invalidate old opportunity capabilities immediately": after a dashboard
\* edit is answered, no list decided without it is ever published again, not
\* by a round that was under way nor by the annotation of an earlier list.
NoRevokedCapability == opportunities # NoList => acknowledged \subseteq opportunities.edits

\* The list in the store belongs to the generation readers take it for, or has
\* been withdrawn: an annotation never brings back the list of an earlier one.
ListOfThisGeneration == opportunities # NoList => opportunities.gen = generation

\* Every publication is handled by each consumer, waiting in its slot, or
\* counted as dropped.
PublicationsAccounted ==
    \A c \in Consumers :
        generation = handled[c] + dropped[c]
                     + (IF consumer[c].at = "handling" THEN 1 ELSE 0)
                     + (IF slot[c].pending THEN 1 ELSE 0)

\* A consumer never handles a generation again that it is through with, even
\* when the handler failed on it or the event fires without a newer snapshot.
NoGenerationTwice ==
    [][\A c \in Consumers : handled'[c] # handled[c] => processed'[c] > processed[c]]_vars

\* However fast snapshots are published, each consumer gets to the latest one
\* or to a later one; no wake-up is lost.
LatestHandled ==
    \A c \in Consumers : \A g \in 1..MaxGenerations :
        generation >= g ~> processed[c] >= g
=============================================================================
