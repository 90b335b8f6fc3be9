----------------------- MODULE SnapshotPipelineProofs -----------------------
(***************************************************************************)
(* Proofs about SnapshotPipeline: edits that were answered stay in force,  *)
(* neither a round nor an annotation publishes a revoked capability, and   *)
(* every publication is accounted for at every consumer.                   *)
(***************************************************************************)
EXTENDS SnapshotPipeline, TLAPS

---------------------------------------------------------------------------
(* The inductive invariant. *)

Refreshing == {"locked", "read"}

\* The edits: one writer, one refresh, and what a refresh has read.
EditInv ==
    /\ \A e \in Editors : stage[e] = "writing" => uncommitted = {e}
    /\ \A e \in Editors : stage[e] \in {"saved"} \union Refreshing => e \in bindings
    /\ \A d, e \in Editors : stage[d] \in Refreshing /\ stage[e] \in Refreshing => d = e
    /\ \A e \in Editors : stage[e] = "read" => e \in read[e] /\ acknowledged \subseteq read[e]
    /\ acknowledged \subseteq bindings
    /\ acknowledged \subseteq registry

\* The round: how often it may still be annotated, and what it was built from.
RoundInv ==
    /\ round.at \in {"combining", "annotating"} => round.attempt < MaxAttempts
    /\ round.epoch <= epoch
    /\ round.at = "built" /\ round.epoch = epoch => acknowledged \subseteq round.edits

\* A snapshot is of the past, and while its version is the store's its list
\* knows every answered edit.
SoundAt(s, g, v, answered) ==
    /\ s.gen <= g
    /\ s.version <= v
    /\ s.list.gen = s.gen
    /\ s.version = v => answered \subseteq s.list.edits

\* The snapshots in a slot, in a consumer's hands or at the worker.
Held == {slot[c].latest : c \in Consumers} \union {consumer[c].snapshot : c \in Consumers}
        \union {active, NoSnapshot}

SnapshotInv == \A s \in Held : SoundAt(s, generation, version, acknowledged)

ListInv == NoRevokedCapability /\ ListOfThisGeneration

Inv == TypeOK /\ EditInv /\ RoundInv /\ SnapshotInv /\ ListInv

---------------------------------------------------------------------------
LEMMA InitInv == Init => Inv
<1> SUFFICES ASSUME Init PROVE Inv
  OBVIOUS
<1> USE PipelineAssumption DEF Init, NoList, NoSnapshot, NoRound, Looking
<1>1. TypeOK
  BY DEF TypeOK, EditStages, RoundStages, Lists, Snapshots
<1>2. EditInv
  BY DEF EditInv, Refreshing
<1>3. RoundInv
  BY DEF RoundInv
<1>4. SnapshotInv
  BY DEF SnapshotInv, Held, SoundAt
<1>5. ListInv
  BY DEF ListInv, NoRevokedCapability, ListOfThisGeneration
<1> QED
  BY <1>1, <1>2, <1>3, <1>4, <1>5 DEF Inv

\* The snapshot put into the slots by a publication has the type of one.
LEMMA PublishType ==
    ASSUME TypeOK, NEW edits \in SUBSET Editors, PublishList(edits)
    PROVE  /\ opportunities' \in Lists
           /\ generation' \in Nat /\ generation' = generation + 1
           /\ version' \in Nat /\ version' = version + 1
           /\ slot' \in [Consumers -> [latest : Snapshots, pending : BOOLEAN,
                                       changed : BOOLEAN]]
           /\ dropped' \in [Consumers -> Nat]
           /\ round' = NoRound
  BY DEF TypeOK, PublishList, Put, Lists, Snapshots

LEMMA InitialValues ==
    /\ NoRound \in [at : RoundStages, epoch : Nat, attemptEpoch : Nat,
                    attempt : 0..MaxAttempts, edits : SUBSET Editors]
    /\ NoSnapshot \in Snapshots
    /\ NoList \in Lists
  BY PipelineAssumption DEF NoRound, RoundStages, NoSnapshot, Snapshots, NoList, Lists

\* The type invariant, one step at a time.
LEMMA StepType == TypeOK /\ RoundInv /\ SnapshotInv /\ [Next]_vars => TypeOK'
<1> SUFFICES ASSUME TypeOK, RoundInv, SnapshotInv, [Next]_vars
             PROVE  TypeOK'
  OBVIOUS
<1> USE PipelineAssumption DEF EditStages, RoundStages
<1>1. ASSUME NEW e \in Editors, Edit(e) PROVE TypeOK'
  <2>1. CASE BeginWrite(e)
    BY <2>1 DEF TypeOK, BeginWrite, storeVars, slotVars, consumerVars
  <2>2. CASE CommitWrite(e)
    BY <2>2 DEF TypeOK, CommitWrite, storeVars, slotVars, consumerVars
  <2>3. CASE RollBack(e)
    BY <2>3 DEF TypeOK, RollBack, storeVars, slotVars, consumerVars
  <2>4. CASE LockRefresh(e)
    BY <2>4 DEF TypeOK, LockRefresh, storeVars, slotVars, consumerVars
  <2>5. CASE ReadBindings(e)
    BY <2>5 DEF TypeOK, ReadBindings, storeVars, slotVars, consumerVars
  <2>6. CASE InstallRegistry(e)
    BY <2>6 DEF TypeOK, InstallRegistry, slotVars, consumerVars, NoList, Lists
  <2>7. CASE RefreshFails(e)
    BY <2>7 DEF TypeOK, RefreshFails, storeVars, slotVars, consumerVars
  <2> QED
    BY <1>1, <2>1, <2>2, <2>3, <2>4, <2>5, <2>6, <2>7 DEF Edit
<1>2. CASE Collect
  <2>1. CASE BeginRound
    <3>1. round' \in [at : RoundStages, epoch : Nat, attemptEpoch : Nat,
                      attempt : 0..MaxAttempts, edits : SUBSET Editors]
      BY <2>1, InitialValues DEF TypeOK, BeginRound
    <3> QED
      BY <2>1, <3>1 DEF TypeOK, BeginRound, editVars, storeVars, slotVars, consumerVars
  <2>2. CASE BeginAttempt
    <3>1. round.attempt + 1 \in 0..MaxAttempts
      BY <2>2 DEF TypeOK, RoundInv, BeginAttempt
    <3>2. round' \in [at : RoundStages, epoch : Nat, attemptEpoch : Nat,
                      attempt : 0..MaxAttempts, edits : SUBSET Editors]
      BY <2>2, <3>1 DEF TypeOK, BeginAttempt
    <3> QED
      BY <2>2, <3>2 DEF TypeOK, BeginAttempt, editVars, storeVars, slotVars, consumerVars
  <2>3. CASE EndAttempt
    BY <2>3 DEF TypeOK, EndAttempt, editVars, storeVars, slotVars, consumerVars
  <2>4. CASE Discover
    <3>1. round' \in [at : RoundStages, epoch : Nat, attemptEpoch : Nat,
                      attempt : 0..MaxAttempts, edits : SUBSET Editors]
      BY <2>4, InitialValues DEF TypeOK, Discover
    <3> QED
      BY <2>4, <3>1 DEF TypeOK, Discover, editVars, storeVars, slotVars, consumerVars
  <2>5. CASE Build
    BY <2>5 DEF TypeOK, Build, editVars, storeVars, slotVars, consumerVars
  <2>6. CASE Publish
    <3>1. round.edits \in SUBSET Editors
      BY DEF TypeOK
    <3> QED
      BY <2>6, <3>1, PublishType DEF TypeOK, Publish, NoRound, editVars, consumerVars
  <2>7. CASE PublishNothing
    BY <2>7, PublishType DEF TypeOK, PublishNothing, NoRound, editVars, consumerVars
  <2>8. CASE AbortRound
    BY <2>8 DEF TypeOK, AbortRound, NoRound, editVars, storeVars, slotVars, consumerVars
  <2> QED
    BY <1>2, <2>1, <2>2, <2>3, <2>4, <2>5, <2>6, <2>7, <2>8 DEF Collect
<1>3. ASSUME NEW c \in Consumers, Consume(c) PROVE TypeOK'
  <2>1. CASE GetNewer(c)
    BY ZenonT(40), <2>1 DEF TypeOK, GetNewer, Take, Handling, editVars, storeVars
  <2>2. CASE FallAsleep(c)
    BY ZenonT(40), <2>2, InitialValues DEF TypeOK, FallAsleep, Asleep, editVars, storeVars
  <2>3. CASE WakeUp(c)
    BY <2>3, InitialValues DEF TypeOK, WakeUp, Looking, editVars, storeVars, slotVars
  <2>4. CASE FinishHandler(c)
    <3>1. consumer[c].snapshot.gen \in 0..generation
      BY DEF TypeOK, SnapshotInv, Held, SoundAt, Snapshots
    <3> QED
      BY <2>4, <3>1, InitialValues DEF TypeOK, FinishHandler, Consumed, Looking, editVars,
                                       storeVars, slotVars
  <2> QED
    BY <1>3, <2>1, <2>2, <2>3, <2>4 DEF Consume
<1>4. CASE Submit
  <2>1. consumer[Shadow].snapshot.gen \in 0..generation
    BY DEF TypeOK, SnapshotInv, Held, SoundAt, Snapshots
  <2>2. active' \in Snapshots
    BY <1>4 DEF TypeOK, Submit
  <2> QED
    BY <1>4, <2>1, <2>2, InitialValues DEF TypeOK, Submit, Consumed, Looking, editVars,
                                           storeVars, slotVars
<1>5. CASE Annotation
  <2>1. active.list \in Lists
    BY DEF TypeOK, Snapshots
  <2> QED
    BY <1>5, <2>1, InitialValues DEF TypeOK, Annotation, Annotate, SkipAnnotation, editVars,
                                     storeVars, slotVars, consumerVars
<1>6. CASE UNCHANGED vars
  BY <1>6 DEF TypeOK, vars
<1> QED
  BY <1>1, <1>2, <1>3, <1>4, <1>5, <1>6 DEF Next

\* Nothing but the edits themselves touches what EditInv is about.
LEMMA StepEdit == TypeOK /\ EditInv /\ [Next]_vars => EditInv'
<1> SUFFICES ASSUME TypeOK, EditInv, [Next]_vars
             PROVE  EditInv'
  OBVIOUS
<1> USE DEF Refreshing
<1>1. ASSUME NEW e \in Editors, Edit(e) PROVE EditInv'
  <2>1. CASE BeginWrite(e)
    <3>1. \A d \in Editors : stage[d] # "writing"
      BY <2>1 DEF BeginWrite, EditInv
    <3> QED
      BY <2>1, <3>1 DEF TypeOK, EditInv, BeginWrite
  <2>2. CASE CommitWrite(e)
    <3>1. uncommitted = {e}
      BY <2>2 DEF CommitWrite, EditInv
    <3>2. \A d \in Editors \ {e} : stage[d] # "writing"
      BY <3>1 DEF EditInv
    <3> QED
      BY <2>2, <3>1, <3>2 DEF TypeOK, EditInv, CommitWrite
  <2>3. CASE RollBack(e)
    <3>1. uncommitted = {e}
      BY <2>3 DEF RollBack, EditInv
    <3>2. \A d \in Editors \ {e} : stage[d] # "writing"
      BY <3>1 DEF EditInv
    <3> QED
      BY <2>3, <3>1, <3>2 DEF TypeOK, EditInv, RollBack
  <2>4. CASE LockRefresh(e)
    BY <2>4 DEF TypeOK, EditInv, LockRefresh, RefreshLockFree
  <2>5. CASE ReadBindings(e)
    BY <2>5 DEF TypeOK, EditInv, ReadBindings
  <2>6. CASE InstallRegistry(e)
    <3>1. \A d \in Editors \ {e} : stage[d] # "read"
      BY <2>6 DEF InstallRegistry, EditInv
    <3> QED
      BY <2>6, <3>1 DEF TypeOK, EditInv, InstallRegistry
  <2>7. CASE RefreshFails(e)
    BY <2>7 DEF TypeOK, EditInv, RefreshFails
  <2> QED
    BY <1>1, <2>1, <2>2, <2>3, <2>4, <2>5, <2>6, <2>7 DEF Edit
<1>2. CASE UNCHANGED editVars
  BY <1>2 DEF EditInv, editVars
<1>3. CASE Collect
  BY <1>2, <1>3 DEF Collect, BeginRound, BeginAttempt, EndAttempt, Discover, Build, Publish,
                    PublishNothing, AbortRound
<1>4. ASSUME NEW c \in Consumers, Consume(c) PROVE EditInv'
  BY <1>2, <1>4 DEF Consume, GetNewer, FallAsleep, WakeUp, FinishHandler
<1>5. CASE Submit \/ Annotation \/ UNCHANGED vars
  BY <1>2, <1>5 DEF Submit, Annotation, Annotate, SkipAnnotation, vars, editVars
<1> QED
  BY <1>1, <1>3, <1>4, <1>5 DEF Next

\* A round is built from the registry in force, and only an edit that moves the
\* epoch on can then be answered.
LEMMA StepRound == TypeOK /\ EditInv /\ RoundInv /\ [Next]_vars => RoundInv'
<1> SUFFICES ASSUME TypeOK, EditInv, RoundInv, [Next]_vars
             PROVE  RoundInv'
  OBVIOUS
<1> USE PipelineAssumption
<1>1. ASSUME NEW e \in Editors, Edit(e) PROVE RoundInv'
  <2>1. UNCHANGED round
    BY <1>1 DEF Edit, BeginWrite, CommitWrite, RollBack, LockRefresh, ReadBindings,
                InstallRegistry, RefreshFails
  <2>2. UNCHANGED <<epoch, acknowledged>> \/ epoch' = epoch + 1
    BY <1>1 DEF Edit, BeginWrite, CommitWrite, RollBack, LockRefresh, ReadBindings,
                InstallRegistry, RefreshFails
  <2> QED
    BY <2>1, <2>2 DEF TypeOK, RoundInv
<1>2. CASE Collect
  <2>1. UNCHANGED <<epoch, acknowledged>>
    BY <1>2 DEF Collect, BeginRound, BeginAttempt, EndAttempt, Discover, Build, Publish,
                PublishNothing, AbortRound, editVars
  <2>2. CASE round' = NoRound
    BY <2>1, <2>2 DEF TypeOK, RoundInv, NoRound
  <2>3. CASE BeginRound
    BY <2>1, <2>3 DEF TypeOK, RoundInv, BeginRound, NoRound
  <2>4. CASE BeginAttempt
    BY <2>1, <2>4 DEF TypeOK, RoundInv, BeginAttempt, Cooperative
  <2>5. CASE EndAttempt
    BY <2>1, <2>5 DEF TypeOK, RoundInv, EndAttempt
  <2>6. CASE Discover
    BY <2>1, <2>2, <2>6 DEF TypeOK, RoundInv, Discover
  <2>7. CASE Build
    BY <2>1, <2>7 DEF TypeOK, RoundInv, EditInv, Build
  <2> QED
    BY <1>2, <2>2, <2>3, <2>4, <2>5, <2>6, <2>7 DEF Collect, Publish, PublishNothing,
                                                  PublishList, AbortRound
<1>3. CASE UNCHANGED <<round, epoch, acknowledged>>
  BY <1>3 DEF RoundInv
<1>4. ASSUME NEW c \in Consumers, Consume(c) PROVE RoundInv'
  BY <1>3, <1>4 DEF Consume, GetNewer, FallAsleep, WakeUp, FinishHandler, editVars
<1>5. CASE Submit \/ Annotation \/ UNCHANGED vars
  BY <1>3, <1>5 DEF Submit, Annotation, Annotate, SkipAnnotation, vars, editVars
<1> QED
  BY <1>1, <1>2, <1>4, <1>5 DEF Next

---------------------------------------------------------------------------
(* Snapshots and the store. *)

\* What SoundAt says survives every step that leaves the store and the answered
\* edits alone, and every step that moves the version on.
LEMMA SoundLater ==
    ASSUME NEW s \in Snapshots, NEW g \in Nat, NEW v \in Nat, NEW a,
           NEW g2 \in Nat, NEW v2 \in Nat, NEW a2,
           SoundAt(s, g, v, a),
           (g2 = g /\ v2 = v /\ a2 = a) \/ (g2 >= g /\ v2 > v)
    PROVE  SoundAt(s, g2, v2, a2)
  BY DEF SoundAt, Snapshots

StoreStays == UNCHANGED <<generation, version, opportunities, acknowledged>>

StoreMovesOn == generation' >= generation /\ version' = version + 1

\* The snapshot that PublishList puts into the slots.
Published(edits) ==
    [gen |-> generation + 1, version |-> version + 1,
     list |-> [gen |-> generation + 1, edits |-> edits]]

Publishing ==
    \E edits \in SUBSET Editors :
        /\ acknowledged \subseteq edits
        /\ PublishList(edits)
        /\ UNCHANGED <<acknowledged, consumer, active>>

\* The three ways in which a step may concern the store, and where the
\* snapshots held after it come from.
LEMMA StoreStep ==
    ASSUME TypeOK, EditInv, RoundInv, [Next]_vars
    PROVE  \/ StoreStays /\ Held' \subseteq Held
           \/ StoreMovesOn /\ Held' \subseteq Held /\ opportunities' = NoList
              /\ generation' = generation
           \/ StoreMovesOn /\ Held' \subseteq Held /\ UNCHANGED <<generation, acknowledged>>
              /\ opportunities' = active.list /\ active # NoSnapshot /\ MayAnnotate
           \/ Publishing
<1> DEFINE Quiet == StoreStays /\ Held' \subseteq Held
<1>1. ASSUME UNCHANGED <<slot, consumer, active>> PROVE Held' = Held
  BY <1>1 DEF Held
<1>2. ASSUME NEW e \in Editors, Edit(e), ~InstallRegistry(e) PROVE Quiet
  BY <1>1, <1>2 DEF Edit, BeginWrite, CommitWrite, RollBack, LockRefresh, ReadBindings,
                    RefreshFails, storeVars, slotVars, consumerVars, StoreStays
<1>3. ASSUME NEW e \in Editors, InstallRegistry(e), e \in Importers PROVE Quiet
  BY <1>1, <1>3 DEF InstallRegistry, slotVars, consumerVars, StoreStays
<1>4. ASSUME NEW e \in Editors, InstallRegistry(e), e \notin Importers
      PROVE  StoreMovesOn /\ Held' \subseteq Held /\ opportunities' = NoList
             /\ generation' = generation
  BY <1>1, <1>4 DEF TypeOK, InstallRegistry, slotVars, consumerVars, StoreMovesOn
<1>5. ASSUME Collect, ~Publish, ~PublishNothing PROVE Quiet
  BY <1>1, <1>5 DEF Collect, BeginRound, BeginAttempt, EndAttempt, Discover, Build, AbortRound,
                    editVars, storeVars, slotVars, consumerVars, StoreStays
<1>6. ASSUME Publish PROVE Publishing
  <2>1. acknowledged \subseteq round.edits
    BY <1>6 DEF Publish, MappingUnchanged, RoundInv
  <2>2. round.edits \in SUBSET Editors
    BY DEF TypeOK
  <2> QED
    BY <1>6, <2>1, <2>2 DEF Publish, Publishing, editVars, consumerVars
<1>7. ASSUME PublishNothing PROVE Publishing
  BY <1>7 DEF TypeOK, PublishNothing, Publishing, editVars, consumerVars
<1>8. ASSUME NEW c \in Consumers, Consume(c) PROVE Quiet
  <2>1. StoreStays
    BY <1>8 DEF Consume, GetNewer, FallAsleep, WakeUp, FinishHandler, editVars, storeVars,
                StoreStays
  <2>2. active' = active
    BY <1>8 DEF Consume, GetNewer, FallAsleep, WakeUp, FinishHandler
  <2>3. \A d \in Consumers : slot'[d].latest = slot[d].latest
    BY <1>8 DEF TypeOK, Consume, GetNewer, FallAsleep, WakeUp, FinishHandler, Take, slotVars
  <2>4. \A d \in Consumers : consumer'[d].snapshot \in {consumer[d].snapshot, NoSnapshot,
                                                       slot[d].latest}
    BY <1>8 DEF TypeOK, Consume, GetNewer, FallAsleep, WakeUp, FinishHandler, Consumed,
                Looking, Asleep, Handling
  <2> QED
    BY <2>1, <2>2, <2>3, <2>4 DEF Held
<1>9. ASSUME Submit PROVE Quiet
  <2>1. StoreStays /\ slot' = slot
    BY <1>9 DEF Submit, editVars, storeVars, slotVars, StoreStays
  <2>2. active' \in {active, consumer[Shadow].snapshot} /\ Shadow \in Consumers
    BY <1>9, PipelineAssumption DEF Submit
  <2>3. \A d \in Consumers : consumer'[d].snapshot \in {consumer[d].snapshot, NoSnapshot}
    BY <1>9 DEF TypeOK, Submit, Consumed, Looking
  <2> QED
    BY <2>1, <2>2, <2>3 DEF Held
<1>10. ASSUME Annotate
       PROVE  StoreMovesOn /\ Held' \subseteq Held /\ UNCHANGED <<generation, acknowledged>>
              /\ opportunities' = active.list /\ active # NoSnapshot /\ MayAnnotate
  BY <1>10 DEF TypeOK, Annotate, editVars, slotVars, consumerVars, Held, StoreMovesOn
<1>11. ASSUME SkipAnnotation PROVE Quiet
  BY <1>11 DEF SkipAnnotation, editVars, storeVars, slotVars, consumerVars, Held, StoreStays
<1>12. ASSUME UNCHANGED vars PROVE Quiet
  BY <1>1, <1>12 DEF vars, StoreStays
<1> QED
  BY <1>2, <1>3, <1>4, <1>5, <1>6, <1>7, <1>8, <1>9, <1>10, <1>11, <1>12
     DEF Next, Edit, Annotation, Quiet

\* A publication puts one new snapshot, sound at once, into the slots.
LEMMA PublishedHeld ==
    ASSUME TypeOK, Publishing
    PROVE  /\ StoreMovesOn
           /\ \A s \in Held' : s \in Held \/ SoundAt(s, generation', version', acknowledged')
           /\ opportunities'.gen = generation'
           /\ acknowledged' \subseteq opportunities'.edits
<1> PICK edits \in SUBSET Editors :
        /\ acknowledged \subseteq edits
        /\ PublishList(edits)
        /\ UNCHANGED <<acknowledged, consumer, active>>
  BY DEF Publishing
<1>1. SoundAt(Published(edits), generation', version', acknowledged')
  BY DEF TypeOK, PublishList, Published, SoundAt
<1>2. \A s \in Held' : s \in Held \/ s = Published(edits)
  BY DEF Held, PublishList, Put, Published
<1>3. StoreMovesOn
  BY DEF TypeOK, PublishList, StoreMovesOn
<1> QED
  BY <1>1, <1>2, <1>3 DEF PublishList

LEMMA HeldType == TypeOK => Held \subseteq Snapshots
  BY InitialValues DEF TypeOK, Held

LEMMA StepSnapshot == Inv /\ [Next]_vars /\ TypeOK' => SnapshotInv'
<1> SUFFICES ASSUME Inv, [Next]_vars, TypeOK', NEW s \in Held'
             PROVE  SoundAt(s, generation', version', acknowledged')
  BY DEF SnapshotInv
<1>1. /\ generation \in Nat /\ generation' \in Nat
      /\ version \in Nat /\ version' \in Nat
  BY DEF Inv, TypeOK
<1>2. ASSUME s \in Held, StoreStays \/ StoreMovesOn
      PROVE  SoundAt(s, generation', version', acknowledged')
  <2>1. s \in Snapshots /\ SoundAt(s, generation, version, acknowledged)
    BY <1>2, HeldType DEF Inv, SnapshotInv
  <2>2. \/ generation' = generation /\ version' = version /\ acknowledged' = acknowledged
        \/ generation' >= generation /\ version' > version
    BY <1>1, <1>2 DEF StoreStays, StoreMovesOn
  <2> QED
    BY <1>1, <2>1, <2>2, SoundLater
<1>3. CASE Publishing
  BY <1>2, <1>3, PublishedHeld DEF Inv
<1>4. CASE Held' \subseteq Held /\ (StoreStays \/ StoreMovesOn)
  BY <1>2, <1>4
<1> QED
  BY <1>3, <1>4, StoreStep DEF Inv

LEMMA StepList == Inv /\ [Next]_vars => ListInv'
<1> SUFFICES ASSUME Inv, [Next]_vars
             PROVE  ListInv'
  OBVIOUS
<1> USE DEF ListInv, NoRevokedCapability, ListOfThisGeneration
<1>1. CASE StoreStays
  BY <1>1 DEF Inv, StoreStays
<1>2. CASE opportunities' = NoList
  BY <1>2 DEF NoList
<1>3. ASSUME UNCHANGED <<generation, acknowledged>>, opportunities' = active.list, MayAnnotate
      PROVE  ListInv'
  <2>1. SoundAt(active, generation, version, acknowledged)
    BY DEF Inv, SnapshotInv, Held
  <2> QED
    BY <1>3, <2>1 DEF SoundAt, MayAnnotate
<1>4. CASE Publishing
  BY <1>4, PublishedHeld DEF Inv
<1> QED
  BY <1>1, <1>2, <1>3, <1>4, StoreStep DEF Inv

LEMMA Invariance == Spec => []Inv
<1>1. Inv /\ [Next]_vars => Inv'
  BY StepType, StepEdit, StepRound, StepSnapshot, StepList DEF Inv
<1> QED
  BY InitInv, <1>1, PTL DEF Spec

---------------------------------------------------------------------------
(* The theorems. *)

\* Every reachable state of the pipeline has the declared types, however many
\* editors, consumers and publications there are.
THEOREM PipelineTypes == Spec => []TypeOK
<1>1. Inv => TypeOK
  BY DEF Inv
<1> QED
  BY Invariance, <1>1, PTL

\* refresh never puts an older reading of the bindings in force over an edit
\* whose request has been answered.
THEOREM AnsweredEditsKept == Spec => []AnsweredEditsInForce
<1>1. Inv => AnsweredEditsInForce
  BY DEF Inv, EditInv, AnsweredEditsInForce
<1> QED
  BY Invariance, <1>1, PTL

\* Neither a round that overlaps an edit nor a late annotation publishes
\* capabilities that were decided without an answered edit.
THEOREM NoCapabilityRevived == Spec => []NoRevokedCapability
<1>1. Inv => NoRevokedCapability
  BY DEF Inv, ListInv
<1> QED
  BY Invariance, <1>1, PTL

\* The list readers find belongs to the generation the store announces.
THEOREM ListsCurrent == Spec => []ListOfThisGeneration
<1>1. Inv => ListOfThisGeneration
  BY DEF Inv, ListInv
<1> QED
  BY Invariance, <1>1, PTL
---------------------------------------------------------------------------
(* Publications and consumers. *)

AtWork(c) == consumer[c].at = "handling"

\* The newest generation that c has been handed.
HandedTo(c) == IF AtWork(c) THEN consumer[c].snapshot.gen ELSE processed[c]

\* The mailbox of c: what lies in it is not older than what c was handed, it is
\* empty only of what c was handed, and a consumer asleep beside a newer
\* snapshot has been woken already.
MailboxInv(c) ==
    /\ HandedTo(c) <= slot[c].latest.gen
    /\ AtWork(c) => processed[c] < consumer[c].snapshot.gen
    /\ ~slot[c].pending => slot[c].latest.gen = HandedTo(c)
    /\ consumer[c].at = "asleep" /\ Newer(c) => slot[c].changed
    /\ generation = handled[c] + dropped[c] + (IF AtWork(c) THEN 1 ELSE 0)
                    + (IF slot[c].pending THEN 1 ELSE 0)

MailboxesInv == \A c \in Consumers : MailboxInv(c)

\* A step is quiet for a consumer that it leaves alone.
LEMMA QuietMailbox ==
    ASSUME NEW c \in Consumers, MailboxInv(c), slot'[c] = slot[c], dropped'[c] = dropped[c],
           consumer'[c] = consumer[c], processed'[c] = processed[c],
           handled'[c] = handled[c], generation' = generation
    PROVE  MailboxInv(c)'
  BY DEF MailboxInv, HandedTo, AtWork, Newer

\* The numbers MailboxInv relates.
LEMMA MailboxTypes ==
    ASSUME TypeOK, NEW c \in Consumers
    PROVE  /\ generation \in Nat /\ handled[c] \in Nat /\ dropped[c] \in Nat
           /\ processed[c] \in Nat /\ consumer[c].snapshot.gen \in Nat
           /\ slot[c].latest.gen \in Nat /\ slot[c].pending \in BOOLEAN
           /\ slot[c].latest \in Snapshots
<1>1. /\ slot[c] \in [latest : Snapshots, pending : BOOLEAN, changed : BOOLEAN]
      /\ consumer[c] \in [at : {"looking", "asleep", "handling"}, snapshot : Snapshots]
      /\ processed[c] \in 0..generation /\ generation \in Nat
      /\ handled[c] \in Nat /\ dropped[c] \in Nat
  BY DEF TypeOK
<1>2. processed[c] \in Nat
  BY <1>1
<1> QED
  BY <1>1, <1>2 DEF Snapshots

LEMMA PublishMailbox ==
    ASSUME TypeOK, Inv, MailboxesInv, NEW edits, PublishList(edits),
           UNCHANGED consumerVars, NEW c \in Consumers
    PROVE  MailboxInv(c)'
<1>0. MailboxInv(c)
  BY DEF MailboxesInv
<1>1. /\ slot'[c].pending = TRUE /\ slot'[c].changed = TRUE
      /\ slot'[c].latest.gen = generation + 1
      /\ generation' = generation + 1
      /\ dropped'[c] = IF slot[c].pending THEN dropped[c] + 1 ELSE dropped[c]
  BY DEF PublishList, Put
<1>2. UNCHANGED <<AtWork(c), HandedTo(c), processed, consumer, handled>>
  BY DEF consumerVars, AtWork, HandedTo
<1>3. /\ slot[c].latest.gen <= generation
      /\ HandedTo(c) \in Nat
  BY MailboxTypes DEF Inv, SnapshotInv, Held, SoundAt, HandedTo
<1> USE MailboxTypes
<1>4. HandedTo(c)' <= slot'[c].latest.gen
  BY <1>0, <1>1, <1>2, <1>3 DEF MailboxInv
<1>5. generation' = handled'[c] + dropped'[c] + (IF AtWork(c) THEN 1 ELSE 0)
                    + (IF slot'[c].pending THEN 1 ELSE 0)
  <2>1. CASE slot[c].pending
    BY <1>0, <1>1, <1>2, <2>1 DEF MailboxInv
  <2>2. CASE ~slot[c].pending
    BY <1>0, <1>1, <1>2, <2>2 DEF MailboxInv
  <2> QED
    BY <2>1, <2>2
<1> QED
  BY <1>0, <1>1, <1>2, <1>4, <1>5 DEF MailboxInv

LEMMA ConsumedMailbox ==
    ASSUME TypeOK, MailboxesInv, NEW c \in Consumers, Consumed(c), UNCHANGED generation,
           UNCHANGED slotVars
    PROVE  MailboxInv(c)'
<1>1. MailboxInv(c) /\ AtWork(c)
  BY DEF MailboxesInv, Consumed, AtWork
<1>2. /\ processed'[c] = consumer[c].snapshot.gen
      /\ handled'[c] = handled[c] + 1
      /\ consumer'[c].at = "looking"
  BY DEF TypeOK, Consumed, Looking
<1>3. HandedTo(c)' = HandedTo(c) /\ ~AtWork(c)'
  BY <1>1, <1>2 DEF HandedTo, AtWork
<1>4. UNCHANGED <<slot, dropped, generation>>
  BY DEF slotVars
<1> QED
  BY <1>1, <1>2, <1>3, <1>4, MailboxTypes DEF MailboxInv

LEMMA StepMailbox == Inv /\ Inv' /\ MailboxesInv /\ [Next]_vars => MailboxesInv'
<1> SUFFICES ASSUME Inv, MailboxesInv, [Next]_vars, NEW d \in Consumers
             PROVE  MailboxInv(d)'
  BY DEF MailboxesInv
<1>0. TypeOK /\ MailboxInv(d)
  BY DEF Inv, MailboxesInv
<1>1. ASSUME UNCHANGED <<slot, dropped, consumer, processed, handled, generation>>
      PROVE  MailboxInv(d)'
  BY <1>0, <1>1, QuietMailbox
<1>2. ASSUME NEW e \in Editors, Edit(e) PROVE MailboxInv(d)'
  BY <1>1, <1>2 DEF Edit, BeginWrite, CommitWrite, RollBack, LockRefresh, ReadBindings,
                    InstallRegistry, RefreshFails, storeVars, slotVars, consumerVars
<1>3. CASE Collect
  <2>1. CASE Publish
    BY <1>0, <2>1, PublishMailbox DEF Publish, Inv
  <2>2. CASE PublishNothing
    BY <1>0, <2>2, PublishMailbox DEF PublishNothing, Inv
  <2>3. CASE BeginRound \/ BeginAttempt \/ EndAttempt \/ Discover \/ Build \/ AbortRound
    BY <1>1, <2>3 DEF BeginRound, BeginAttempt, EndAttempt, Discover, Build, AbortRound,
                      storeVars, slotVars, consumerVars
  <2> QED
    BY <1>3, <2>1, <2>2, <2>3 DEF Collect
<1>4. ASSUME NEW c \in Consumers, Consume(c) PROVE MailboxInv(d)'
  <2>1. CASE c # d
    <3>1. /\ slot'[d] = slot[d] /\ dropped'[d] = dropped[d] /\ consumer'[d] = consumer[d]
          /\ processed'[d] = processed[d] /\ handled'[d] = handled[d]
          /\ generation' = generation
      BY <1>0, <1>4, <2>1 DEF TypeOK, Consume, GetNewer, FallAsleep, WakeUp, FinishHandler,
                              Consumed, slotVars, storeVars
    <3> QED
      BY <1>0, <3>1, QuietMailbox
  <2>2. CASE c = d /\ GetNewer(d)
    <3>1. /\ UNCHANGED <<generation, dropped, processed, handled>>
          /\ consumer[d].at = "looking" /\ Newer(d)
          /\ slot'[d].pending = FALSE /\ slot'[d].latest = slot[d].latest
          /\ consumer'[d].at = "handling" /\ consumer'[d].snapshot = slot[d].latest
      BY <1>0, <2>2 DEF TypeOK, GetNewer, Looking, Take, Handling, storeVars
    <3>2. /\ processed[d] < slot[d].latest.gen
          /\ ~AtWork(d) /\ AtWork(d)' /\ HandedTo(d)' = slot[d].latest.gen
          /\ HandedTo(d) = processed[d]
      BY <1>0, <3>1, MailboxTypes DEF Newer, AtWork, HandedTo
    <3>3. slot[d].pending
      BY <1>0, <3>2, MailboxTypes DEF MailboxInv
    <3> QED
      BY <1>0, <3>1, <3>2, <3>3, MailboxTypes DEF MailboxInv
  <2>3. CASE c = d /\ FallAsleep(d)
    <3>1. /\ UNCHANGED <<generation, dropped, processed, handled>>
          /\ ~Newer(d) /\ ~AtWork(d) /\ ~AtWork(d)'
          /\ slot'[d].pending = slot[d].pending /\ slot'[d].latest = slot[d].latest
      BY <1>0, <2>3 DEF TypeOK, FallAsleep, Looking, Asleep, AtWork, storeVars
    <3>2. ~Newer(d)' /\ HandedTo(d)' = HandedTo(d)
      BY <3>1 DEF Newer, HandedTo
    <3> QED
      BY <1>0, <3>1, <3>2 DEF MailboxInv
  <2>4. CASE c = d /\ WakeUp(d)
    <3>1. /\ UNCHANGED <<generation, slot, dropped, processed, handled>>
          /\ ~AtWork(d) /\ consumer'[d].at = "looking"
      BY <1>0, <2>4 DEF TypeOK, WakeUp, Looking, Asleep, AtWork, storeVars, slotVars
    <3> QED
      BY <1>0, <3>1 DEF MailboxInv, AtWork, HandedTo
  <2>5. CASE c = d /\ FinishHandler(d)
    BY <1>0, <2>5, ConsumedMailbox DEF FinishHandler, storeVars
  <2> QED
    BY <1>4, <2>1, <2>2, <2>3, <2>4, <2>5 DEF Consume
<1>5. CASE Submit
  <2>1. CASE d = Shadow
    BY <1>0, <1>5, <2>1, ConsumedMailbox DEF Submit, storeVars
  <2>2. CASE d # Shadow
    <3>1. /\ slot' = slot /\ dropped' = dropped /\ consumer'[d] = consumer[d]
          /\ processed'[d] = processed[d] /\ handled'[d] = handled[d]
          /\ generation' = generation
      BY <1>0, <1>5, <2>2 DEF TypeOK, Submit, Consumed, slotVars, storeVars
    <3> QED
      BY <1>0, <3>1, QuietMailbox
  <2> QED
    BY <2>1, <2>2
<1>6. CASE Annotation \/ UNCHANGED vars
  BY <1>1, <1>6 DEF Annotation, Annotate, SkipAnnotation, storeVars, slotVars, consumerVars,
                    vars
<1> QED
  BY <1>2, <1>3, <1>4, <1>5, <1>6 DEF Next

LEMMA MailboxInvariance == Spec => []MailboxesInv
<1>1. ASSUME Init, NEW c \in Consumers PROVE MailboxInv(c)
  <2>1. /\ slot[c].latest.gen = 0 /\ slot[c].pending = FALSE
        /\ consumer[c].at = "looking"
        /\ processed[c] = 0 /\ handled[c] = 0 /\ dropped[c] = 0 /\ generation = 0
    BY <1>1 DEF Init, Looking, NoSnapshot
  <2>2. ~AtWork(c) /\ HandedTo(c) = 0
    BY <2>1 DEF AtWork, HandedTo
  <2> QED
    BY <2>1, <2>2 DEF MailboxInv
<1>2. Init => MailboxesInv
  BY <1>1 DEF MailboxesInv
<1> QED
  BY Invariance, <1>2, StepMailbox, PTL DEF Spec

---------------------------------------------------------------------------
\* Every publication is, for each consumer, handled, in its hands, waiting in
\* its slot or counted as dropped: put overwrites and counts under no await.
THEOREM NothingUnaccounted == Spec => []PublicationsAccounted
<1>1. MailboxesInv => PublicationsAccounted
  BY DEF MailboxesInv, MailboxInv, AtWork, PublicationsAccounted
<1> QED
  BY MailboxInvariance, <1>1, PTL

\* The safety half of LatestHandled: a consumer never sleeps on a snapshot that
\* is newer than what it is through with unless its event is already set.
NoLostWakeUp ==
    \A c \in Consumers : consumer[c] = Asleep /\ Newer(c) => slot[c].changed

THEOREM WakeUpsKept == Spec => []NoLostWakeUp
<1>1. MailboxesInv => NoLostWakeUp
  BY DEF MailboxesInv, MailboxInv, NoLostWakeUp, Asleep
<1> QED
  BY MailboxInvariance, <1>1, PTL

\* A consumer goes from generation to newer generation; what its handler raised
\* on is not handed to it again.
THEOREM GenerationsAscend == Spec => NoGenerationTwice
<1>1. ASSUME Inv, MailboxesInv, [Next]_vars, NEW d \in Consumers, handled'[d] # handled[d]
      PROVE  processed'[d] > processed[d]
  <2>0. TypeOK /\ MailboxInv(d)
    BY <1>1 DEF Inv, MailboxesInv
  <2>1. ASSUME NEW c \in Consumers, Consumed(c) PROVE processed'[d] > processed[d]
    <3>1. c = d
      BY <1>1, <2>0, <2>1 DEF TypeOK, Consumed
    <3>2. processed'[d] = consumer[d].snapshot.gen /\ AtWork(d)
      BY <2>0, <2>1, <3>1 DEF TypeOK, Consumed, AtWork
    <3> QED
      BY <2>0, <3>2, MailboxTypes DEF MailboxInv
  <2>2. ASSUME UNCHANGED handled PROVE FALSE
    BY <1>1, <2>2
  <2>3. ASSUME NEW e \in Editors, Edit(e) PROVE FALSE
    BY <2>2, <2>3 DEF Edit, BeginWrite, CommitWrite, RollBack, LockRefresh, ReadBindings,
                      InstallRegistry, RefreshFails, consumerVars
  <2>4. ~Collect
    BY <2>2 DEF Collect, BeginRound, BeginAttempt, EndAttempt, Discover, Build, Publish,
                PublishNothing, AbortRound, consumerVars
  <2>5. ASSUME NEW c \in Consumers, Consume(c) PROVE processed'[d] > processed[d]
    BY <2>1, <2>2, <2>5 DEF Consume, GetNewer, FallAsleep, WakeUp, FinishHandler
  <2>6. ASSUME Submit PROVE processed'[d] > processed[d]
    BY <2>1, <2>6, PipelineAssumption DEF Submit
  <2>7. ~Annotation /\ ~UNCHANGED vars
    BY <2>2 DEF Annotation, Annotate, SkipAnnotation, consumerVars, vars
  <2> QED
    BY <1>1, <2>3, <2>4, <2>5, <2>6, <2>7 DEF Next
<1>2. ASSUME Inv, MailboxesInv, [Next]_vars
      PROVE  [\A c \in Consumers : handled'[c] # handled[c] => processed'[c] > processed[c]]_vars
  BY <1>1, <1>2
<1> QED
  BY Invariance, MailboxInvariance, <1>2, PTL DEF Spec, NoGenerationTwice
=============================================================================
