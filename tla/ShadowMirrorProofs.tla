------------------------- MODULE ShadowMirrorProofs -------------------------
(***************************************************************************)
(* Proofs about ShadowMirror for any snapshots, requests and restarts.     *)
(* The invariant says of every capture, message and reply where its round  *)
(* stands: what it will make of the child's copies, given the mirrors.     *)
(***************************************************************************)
EXTENDS ShadowMirror, SequenceTheorems, TLAPS

(* Functions from some indices to quotes.                                  *)
Partial == UNION {[D -> Quotes] : D \in SUBSET Nat}

Mirrors == [rows : Seq(Rows), quotes : Partial, table : Tables \union {None}]
ChildStates ==
    [stage : ChildStages, epoch : Nat, rows : Seq(Rows), quotes : Partial,
     table : Tables \union {None}, minute : Minutes \union {None},
     sequence : 0..MaxRequests, synchronized : BOOLEAN, token : Nat,
     next : 0..MaxRequests, turn : Minutes \union {None}, selected : SUBSET Nat]

Typed ==
    /\ mode \in Modes
    /\ epoch \in Nat \ {0} /\ restarts \in 0..MaxRestarts /\ serial \in 0..MaxRequests
    /\ active \in {"none", "round", "statistics"}
    /\ capture \in Captures /\ request \subseteq Nat /\ broken \in BOOLEAN
    /\ resync \in BOOLEAN /\ sequence \in 0..serial
    /\ mirror \in Mirrors
    /\ child \in ChildStates
    /\ toParent \in Seq(Range(toParent))
    /\ context \in IF active = "round" THEN Snapshots ELSE {NoRound}

(* What a child holds against the mirrors; the round it is in.             *)
Alive == child.stage # "dead"
Same == child.rows = mirror.rows /\ child.quotes = mirror.quotes /\ child.table = mirror.table
Synced == child.synchronized /\ child.sequence = sequence /\ Same
Rested == child.stage = "idle" /\ (~resync => Synced)
Turn == child.token = serial /\ child.next = sequence /\ child.turn = context.minute

(* A capture that is asked for, by a reply on its way or already received. *)
CaptureFits(what, indices) ==
    /\ active = "round"
    /\ what = "thresholds" => sequence < serial /\ (Alive => Rested)
    /\ what = "directory" =>
          mirror.table = context.table /\ (Alive => child.stage = "directory" /\ Turn /\ Same)
    /\ what = "quotes" =>
          /\ mirror.table = context.table /\ mirror.rows = context.rows
          /\ indices \subseteq DOMAIN context.rows
          /\ Alive => child.stage = "quotes" /\ Turn /\ Same /\ child.selected = indices

Capturing == capture # "idle" => toChild = NoMessage /\ CaptureFits(capture, request)

(* What the message to the child will make of it.                          *)
RoundMessage ==
    /\ active = "round" /\ mirror.table = context.table
    /\ Alive =>
          /\ child.stage = "idle"
          /\ toChild.sequence = sequence /\ toChild.minute = context.minute
          /\ toChild.full =>
                mirror.rows = <<>> /\ mirror.quotes = Empty /\ toChild.table = context.table
          /\ ~toChild.full =>
                /\ InStep(toChild) /\ child.rows = mirror.rows /\ child.quotes = mirror.quotes
                /\ toChild.table = None => child.table = context.table
                /\ toChild.table # None => toChild.table = context.table
DirectoryMessage ==
    /\ active = "round" /\ mirror.table = context.table /\ mirror.rows = context.rows
    /\ Alive =>
          /\ child.stage = "directory" /\ Turn /\ child.table = mirror.table
          /\ toChild.size = Len(context.rows)
          /\ RowsAfter(toChild) = mirror.rows /\ QuotesAfter(toChild) = mirror.quotes
QuotesMessage ==
    /\ active = "round" /\ mirror.table = context.table /\ mirror.rows = context.rows
    /\ Alive =>
          /\ child.stage = "quotes" /\ Turn
          /\ child.table = mirror.table /\ child.rows = mirror.rows
          /\ Updated(child.quotes, toChild.delta) = mirror.quotes
          /\ \A i \in child.selected :
                i \in DOMAIN mirror.quotes /\ mirror.quotes[i] = context.quotes[i]

Sending ==
    /\ toChild.kind \in {"none", "round", "directory", "quotes", "statistics"}
    /\ toChild.kind = "none" => toChild = NoMessage
    /\ toChild.kind # "none" => toChild.token = serial
    /\ toChild.kind = "round" => RoundMessage
    /\ toChild.kind = "directory" => DirectoryMessage
    /\ toChild.kind = "quotes" => QuotesMessage
    /\ toChild.kind = "statistics" => active = "statistics"

(* What a reply of this epoch says.                                        *)
AnswerFits(m) ==
    /\ active = "round"
    /\ m.ok => /\ m.view.rows = context.rows
               /\ m.view.table = context.table
               /\ \A i \in DOMAIN m.view.quotes : m.view.quotes[i] = context.quotes[i]
    /\ Alive => child.stage = "idle" /\ (~NeedsResync(m) => Synced)
ReplyFits(m) ==
    /\ m.kind \in {"ready", "capture", "round", "statistics"}
    /\ m.kind = "ready" => mode # "ready" /\ active = "none"
    /\ m.kind # "ready" => m.token = serial
    /\ m.kind = "statistics" => active = "statistics"
    /\ m.kind = "capture" => /\ m.what \in {"directory", "quotes"} /\ m.indices \subseteq Nat
                             /\ CaptureFits(m.what, m.indices)
    /\ m.kind = "round" => AnswerFits(m)

(* Replies of this epoch: there is at most one, and nothing else is under  *)
(* way with it.                                                            *)
Alone ==
    \A n, k \in DOMAIN toParent :
        toParent[n].epoch = epoch /\ toParent[k].epoch = epoch => n = k
Answering ==
    /\ \A m \in Range(toParent) :
          /\ m.epoch \in Nat /\ m.epoch <= epoch
          /\ Alive => m.epoch <= child.epoch
    /\ \A m \in Range(toParent) : m.epoch = epoch =>
          capture = "idle" /\ toChild = NoMessage /\ ReplyFits(m)
    /\ Alone

(* What the supervisor's view of the worker says about both sides.         *)
Lost == {"failing", "waiting", "disabled", "closed"}
Supervised ==
    /\ child.epoch <= epoch
    /\ mode \in {"starting", "ready"} /\ Alive => child.epoch = epoch
    /\ mode \in Lost => child.epoch < epoch
                        /\ \A m \in Range(toParent) : m.epoch < epoch
    /\ mode = "waiting" => ~Alive /\ active = "none" /\ resync /\ restarts < MaxRestarts
    /\ mode = "starting" => active = "none"
    /\ child.stage = "starting" =>
          /\ resync /\ active = "none" /\ mode # "ready"
          /\ \A m \in Range(toParent) : m.epoch < child.epoch
    /\ Alive /\ active # "round" /\ child.stage # "starting" => Rested

IInv == Typed /\ Capturing /\ Sending /\ Answering /\ Supervised

---------------------------------------------------------------------------
(* A snapshot is never taken for the absence of one.                       *)
LEMMA NoRoundDiffers == \A s \in Snapshots : s # NoRound
    BY MirrorAssumption DEF NoRound

(* The invariant implies the types the run checks.                         *)
LEMMA PartialFacts == \A f \in Partial : PartialQuotes(f)
    BY DEF Partial, PartialQuotes

LEMMA TypedImpliesTypeOK == Typed => TypeOK
<1> SUFFICES ASSUME Typed PROVE TypeOK
    OBVIOUS
<1>1. /\ mode \in Modes
      /\ epoch \in Nat /\ restarts \in 0..MaxRestarts /\ serial \in 0..MaxRequests
      /\ active \in {"none", "round", "statistics"}
      /\ capture \in Captures /\ request \subseteq Nat /\ broken \in BOOLEAN
      /\ resync \in BOOLEAN
    BY DEF Typed
<1>2. sequence \in 0..MaxRequests
    BY MirrorAssumption DEF Typed
<1>3. context \in Snapshots \union {NoRound}
    BY DEF Typed
<1>4. /\ mirror.rows \in Seq(Rows) /\ mirror.table \in Tables \union {None}
      /\ PartialQuotes(mirror.quotes)
    BY PartialFacts DEF Typed, Mirrors
<1>5. /\ child.stage \in ChildStages
      /\ child.rows \in Seq(Rows) /\ PartialQuotes(child.quotes)
      /\ child.table \in Tables \union {None}
      /\ child.sequence \in 0..MaxRequests /\ child.synchronized \in BOOLEAN
    BY PartialFacts DEF Typed, ChildStates
<1> QED
    BY <1>1, <1>2, <1>3, <1>4, <1>5 DEF TypeOK

(* The queue of replies: one is taken from its head.                       *)
LEMMA PopFacts ==
    ASSUME toParent \in Seq(Range(toParent)), toParent # <<>>, toParent' = Tail(toParent),
           epoch' = epoch
    PROVE  /\ toParent' \in Seq(Range(toParent'))
           /\ Range(toParent') \subseteq Range(toParent)
           /\ Head(toParent) \in Range(toParent)
           /\ Alone => Alone'
           /\ Alone /\ Head(toParent).epoch = epoch => \A m \in Range(toParent') : m.epoch # epoch
<1> DEFINE S == Range(toParent)
           t == Tail(toParent)
<1>1. /\ t \in Seq(S) /\ Len(t) = Len(toParent) - 1
      /\ \A i \in 1..Len(t) : t[i] = toParent[i + 1]
      /\ Head(toParent) \in S
    BY HeadTailProperties
<1>2. /\ Len(toParent) \in Nat /\ DOMAIN toParent = 1..Len(toParent)
      /\ Len(t) \in Nat /\ DOMAIN t = 1..Len(t) /\ t \in [1..Len(t) -> S]
    BY <1>1, LenProperties
<1>3. \A i \in DOMAIN t : i + 1 \in DOMAIN toParent /\ t[i] = toParent[i + 1]
    BY <1>1, <1>2
<1>4. Head(toParent) = toParent[1] /\ 1 \in DOMAIN toParent
    BY <1>1, <1>2
<1>5. t \in Seq(Range(t))
  <2>1. t \in [1..Len(t) -> Range(t)]
      BY <1>2 DEF Range
  <2> QED
      BY <1>2, <2>1, SeqDef
<1> HIDE DEF t
<1>6. Range(t) \subseteq S
    BY <1>3 DEF Range
<1>7. Alone => \A n, k \in DOMAIN t : t[n].epoch = epoch /\ t[k].epoch = epoch => n = k
    BY <1>2, <1>3 DEF Alone
<1>8. Alone /\ Head(toParent).epoch = epoch => \A n \in DOMAIN t : t[n].epoch # epoch
    BY <1>2, <1>3, <1>4 DEF Alone
<1>9. toParent' = t /\ Range(toParent') = Range(t)
    BY DEF t, Range
<1>10. Alone => Alone'
    BY <1>7, <1>9 DEF Alone
<1>11. Alone /\ Head(toParent).epoch = epoch => \A m \in Range(t) : m.epoch # epoch
    BY <1>8 DEF Range
<1> QED
    BY <1>1, <1>5, <1>6, <1>9, <1>10, <1>11

(* One is added at its end.                                                *)
LEMMA SayFacts ==
    ASSUME toParent \in Seq(Range(toParent)), NEW r, toParent' = Append(toParent, r),
           epoch' = epoch
    PROVE  /\ toParent' \in Seq(Range(toParent'))
           /\ Range(toParent') = Range(toParent) \union {r}
           /\ (\A m \in Range(toParent) : m.epoch # epoch) => Alone'
<1> DEFINE S == Range(toParent) \union {r}
           t == Append(toParent, r)
<1>1. toParent \in Seq(S)
    BY SeqMonotonic
<1>2. /\ t \in Seq(S) /\ Len(t) = Len(toParent) + 1
      /\ \A i \in 1..Len(toParent) : t[i] = toParent[i]
      /\ t[Len(toParent) + 1] = r
    BY <1>1, AppendProperties
<1>3. /\ Len(toParent) \in Nat /\ DOMAIN toParent = 1..Len(toParent)
      /\ Len(t) \in Nat /\ DOMAIN t = 1..Len(t) /\ t \in [1..Len(t) -> S]
    BY <1>1, <1>2, LenProperties
<1>4. t \in Seq(Range(t))
  <2>1. t \in [1..Len(t) -> Range(t)]
      BY <1>3 DEF Range
  <2> QED
      BY <1>3, <2>1, SeqDef
<1> HIDE DEF t
<1>5. \A n \in DOMAIN t : n \in DOMAIN toParent \/ n = Len(toParent) + 1
    BY <1>2, <1>3
<1>6. \A n \in DOMAIN toParent : n \in DOMAIN t /\ t[n] = toParent[n]
    BY <1>2, <1>3
<1>7. Len(toParent) + 1 \in DOMAIN t
    BY <1>2, <1>3
<1>8. Range(t) = S
    BY <1>2, <1>5, <1>6, <1>7 DEF Range
<1>9. (\A m \in Range(toParent) : m.epoch # epoch) =>
          \A n, k \in DOMAIN t : t[n].epoch = epoch /\ t[k].epoch = epoch => n = k
    BY <1>5, <1>6 DEF Range
<1>10. toParent' = t
    BY DEF t
<1> QED
    BY <1>4, <1>8, <1>9, <1>10 DEF Alone

(* What a new child and new mirrors hold.                                  *)
LEMMA FreshFacts ==
    /\ Empty \in Partial /\ <<>> \in Seq(Rows)
    /\ FreshMirror \in Mirrors
    /\ \A e \in Nat : FreshChild(e) \in ChildStates
<1>1. Empty \in Partial
  <2>1. Empty \in [{} -> Quotes]
      BY DEF Empty
  <2> QED
      BY <2>1 DEF Partial
<1>2. <<>> \in Seq(Rows)
    BY EmptySeq
<1>3. FreshMirror \in Mirrors
    BY <1>1, <1>2 DEF FreshMirror, Mirrors
<1>4. ASSUME NEW e \in Nat PROVE FreshChild(e) \in ChildStates
  <2>1. 0 \in 0..MaxRequests /\ 0 \in Nat
      BY MirrorAssumption
  <2> QED
      BY <1>1, <1>2, <2>1 DEF FreshChild, ChildStates, ChildStages
<1> QED
    BY <1>1, <1>2, <1>3, <1>4

LEMMA InitHolds == Init => IInv
<1> SUFFICES ASSUME Init PROVE IInv
    OBVIOUS
<1>1. mirror \in Mirrors
    BY FreshFacts DEF Init
<1>2. child \in ChildStates
    BY FreshFacts DEF Init
<1>3. toParent \in Seq(Range(toParent)) /\ Range(toParent) = {} /\ DOMAIN toParent = {}
    BY EmptySeq DEF Init, Range
<1>4. Typed
  <2>1. restarts \in 0..MaxRestarts /\ serial \in 0..MaxRequests /\ sequence \in 0..serial
      BY MirrorAssumption DEF Init
  <2>2. mode \in Modes /\ epoch \in Nat \ {0} /\ active = "none" /\ capture \in Captures
      BY DEF Init, Modes, Captures
  <2>3. request \subseteq Nat
      BY DEF Init
  <2>4. broken \in BOOLEAN /\ resync \in BOOLEAN /\ context = NoRound
      BY DEF Init
  <2> QED
      BY <1>1, <1>2, <1>3, <2>1, <2>2, <2>3, <2>4 DEF Typed
<1>5. Capturing /\ Sending
    BY DEF Init, Capturing, Sending, NoMessage
<1>6. Answering
    BY <1>3 DEF Answering, Alone
<1>7. Supervised
    BY <1>3 DEF Init, Supervised, FreshChild, Lost, Alive
<1> QED
    BY <1>4, <1>5, <1>6, <1>7 DEF IInv

(* What a message makes of a quantified reply depends on nothing else.     *)
LEMMA ReplyFrame ==
    ASSUME NEW m, ReplyFits(m),
           UNCHANGED <<mode, serial, active, context, resync, sequence, mirror, child>>
    PROVE  ReplyFits(m)'
    BY DEF ReplyFits, CaptureFits, AnswerFits, NeedsResync, Rested, Synced, Same, Turn, Alive

(* While a message to the child or a capture is under way, or the child    *)
(* has not reported yet, there is no reply of this epoch.                  *)
LEMMA Unanswered ==
    ASSUME Typed, Capturing, Answering, Supervised,
           toChild # NoMessage \/ capture # "idle" \/ child.stage = "starting"
    PROVE  \A m \in Range(toParent) : m.epoch \in Nat /\ m.epoch < epoch
<1> SUFFICES ASSUME NEW m \in Range(toParent) PROVE m.epoch \in Nat /\ m.epoch < epoch
    OBVIOUS
<1>1. m.epoch \in Nat /\ m.epoch <= epoch /\ epoch \in Nat /\ child.epoch \in Nat
    BY DEF Answering, Typed, ChildStates
<1>2. CASE child.stage = "starting"
    BY <1>1, <1>2 DEF Supervised
<1>3. CASE toChild # NoMessage \/ capture # "idle"
    BY <1>1, <1>3 DEF Answering
<1> QED
    BY <1>1, <1>2, <1>3

(* A step of the child: it answers what it was sent, or reports.           *)
LEMMA ChildSpeaks ==
    ASSUME IInv, NEW r, toParent' = Append(toParent, r), r.epoch = child.epoch,
           toChild # NoMessage \/ child.stage = "starting",
           toChild' = NoMessage,
           child' \in ChildStates, child'.epoch = child.epoch,
           child.stage # "dead", child'.stage \in {"idle", "directory", "quotes"},
           UNCHANGED <<workerVars, roundVars, captureVars, mirrorVars>>,
           ReplyFits(r)',
           active # "round" => Rested'
    PROVE  IInv'
<1>0. /\ Typed /\ Capturing /\ Sending /\ Answering /\ Supervised
      /\ epoch \in Nat /\ child.epoch \in Nat /\ child.epoch <= epoch
    BY DEF IInv, Typed, ChildStates, Supervised
<1>1. \A m \in Range(toParent) : m.epoch \in Nat /\ m.epoch < epoch /\ m.epoch <= child.epoch
    BY <1>0, Unanswered DEF Answering, Alive
<1>2. UNCHANGED <<mode, epoch, restarts, serial, active, context, capture, request, broken,
                  resync, sequence, mirror>>
    BY DEF workerVars, roundVars, captureVars, mirrorVars
<1>3. /\ toParent' \in Seq(Range(toParent'))
      /\ Range(toParent') = Range(toParent) \union {r}
      /\ Alone'
    BY <1>0, <1>1, <1>2, SayFacts DEF Typed
<1>4. Typed'
    BY <1>0, <1>2, <1>3 DEF Typed
<1>5. capture = "idle"
    BY <1>0 DEF Capturing, CaptureFits, Supervised
<1>6. Capturing' /\ Sending'
    BY <1>2, <1>5 DEF Capturing, Sending, NoMessage
<1>7. Answering'
    BY <1>0, <1>1, <1>2, <1>3, <1>5 DEF Answering, Alive
<1>8. Supervised'
  <2>1. mode # "waiting"
      BY <1>0 DEF Supervised, Alive
  <2>2. mode \in {"starting", "ready"} => child.epoch = epoch
      BY <1>0 DEF Supervised, Alive
  <2>3. mode \in Lost => child.epoch < epoch /\ \A m \in Range(toParent') : m.epoch < epoch
      BY <1>0, <1>1, <1>3 DEF Supervised
  <2>4. mode = "starting" => active = "none"
      BY <1>0 DEF Supervised
  <2>5. child'.stage # "starting"
      OBVIOUS
  <2> QED
      BY <1>0, <1>2, <2>1, <2>2, <2>3, <2>4, <2>5 DEF Supervised, Alive
<1> QED
    BY <1>4, <1>6, <1>7, <1>8 DEF IInv

(* A step of the parent that sends what a capture asked for.               *)
LEMMA ParentSends ==
    ASSUME IInv, capture # "idle", capture' = "idle", toChild'.kind # "none",
           Sending', mirror' \in Mirrors, sequence' \in 0..serial,
           UNCHANGED <<workerVars, roundVars, request, broken, resync, toParent, child>>
    PROVE  IInv'
<1>0. /\ Typed /\ Capturing /\ Answering /\ Supervised
      /\ epoch \in Nat /\ active = "round"
    BY DEF IInv, Typed, Capturing, CaptureFits
<1>1. \A m \in Range(toParent) : m.epoch \in Nat /\ m.epoch < epoch
    BY <1>0, Unanswered
<1>2. UNCHANGED <<mode, epoch, restarts, serial, active, context>>
    BY DEF workerVars, roundVars
<1>3. Typed'
    BY <1>0, <1>2 DEF Typed, Captures
<1>4. Capturing'
    BY DEF Capturing
<1>5. Answering'
    BY <1>0, <1>1, <1>2 DEF Answering, Alone, Alive
<1>6. Supervised'
    BY <1>0, <1>2 DEF Supervised, Alive
<1> QED
    BY <1>3, <1>4, <1>5, <1>6 DEF IInv

(* While nothing is under way, nothing is in the queues of this worker.    *)
LEMMA NothingUnderWay ==
    ASSUME IInv, active = "none"
    PROVE  /\ capture = "idle" /\ toChild = NoMessage
           /\ mode = "ready" => \A m \in Range(toParent) : m.epoch \in Nat /\ m.epoch < epoch
<1>1. Typed /\ Capturing /\ Sending /\ Answering /\ epoch \in Nat
    BY DEF IInv, Typed
<1>2. capture = "idle"
    BY <1>1 DEF Capturing, CaptureFits
<1>3. toChild = NoMessage
    BY <1>1 DEF Sending, RoundMessage, DirectoryMessage, QuotesMessage
<1>4. ASSUME mode = "ready", NEW m \in Range(toParent)
      PROVE  m.epoch \in Nat /\ m.epoch < epoch
  <2>1. m.epoch \in Nat /\ m.epoch <= epoch /\ (m.epoch = epoch => ReplyFits(m))
      BY <1>1 DEF Answering
  <2>2. ~ReplyFits(m)
      BY <1>4 DEF ReplyFits, CaptureFits, AnswerFits
  <2> QED
      BY <1>1, <2>1, <2>2
<1> QED
    BY <1>2, <1>3, <1>4

(* A request is accepted by a worker that rests.                           *)
LEMMA ReadyRests ==
    ASSUME IInv, mode = "ready", active = "none"
    PROVE  Alive => Rested
    BY DEF IInv, Supervised

LEMMA SubmitKeeps == ASSUME IInv, NEW s \in Snapshots, Submit(s) PROVE IInv'
<1>1. /\ Typed /\ Answering /\ Supervised
      /\ serial \in 0..MaxRequests /\ sequence \in 0..serial /\ serial < MaxRequests
      /\ MaxRequests \in Nat
    BY MirrorAssumption DEF IInv, Typed, Submit
<1>2. /\ active = "none" /\ mode = "ready" /\ serial' = serial + 1 /\ active' = "round"
      /\ context' = s /\ capture' = "thresholds"
      /\ UNCHANGED <<mode, epoch, restarts, request, broken, resync, sequence, mirror, toChild,
                     toParent, child>>
    BY DEF Submit, SlotFree, workerVars, mirrorVars
<1>3. /\ toChild = NoMessage
      /\ \A m \in Range(toParent) : m.epoch \in Nat /\ m.epoch < epoch
      /\ Alive => Rested
    BY <1>2, NothingUnderWay, ReadyRests
<1>4. serial' \in 0..MaxRequests /\ sequence' \in 0..serial' /\ sequence' < serial'
    BY <1>1, <1>2
<1>5. Typed'
    BY <1>1, <1>2, <1>4 DEF Typed, Captures
<1>6. Capturing'
    BY <1>2, <1>3, <1>4 DEF Capturing, CaptureFits, Rested, Synced, Same, Alive
<1>7. Sending'
    BY <1>2, <1>3 DEF Sending, NoMessage
<1>8. Answering'
    BY <1>1, <1>2, <1>3 DEF Answering, Alone, Alive
<1>9. Supervised'
    BY <1>1, <1>2 DEF Supervised, Alive, Lost
<1> QED
    BY <1>5, <1>6, <1>7, <1>8, <1>9 DEF IInv

LEMMA StatisticsKeeps == ASSUME IInv, Statistics PROVE IInv'
<1>1. /\ Typed /\ Answering /\ Supervised
      /\ serial \in 0..MaxRequests /\ sequence \in 0..serial /\ serial < MaxRequests
      /\ MaxRequests \in Nat /\ context = NoRound
    BY MirrorAssumption DEF IInv, Typed, Statistics, SlotFree
<1>2. /\ active = "none" /\ mode = "ready" /\ serial' = serial + 1 /\ active' = "statistics"
      /\ toChild' = [kind |-> "statistics", token |-> serial + 1]
      /\ UNCHANGED <<mode, epoch, restarts, context, capture, request, broken, resync, sequence,
                     mirror, toParent, child>>
    BY DEF Statistics, SlotFree, workerVars, captureVars, mirrorVars
<1>3. /\ capture = "idle"
      /\ \A m \in Range(toParent) : m.epoch \in Nat /\ m.epoch < epoch
      /\ Alive => Rested
    BY <1>2, NothingUnderWay, ReadyRests
<1>4. serial' \in 0..MaxRequests /\ sequence' \in 0..serial'
    BY <1>1, <1>2
<1>5. Typed'
    BY <1>1, <1>2, <1>4 DEF Typed
<1>6. Capturing'
    BY <1>2, <1>3 DEF Capturing
<1>7. Sending'
    BY <1>2 DEF Sending
<1>8. Answering'
    BY <1>1, <1>2, <1>3 DEF Answering, Alone, Alive
<1>9. Supervised'
    BY <1>1, <1>2, <1>3 DEF Supervised, Alive, Lost, Rested, Synced, Same
<1> QED
    BY <1>5, <1>6, <1>7, <1>8, <1>9 DEF IInv

(* The snapshot of a round under way.                                      *)
LEMMA ContextFacts ==
    ASSUME Typed, active = "round"
    PROVE  /\ context \in Snapshots /\ context # NoRound
           /\ context.rows \in Seq(Rows) /\ context.quotes \in Seq(Quotes)
           /\ context.table \in Tables /\ context.table # None
           /\ context.minute \in Minutes
           /\ DOMAIN context.rows = 1..Len(context.rows) /\ Len(context.rows) \in Nat
           /\ DOMAIN context.quotes = DOMAIN context.rows
<1>1. context \in Snapshots
    BY DEF Typed
<1>2. /\ context.rows \in Seq(Rows) /\ context.quotes \in Seq(Quotes)
      /\ context.table \in Tables /\ context.table # None /\ context.minute \in Minutes
      /\ Len(context.rows) = Len(context.quotes)
    BY <1>1, MirrorAssumption
<1>3. context # NoRound
    BY <1>1, NoRoundDiffers
<1> QED
    BY <1>1, <1>2, <1>3, LenProperties

LEMMA SendThresholdsKeeps == ASSUME IInv, SendThresholds PROVE IInv'
<1>1. /\ Typed /\ Capturing /\ sequence \in 0..serial /\ serial \in Nat
      /\ mirror \in Mirrors /\ resync \in BOOLEAN
    BY MirrorAssumption DEF IInv, Typed
<1>2. active = "round" /\ sequence < serial /\ (Alive => Rested)
    BY <1>1 DEF SendThresholds, Capturing, CaptureFits
<1>3. context.table \in Tables /\ context.table # None
    BY <1>1, <1>2, ContextFacts
<1>4. mirror' \in Mirrors /\ mirror'.table = context.table
      /\ (~resync => mirror'.rows = mirror.rows /\ mirror'.quotes = mirror.quotes)
      /\ (resync => mirror'.rows = <<>> /\ mirror'.quotes = Empty)
  <2>1. Empty \in Partial /\ <<>> \in Seq(Rows)
      BY FreshFacts
  <2>2. StartingMirror \in Mirrors
        /\ (~resync => StartingMirror = mirror)
        /\ (resync => StartingMirror.rows = <<>> /\ StartingMirror.quotes = Empty)
      BY <1>1, <2>1 DEF StartingMirror, Mirrors
  <2>3. mirror' = [StartingMirror EXCEPT !.table = context.table]
      BY DEF SendThresholds
  <2> QED
      BY <1>3, <2>2, <2>3 DEF Mirrors
<1>5. /\ toChild'.kind = "round" /\ toChild'.token = serial /\ toChild'.full = resync
      /\ toChild'.sequence = sequence + 1 /\ toChild'.minute = context.minute
      /\ toChild'.table = IF resync \/ context.table # mirror.table THEN context.table ELSE None
      /\ sequence' = sequence + 1
      /\ UNCHANGED <<serial, active, context, child>>
    BY DEF SendThresholds, roundVars
<1>6. RoundMessage'
  <2>1. ASSUME Alive
        PROVE  /\ child.stage = "idle"
               /\ ~resync => child.synchronized /\ child.sequence = sequence /\ Same
      BY <1>2, <2>1 DEF Rested, Synced
  <2>2. ASSUME Alive, ~resync
        PROVE  /\ InStep(toChild)' /\ child.rows = mirror'.rows /\ child.quotes = mirror'.quotes
               /\ toChild'.table = None => child.table = context.table
               /\ toChild'.table # None => toChild'.table = context.table
      BY <1>3, <1>4, <1>5, <2>1, <2>2 DEF InStep, Same
  <2>3. resync => toChild'.table = context.table
      BY <1>5
  <2> QED
      BY <1>2, <1>4, <1>5, <2>1, <2>2, <2>3 DEF RoundMessage, Alive
<1>7. Sending'
    BY <1>5, <1>6 DEF Sending
<1>8. sequence' \in 0..serial
    BY <1>1, <1>2, <1>5
<1> QED
    BY <1>4, <1>5, <1>7, <1>8, ParentSends DEF SendThresholds, Captures

LEMMA SendDirectoryKeeps == ASSUME IInv, SendDirectory PROVE IInv'
<1> DEFINE rows == context.rows
           changed == ChangedRows(rows)
<1>1. /\ Typed /\ Capturing /\ sequence \in 0..serial /\ mirror \in Mirrors
    BY DEF IInv, Typed
<1>2. active = "round" /\ mirror.table = context.table
      /\ (Alive => child.stage = "directory" /\ Turn /\ Same)
    BY <1>1 DEF SendDirectory, Capturing, CaptureFits
<1>3. rows \in Seq(Rows) /\ DOMAIN rows = 1..Len(rows) /\ Len(rows) \in Nat
    BY <1>1, <1>2, ContextFacts
<1>4. mirror.quotes \in Partial
    BY <1>1 DEF Mirrors
<1>5. /\ mirror' = [mirror EXCEPT !.rows = rows,
                                  !.quotes = Without(Only(mirror.quotes, DOMAIN rows), changed)]
      /\ toChild' = [kind |-> "directory", token |-> serial, size |-> Len(rows),
                     delta |-> Restrict(rows, changed)]
      /\ sequence' = sequence
      /\ UNCHANGED <<serial, active, context, child>>
    BY DEF SendDirectory, roundVars
<1>6. Without(Only(mirror.quotes, DOMAIN rows), changed) \in Partial
  <2> DEFINE f == mirror.quotes
             D == (DOMAIN f \intersect DOMAIN rows) \ changed
  <2>1. PICK E \in SUBSET Nat : f \in [E -> Quotes]
      BY <1>4 DEF Partial
  <2>2. Without(Only(f, DOMAIN rows), changed) = [x \in D |-> f[x]]
      BY DEF Without, Only, Restrict
  <2>3. D \in SUBSET Nat /\ [x \in D |-> f[x]] \in [D -> Quotes]
      BY <2>1
  <2> QED
      BY <2>2, <2>3 DEF Partial
<1>7. /\ mirror' \in Mirrors /\ mirror'.rows = rows /\ mirror'.table = context.table
      /\ mirror'.table = mirror.table
      /\ mirror'.quotes = Without(Only(mirror.quotes, DOMAIN rows), changed)
    BY <1>1, <1>2, <1>3, <1>5, <1>6 DEF Mirrors
<1>8. DirectoryMessage'
  <2>1. changed \subseteq DOMAIN rows /\ DOMAIN Restrict(rows, changed) = changed
        /\ \A i \in changed : Restrict(rows, changed)[i] = rows[i]
      BY DEF ChangedRows, Restrict
  <2>2. /\ toChild'.size = Len(rows) /\ DOMAIN toChild'.delta = changed
        /\ \A i \in changed : toChild'.delta[i] = rows[i]
      BY <1>5, <2>1
  <2>3. ASSUME Alive
        PROVE  RowsAfter(toChild)' = rows
    <3>1. child'.rows = mirror.rows /\ Len(child'.rows) = Len(mirror.rows)
        BY <1>2, <1>5, <2>3 DEF Same
    <3>2. RowsAfter(toChild)' =
            [i \in 1..Len(rows) |-> IF i \in changed THEN rows[i]
                                    ELSE IF i <= Len(mirror.rows) THEN mirror.rows[i] ELSE None]
        BY <2>2, <3>1 DEF RowsAfter
    <3>3. \A i \in 1..Len(rows) : i \notin changed => i <= Len(mirror.rows)
                                                     /\ mirror.rows[i] = rows[i]
      <4>1. Len(mirror.rows) \in Nat
          BY <1>1, LenProperties DEF Mirrors
      <4> QED
          BY <1>3, <4>1 DEF ChangedRows
    <3>4. rows = [i \in 1..Len(rows) |-> rows[i]]
        BY <1>3, SeqDef
    <3> HIDE DEF rows, changed
    <3>5. RowsAfter(toChild)' = [i \in 1..Len(rows) |-> rows[i]]
        BY <3>2, <3>3
    <3> QED
        BY <3>4, <3>5
  <2>4. ASSUME Alive
        PROVE  QuotesAfter(toChild)' = mirror'.quotes
    <3>1. child'.quotes = mirror.quotes
        BY <1>2, <1>5, <2>4 DEF Same
    <3> QED
        BY <1>3, <1>7, <2>2, <3>1 DEF QuotesAfter
  <2>5. Alive => child'.stage = "directory" /\ Turn' /\ child'.table = mirror'.table
      BY <1>2, <1>5, <1>7 DEF Turn, Same
  <2> QED
      BY <1>2, <1>5, <1>7, <2>2, <2>3, <2>4, <2>5 DEF DirectoryMessage, Alive
<1>9. Sending'
    BY <1>5, <1>8 DEF Sending
<1> QED
    BY <1>1, <1>5, <1>7, <1>9, ParentSends DEF SendDirectory, Captures

LEMMA SendQuotesKeeps == ASSUME IInv, SendQuotes PROVE IInv'
<1> DEFINE changed == {i \in request : i \notin DOMAIN mirror.quotes
                                       \/ mirror.quotes[i] # context.quotes[i]}
           delta == Restrict(context.quotes, changed)
           sent == Updated(mirror.quotes, delta)
<1>1. /\ Typed /\ Capturing /\ sequence \in 0..serial /\ mirror \in Mirrors
    BY DEF IInv, Typed
<1>2. /\ active = "round" /\ mirror.table = context.table /\ mirror.rows = context.rows
      /\ request \subseteq DOMAIN context.rows
      /\ Alive => child.stage = "quotes" /\ Turn /\ Same /\ child.selected = request
    BY <1>1 DEF SendQuotes, Capturing, CaptureFits
<1>3. /\ context.quotes \in Seq(Quotes) /\ DOMAIN context.quotes = DOMAIN context.rows
      /\ DOMAIN context.rows = 1..Len(context.rows) /\ Len(context.rows) \in Nat
    BY <1>1, <1>2, ContextFacts
<1>4. mirror.quotes \in Partial
    BY <1>1 DEF Mirrors
<1>5. /\ mirror' = [mirror EXCEPT !.quotes = sent]
      /\ toChild' = [kind |-> "quotes", token |-> serial, delta |-> delta]
      /\ sequence' = sequence
      /\ UNCHANGED <<serial, active, context, child>>
    BY DEF SendQuotes, roundVars, Remembered
<1>6. DOMAIN delta = changed /\ \A i \in changed : delta[i] = context.quotes[i]
    BY DEF Restrict
<1>7. /\ DOMAIN sent = DOMAIN mirror.quotes \union changed
      /\ \A i \in DOMAIN sent : sent[i] = IF i \in changed THEN context.quotes[i]
                                          ELSE mirror.quotes[i]
    BY <1>6 DEF Updated
<1>8. sent \in Partial
  <2>1. PICK E \in SUBSET Nat : mirror.quotes \in [E -> Quotes]
      BY <1>4 DEF Partial
  <2>2. changed \subseteq Nat /\ \A i \in changed : context.quotes[i] \in Quotes
      BY <1>2, <1>3, ElementOfSeq
  <2>3. sent = [i \in DOMAIN sent |-> sent[i]]
      BY DEF Updated
  <2>4. DOMAIN sent \in SUBSET Nat /\ \A i \in DOMAIN sent : sent[i] \in Quotes
      BY <1>7, <2>1, <2>2
  <2> HIDE DEF sent
  <2>5. sent \in [DOMAIN sent -> Quotes]
      BY <2>3, <2>4
  <2> QED
      BY <2>4, <2>5 DEF Partial
<1>9. \A i \in request : i \in DOMAIN sent /\ sent[i] = context.quotes[i]
    BY <1>7
<1> HIDE DEF sent, delta, changed
<1>10. /\ mirror' \in Mirrors /\ mirror'.rows = mirror.rows /\ mirror'.table = mirror.table
       /\ mirror'.quotes = sent
    BY <1>1, <1>5, <1>8 DEF Mirrors
<1>11. QuotesMessage'
  <2>1. ASSUME Alive
        PROVE  /\ child'.stage = "quotes" /\ Turn'
               /\ child'.table = mirror'.table /\ child'.rows = mirror'.rows
               /\ Updated(child.quotes, delta) = sent
               /\ child'.selected = request
      BY <1>2, <1>5, <1>10, <2>1 DEF Turn, Same, sent
  <2>2. toChild'.delta = delta /\ child' = child
      BY <1>5
  <2> QED
      BY <1>2, <1>5, <1>9, <1>10, <2>1, <2>2 DEF QuotesMessage, Alive
<1>12. Sending'
    BY <1>5, <1>11 DEF Sending
<1> QED
    BY <1>1, <1>5, <1>10, <1>12, ParentSends DEF SendQuotes, Captures

LEMMA CaptureFailsKeeps == ASSUME IInv, CaptureFails PROVE IInv'
<1>1. Typed /\ Capturing /\ Sending /\ Answering /\ Supervised /\ epoch \in Nat
    BY DEF IInv, Typed
<1>2. /\ capture # "idle" /\ capture' = "idle" /\ resync' = TRUE /\ broken' = TRUE
      /\ UNCHANGED <<mode, epoch, restarts, serial, active, context, request, sequence, mirror,
                     toChild, toParent, child>>
    BY DEF CaptureFails, workerVars, roundVars
<1>3. /\ toChild = NoMessage /\ active = "round"
      /\ \A m \in Range(toParent) : m.epoch \in Nat /\ m.epoch < epoch
    BY <1>1, <1>2, Unanswered DEF Capturing, CaptureFits
<1>4. Typed'
    BY <1>1, <1>2 DEF Typed, Captures
<1>5. Capturing'
    BY <1>2 DEF Capturing
<1>6. Sending'
    BY <1>2, <1>3 DEF Sending, NoMessage
<1>7. Answering'
    BY <1>1, <1>2, <1>3 DEF Answering, Alone, Alive
<1>8. Supervised'
    BY <1>1, <1>2, <1>3 DEF Supervised, Alive
<1> QED
    BY <1>4, <1>5, <1>6, <1>7, <1>8 DEF IInv

(* What the child's steps share: its record, and the frame of the parent.  *)
LEMMA ChildFacts ==
    ASSUME IInv
    PROVE  /\ Typed /\ Capturing /\ Sending /\ Answering /\ Supervised
           /\ child \in ChildStates /\ mirror \in Mirrors
           /\ serial \in 0..MaxRequests /\ sequence \in 0..serial /\ MaxRequests \in Nat
           /\ sequence \in 0..MaxRequests /\ serial \in Nat
    BY MirrorAssumption DEF IInv, Typed

LEMMA ChildReadyKeeps == ASSUME IInv, ChildReady PROVE IInv'
<1> PICK r : r = [kind |-> "ready", token |-> 0, epoch |-> child.epoch]
    OBVIOUS
<1>1. /\ child.stage = "starting" /\ child' = [child EXCEPT !.stage = "idle"]
      /\ toParent' = Append(toParent, r) /\ toChild' = toChild
      /\ UNCHANGED <<workerVars, roundVars, captureVars, mirrorVars>>
    BY DEF ChildReady, Say
<1>2. /\ child \in ChildStates /\ resync = TRUE /\ active = "none" /\ mode # "ready"
    BY <1>1, ChildFacts DEF Supervised, Typed
<1>3. toChild = NoMessage
    BY <1>2, NothingUnderWay
<1>4. child' \in ChildStates /\ child'.epoch = child.epoch /\ child'.stage = "idle"
    BY <1>1, <1>2 DEF ChildStates, ChildStages
<1>5. UNCHANGED <<mode, active, resync>>
    BY <1>1 DEF workerVars, roundVars, mirrorVars
<1>6. ReplyFits(r)'
    BY <1>2, <1>5 DEF ReplyFits
<1>7. Rested'
    BY <1>2, <1>4, <1>5 DEF Rested
<1> QED
    BY <1>1, <1>3, <1>4, <1>6, <1>7, ChildSpeaks

LEMMA ChildBeginsRoundKeeps == ASSUME IInv, ChildBeginsRound PROVE IInv'
<1> DEFINE m == toChild
           start == IF m.full THEN Cleared(child) ELSE child
<1> PICK r : r = [kind |-> "capture", token |-> m.token, epoch |-> child.epoch,
                  what |-> "directory", indices |-> {}]
    OBVIOUS
<1>1. /\ child.stage = "idle" /\ m.kind = "round" /\ toChild' = NoMessage
      /\ toParent' = Append(toParent, r)
      /\ child' = [start EXCEPT !.stage = "directory", !.token = m.token,
                                !.next = m.sequence, !.turn = m.minute,
                                !.table = IF m.table = None THEN start.table ELSE m.table]
      /\ UNCHANGED <<workerVars, roundVars, captureVars, mirrorVars>>
    BY DEF ChildBeginsRound, ChildGets, Say
<1>2. UNCHANGED <<mode, serial, active, context, sequence, mirror>>
    BY <1>1 DEF workerVars, roundVars, mirrorVars
<1>3. /\ Typed /\ child \in ChildStates /\ RoundMessage /\ m.token = serial
      /\ serial \in Nat /\ sequence \in 0..MaxRequests
    BY <1>1, ChildFacts DEF Sending
<1>4. /\ active = "round" /\ mirror.table = context.table
      /\ m.sequence = sequence /\ m.minute = context.minute
      /\ m.full => mirror.rows = <<>> /\ mirror.quotes = Empty /\ m.table = context.table
      /\ ~m.full => /\ child.rows = mirror.rows /\ child.quotes = mirror.quotes
                    /\ m.table = None => child.table = context.table
                    /\ m.table # None => m.table = context.table
    BY <1>1, <1>3 DEF RoundMessage, Alive
<1>5. context.table \in Tables /\ context.table # None /\ context.minute \in Minutes
    BY <1>3, <1>4, ContextFacts
<1>6. /\ start \in ChildStates /\ start.rows = mirror.rows /\ start.quotes = mirror.quotes
      /\ start.epoch = child.epoch
      /\ ~m.full => start = child
  <2>1. Empty \in Partial /\ <<>> \in Seq(Rows)
      BY FreshFacts
  <2>2. CASE m.full
      BY <1>3, <1>4, <2>1, <2>2 DEF Cleared, ChildStates
  <2>3. CASE ~m.full
      BY <1>3, <1>4, <2>3
  <2> QED
      BY <2>2, <2>3
<1> HIDE DEF start
<1>7. (IF m.table = None THEN start.table ELSE m.table) = context.table
    BY <1>4, <1>5, <1>6
<1>8. /\ child' = [start EXCEPT !.stage = "directory", !.token = serial, !.next = sequence,
                                !.turn = context.minute, !.table = context.table]
    BY <1>1, <1>3, <1>4, <1>7
<1>9. /\ child' \in ChildStates /\ child'.epoch = child.epoch /\ child'.stage = "directory"
      /\ child'.token = serial /\ child'.next = sequence /\ child'.turn = context.minute
      /\ child'.rows = mirror.rows /\ child'.quotes = mirror.quotes
      /\ child'.table = context.table
    BY <1>3, <1>5, <1>6, <1>8 DEF ChildStates, ChildStages
<1>10. CaptureFits("directory", {})'
    BY <1>2, <1>4, <1>9 DEF CaptureFits, Turn, Same
<1>11. ReplyFits(r)'
    BY <1>2, <1>3, <1>10 DEF ReplyFits
<1>12. toChild # NoMessage /\ child.stage # "dead"
    BY <1>1 DEF NoMessage
<1> QED
    BY <1>1, <1>4, <1>9, <1>11, <1>12, ChildSpeaks

LEMMA ChildTakesDirectoryKeeps == ASSUME IInv, ChildTakesDirectory PROVE IInv'
<1> DEFINE m == toChild
<1>1. PICK selected \in SUBSET (1..m.size) :
          /\ child' = [child EXCEPT !.stage = "quotes", !.rows = RowsAfter(m),
                                    !.quotes = QuotesAfter(m), !.selected = selected]
          /\ Say([kind |-> "capture", token |-> child.token, epoch |-> child.epoch,
                  what |-> "quotes", indices |-> selected])
    BY DEF ChildTakesDirectory
<1> PICK r : r = [kind |-> "capture", token |-> child.token, epoch |-> child.epoch,
                  what |-> "quotes", indices |-> selected]
    OBVIOUS
<1>2. /\ child.stage = "directory" /\ m.kind = "directory" /\ toChild' = NoMessage
      /\ toParent' = Append(toParent, r)
      /\ UNCHANGED <<workerVars, roundVars, captureVars, mirrorVars>>
    BY <1>1 DEF ChildTakesDirectory, ChildGets, Say
<1>3. UNCHANGED <<mode, serial, active, context, sequence, mirror>>
    BY <1>2 DEF workerVars, roundVars, mirrorVars
<1>4. Typed /\ child \in ChildStates /\ mirror \in Mirrors /\ DirectoryMessage
    BY <1>2, ChildFacts DEF Sending
<1>5. /\ active = "round" /\ mirror.table = context.table /\ mirror.rows = context.rows
      /\ Turn /\ child.table = mirror.table /\ m.size = Len(context.rows)
      /\ RowsAfter(m) = mirror.rows /\ QuotesAfter(m) = mirror.quotes
    BY <1>2, <1>4 DEF DirectoryMessage, Alive
<1>6. selected \subseteq DOMAIN context.rows /\ selected \subseteq Nat
    BY <1>4, <1>5, ContextFacts
<1>7. child' = [child EXCEPT !.stage = "quotes", !.rows = mirror.rows,
                             !.quotes = mirror.quotes, !.selected = selected]
    BY <1>1, <1>5
<1>8. /\ child' \in ChildStates /\ child'.epoch = child.epoch /\ child'.stage = "quotes"
      /\ child'.rows = mirror.rows /\ child'.quotes = mirror.quotes
      /\ child'.table = child.table /\ child'.selected = selected
      /\ child'.token = child.token /\ child'.next = child.next /\ child'.turn = child.turn
    BY <1>4, <1>6, <1>7 DEF ChildStates, ChildStages, Mirrors
<1>9. CaptureFits("quotes", selected)'
    BY <1>3, <1>5, <1>6, <1>8 DEF CaptureFits, Turn, Same
<1>10. ReplyFits(r)'
    BY <1>3, <1>5, <1>6, <1>9 DEF ReplyFits, Turn
<1>11. toChild # NoMessage /\ child.stage # "dead"
    BY <1>2 DEF NoMessage
<1> QED
    BY <1>2, <1>5, <1>8, <1>10, <1>11, ChildSpeaks

LEMMA ChildAnswersKeeps == ASSUME IInv, ChildAnswers PROVE IInv'
<1> DEFINE quotes == Updated(child.quotes, toChild.delta)
<1> PICK r : r = [kind |-> "round", token |-> child.token, epoch |-> child.epoch,
                  resync |-> FALSE, sequence |-> child.next, ok |-> TRUE,
                  view |-> [rows |-> child.rows, table |-> child.table,
                            quotes |-> Restrict(quotes, child.selected)]]
    OBVIOUS
<1>1. /\ child.stage = "quotes" /\ toChild.kind = "quotes" /\ toChild' = NoMessage
      /\ toParent' = Append(toParent, r)
      /\ child' = [child EXCEPT !.stage = "idle", !.quotes = quotes, !.minute = child.turn,
                                !.sequence = child.next, !.synchronized = TRUE]
      /\ UNCHANGED <<workerVars, roundVars, captureVars, mirrorVars>>
    BY DEF ChildAnswers, ChildGets, Say
<1>2. UNCHANGED <<mode, serial, active, context, resync, sequence, mirror>>
    BY <1>1 DEF workerVars, roundVars, mirrorVars
<1>3. child \in ChildStates /\ mirror \in Mirrors /\ QuotesMessage
    BY <1>1, ChildFacts DEF Sending
<1>4. /\ active = "round" /\ mirror.table = context.table /\ mirror.rows = context.rows
      /\ Turn /\ child.table = mirror.table /\ child.rows = mirror.rows
      /\ quotes = mirror.quotes
      /\ \A i \in child.selected : mirror.quotes[i] = context.quotes[i]
    BY <1>1, <1>3 DEF QuotesMessage, Alive
<1>5. /\ r.view.rows = context.rows /\ r.view.table = context.table
      /\ \A i \in DOMAIN r.view.quotes : r.view.quotes[i] = context.quotes[i]
    BY <1>4 DEF Restrict
<1> HIDE DEF quotes
<1>6. /\ child' \in ChildStates /\ child'.epoch = child.epoch /\ child'.stage = "idle"
      /\ child'.rows = mirror.rows /\ child'.quotes = mirror.quotes
      /\ child'.table = mirror.table
      /\ child'.synchronized = TRUE /\ child'.sequence = sequence
  <2>1. child.next = sequence /\ mirror.quotes \in Partial /\ child.turn \in Minutes \union {None}
        /\ child.next \in 0..MaxRequests
      BY <1>3, <1>4 DEF Turn, Mirrors, ChildStates
  <2>2. child' = [child EXCEPT !.stage = "idle", !.quotes = mirror.quotes, !.minute = child.turn,
                               !.sequence = child.next, !.synchronized = TRUE]
      BY <1>1, <1>4
  <2> QED
      BY <1>3, <1>4, <2>1, <2>2 DEF ChildStates, ChildStages
<1>7. Synced'
    BY <1>2, <1>6 DEF Synced, Same
<1>8. AnswerFits(r)'
    BY <1>2, <1>4, <1>5, <1>6, <1>7 DEF AnswerFits
<1>9. ReplyFits(r)'
    BY <1>2, <1>4, <1>8 DEF ReplyFits, Turn
<1>10. toChild # NoMessage /\ child.stage # "dead"
    BY <1>1 DEF NoMessage
<1> QED
    BY <1>1, <1>4, <1>6, <1>9, <1>10, ChildSpeaks

LEMMA ChildGivesUpKeeps == ASSUME IInv, ChildGivesUp PROVE IInv'
<1> PICK r : r = [kind |-> "round", token |-> toChild.token, epoch |-> child.epoch,
                  resync |-> TRUE, sequence |-> child.sequence, ok |-> FALSE]
    OBVIOUS
<1>1. /\ toChild.kind \in {"round", "directory", "quotes"} /\ toChild' = NoMessage
      /\ toChild.kind = "round" => child.stage = "idle"
      /\ child.stage \in {"idle", "directory", "quotes"}
      /\ toParent' = Append(toParent, r)
      /\ UNCHANGED <<workerVars, roundVars, captureVars, mirrorVars>>
    BY DEF ChildGivesUp, ChildGets, ResyncRequired, Say
<1>2. UNCHANGED <<mode, serial, active>>
    BY <1>1 DEF workerVars, roundVars
<1>3. child \in ChildStates /\ active = "round" /\ toChild.token = serial
    BY <1>1, ChildFacts DEF Sending, RoundMessage, DirectoryMessage, QuotesMessage
<1>4. child' \in ChildStates /\ child'.epoch = child.epoch /\ child'.stage = "idle"
  <2>1. CASE child' = child /\ toChild.kind = "round"
      BY <1>1, <1>3, <2>1
  <2>2. CASE child' = [child EXCEPT !.stage = "idle", !.synchronized = FALSE]
      BY <1>3, <2>2 DEF ChildStates, ChildStages
  <2> QED
      BY <2>1, <2>2 DEF ChildGivesUp
<1>5. AnswerFits(r)'
    BY <1>2, <1>3, <1>4 DEF AnswerFits, NeedsResync
<1>6. ReplyFits(r)'
    BY <1>2, <1>3, <1>5 DEF ReplyFits
<1>7. toChild # NoMessage /\ child.stage # "dead"
    BY <1>1 DEF NoMessage
<1> QED
    BY <1>1, <1>3, <1>4, <1>6, <1>7, ChildSpeaks

LEMMA ChildCountsStatisticsKeeps == ASSUME IInv, ChildCountsStatistics PROVE IInv'
<1> PICK r : r = [kind |-> "statistics", token |-> toChild.token, epoch |-> child.epoch]
    OBVIOUS
<1>1. /\ toChild.kind = "statistics" /\ toChild' = NoMessage /\ child.stage = "idle"
      /\ child' = child /\ toParent' = Append(toParent, r)
      /\ UNCHANGED <<workerVars, roundVars, captureVars, mirrorVars>>
    BY DEF ChildCountsStatistics, ChildGets, Say
<1>2. UNCHANGED <<mode, serial, active, resync, sequence, mirror>>
    BY <1>1 DEF workerVars, roundVars, mirrorVars
<1>3. child \in ChildStates /\ active = "statistics" /\ toChild.token = serial /\ Supervised
    BY <1>1, ChildFacts DEF Sending
<1>4. Rested'
    BY <1>1, <1>2, <1>3 DEF Supervised, Alive, Rested, Synced, Same
<1>5. ReplyFits(r)'
    BY <1>2, <1>3 DEF ReplyFits
<1>6. toChild # NoMessage /\ child.stage # "dead"
    BY <1>1 DEF NoMessage
<1> QED
    BY <1>1, <1>3, <1>4, <1>5, <1>6, ChildSpeaks

LEMMA DeadChildFits == DeadChild \in ChildStates /\ DeadChild.stage = "dead" /\ DeadChild.epoch = 0
<1>1. FreshChild(0) \in ChildStates
    BY FreshFacts
<1>2. DeadChild \in ChildStates
    BY <1>1 DEF DeadChild, ChildStates, ChildStages
<1> QED
    BY <1>2 DEF DeadChild, FreshChild

LEMMA ChildDiesKeeps == ASSUME IInv, ChildDies PROVE IInv'
<1>1. Typed /\ Capturing /\ Sending /\ Answering /\ Supervised /\ epoch \in Nat \ {0}
    BY DEF IInv, Typed
<1>2. /\ child' = DeadChild /\ toParent' \in {toParent, <<>>} /\ ~Alive'
      /\ UNCHANGED <<mode, epoch, restarts, serial, active, context, capture, request, broken,
                     resync, sequence, mirror, toChild>>
    BY DeadChildFits DEF ChildDies, Alive, workerVars, roundVars, captureVars, mirrorVars
<1>3. /\ toParent' \in Seq(Range(toParent')) /\ Range(toParent') \subseteq Range(toParent)
      /\ Alone'
  <2>1. CASE toParent' = toParent
      BY <1>1, <1>2, <2>1 DEF Typed, Answering, Alone, Range
  <2>2. CASE toParent' = <<>>
    <3>1. DOMAIN toParent' = {} /\ Range(toParent') = {} /\ <<>> \in Seq({})
        BY <2>2, EmptySeq DEF Range
    <3> QED
        BY <2>2, <3>1 DEF Alone
  <2> QED
      BY <1>2, <2>1, <2>2
<1>4. Typed'
    BY <1>1, <1>2, <1>3, DeadChildFits DEF Typed
<1>5. Capturing'
    BY <1>1, <1>2 DEF Capturing, CaptureFits
<1>6. Sending'
    BY <1>1, <1>2 DEF Sending, RoundMessage, DirectoryMessage, QuotesMessage
<1>7. ASSUME NEW m, ReplyFits(m) PROVE ReplyFits(m)'
    BY <1>2, <1>7 DEF ReplyFits, CaptureFits, AnswerFits
<1>8. Answering'
    BY <1>1, <1>2, <1>3, <1>7 DEF Answering
<1>9. Supervised'
    BY <1>1, <1>2, <1>3, DeadChildFits DEF Supervised, Alive
<1> QED
    BY <1>4, <1>5, <1>6, <1>8, <1>9 DEF IInv

(* A step that only takes a reply from the queue.                          *)
LEMMA IgnoreReplyKeeps == ASSUME IInv, IgnoreReply PROVE IInv'
<1>1. Typed /\ Capturing /\ Sending /\ Answering /\ Supervised
    BY DEF IInv
<1>2. /\ toParent # <<>> /\ toParent' = Tail(toParent)
      /\ UNCHANGED <<mode, epoch, restarts, serial, active, context, capture, request, broken,
                     resync, sequence, mirror, toChild, child>>
    BY DEF IgnoreReply, workerVars, roundVars, captureVars, mirrorVars
<1>3. /\ toParent' \in Seq(Range(toParent')) /\ Range(toParent') \subseteq Range(toParent)
      /\ Alone'
    BY <1>1, <1>2, PopFacts DEF Typed, Answering
<1>4. Typed'
    BY <1>1, <1>2, <1>3 DEF Typed
<1>5. Capturing'
    BY <1>1, <1>2 DEF Capturing, CaptureFits, Rested, Synced, Same, Turn, Alive
<1>6. Sending'
    BY <1>1, <1>2 DEF Sending, RoundMessage, DirectoryMessage, QuotesMessage, InStep, Turn,
                      Alive, RowsAfter, QuotesAfter
<1>7. Answering'
    BY <1>1, <1>2, <1>3, ReplyFrame DEF Answering, Alive
<1>8. Supervised'
    BY <1>1, <1>2, <1>3 DEF Supervised, Alive, Rested, Synced, Same
<1> QED
    BY <1>4, <1>5, <1>6, <1>7, <1>8 DEF IInv

(* The reply of this epoch: nothing else is under way, and none is left    *)
(* when it has been taken.                                                 *)
LEMMA TakenReply ==
    ASSUME IInv, toParent # <<>>, toParent' = Tail(toParent), epoch' = epoch,
           Head(toParent).epoch = epoch
    PROVE  /\ capture = "idle" /\ toChild = NoMessage /\ ReplyFits(Head(toParent))
           /\ mode \notin Lost
           /\ Alive => child.epoch = epoch /\ child.stage # "starting"
           /\ toParent' \in Seq(Range(toParent')) /\ Range(toParent') \subseteq Range(toParent)
           /\ Alone'
           /\ \A m \in Range(toParent') : m.epoch \in Nat /\ m.epoch < epoch
<1>1. /\ Typed /\ Answering /\ Supervised /\ epoch \in Nat /\ child.epoch \in Nat
    BY DEF IInv, Typed, ChildStates
<1>2. /\ Head(toParent) \in Range(toParent)
      /\ toParent' \in Seq(Range(toParent')) /\ Range(toParent') \subseteq Range(toParent)
      /\ Alone'
      /\ \A m \in Range(toParent') : m.epoch # epoch
    BY <1>1, PopFacts DEF Typed, Answering
<1>3. \A m \in Range(toParent') : m.epoch \in Nat /\ m.epoch < epoch
    BY <1>1, <1>2 DEF Answering
<1>4. capture = "idle" /\ toChild = NoMessage /\ ReplyFits(Head(toParent))
    BY <1>1, <1>2 DEF Answering
<1>5. mode \notin Lost
    BY <1>1, <1>2 DEF Supervised
<1>6. Alive => child.epoch = epoch
    BY <1>1, <1>2 DEF Answering, Supervised
<1>7. Alive => child.stage # "starting"
    BY <1>1, <1>2, <1>6 DEF Supervised, Alive
<1> QED
    BY <1>2, <1>3, <1>4, <1>5, <1>6, <1>7

LEMMA ReceiveReadyKeeps == ASSUME IInv, ReceiveReady PROVE IInv'
<1>1. /\ toParent # <<>> /\ toParent' = Tail(toParent)
      /\ Head(toParent).epoch = epoch /\ Head(toParent).kind = "ready"
      /\ mode' \in {mode, "ready"} /\ (mode = "closing" => mode' = mode)
      /\ mode' = "ready" \/ mode = "closing"
      /\ UNCHANGED <<epoch, restarts, serial, active, context, capture, request, broken,
                     resync, sequence, mirror, toChild, child>>
    BY DEF ReceiveReady, Received, Current
<1>2. /\ Typed /\ Capturing /\ Sending /\ Answering /\ Supervised
      /\ capture = "idle" /\ toChild = NoMessage /\ ReplyFits(Head(toParent))
      /\ Alive => child.epoch = epoch /\ child.stage # "starting"
      /\ toParent' \in Seq(Range(toParent')) /\ Range(toParent') \subseteq Range(toParent)
      /\ Alone'
      /\ \A m \in Range(toParent') : m.epoch \in Nat /\ m.epoch < epoch
    BY <1>1, TakenReply DEF IInv
<1>3. active = "none"
    BY <1>1, <1>2 DEF ReplyFits
<1>4. Typed'
    BY <1>1, <1>2 DEF Typed, Modes
<1>5. Capturing' /\ Sending'
    BY <1>1, <1>2 DEF Capturing, Sending, NoMessage
<1>6. Answering'
    BY <1>1, <1>2 DEF Answering, Alive
<1>7. Supervised'
  <2>1. mode' \notin Lost /\ mode' \notin {"starting", "waiting"}
      BY <1>1 DEF Lost
  <2>2. child.stage # "starting"
      BY <1>2 DEF Alive
  <2>3. Alive => Rested
      BY <1>2, <1>3, <2>2 DEF Supervised
  <2> QED
      BY <1>1, <1>2, <1>3, <2>1, <2>2, <2>3 DEF Supervised, Alive, Rested, Synced, Same
<1> QED
    BY <1>4, <1>5, <1>6, <1>7 DEF IInv

LEMMA ReceiveCaptureKeeps == ASSUME IInv, ReceiveCapture PROVE IInv'
<1> PICK m : m = Head(toParent)
    OBVIOUS
<1>1. /\ toParent # <<>> /\ toParent' = Tail(toParent)
      /\ Head(toParent).epoch = epoch /\ m.kind = "capture"
      /\ capture' = m.what /\ request' = m.indices
      /\ UNCHANGED <<mode, epoch, restarts, serial, active, context, broken,
                     resync, sequence, mirror, toChild, child>>
    BY DEF ReceiveCapture, Current, workerVars, roundVars, mirrorVars
<1>2. /\ Typed /\ Capturing /\ Sending /\ Answering /\ Supervised
      /\ toChild = NoMessage /\ ReplyFits(m)
      /\ toParent' \in Seq(Range(toParent')) /\ Range(toParent') \subseteq Range(toParent)
      /\ Alone'
      /\ \A n \in Range(toParent') : n.epoch \in Nat /\ n.epoch < epoch
    BY <1>1, TakenReply DEF IInv
<1>3. m.what \in {"directory", "quotes"} /\ m.indices \subseteq Nat /\ CaptureFits(m.what, m.indices)
    BY <1>1, <1>2 DEF ReplyFits
<1>4. Typed'
    BY <1>1, <1>2, <1>3 DEF Typed, Captures
<1>5. Capturing'
    BY <1>1, <1>2, <1>3 DEF Capturing, CaptureFits, Turn, Same, Alive
<1>6. Sending'
    BY <1>1, <1>2 DEF Sending, NoMessage
<1>7. Answering'
    BY <1>1, <1>2 DEF Answering, Alive
<1>8. Supervised'
    BY <1>1, <1>2 DEF Supervised, Alive, Rested, Synced, Same
<1> QED
    BY <1>4, <1>5, <1>6, <1>7, <1>8 DEF IInv

LEMMA ReceiveRoundKeeps == ASSUME IInv, ReceiveRound PROVE IInv'
<1> PICK m : m = Head(toParent)
    OBVIOUS
<1>1. /\ toParent # <<>> /\ toParent' = Tail(toParent)
      /\ Head(toParent).epoch = epoch /\ m.kind = "round"
      /\ resync' = NeedsResync(m) /\ active' = "none" /\ context' = NoRound
      /\ UNCHANGED <<mode, epoch, restarts, serial, capture, request, broken, sequence, mirror,
                     toChild, child>>
    BY DEF ReceiveRound, Received, Current
<1>2. /\ Typed /\ Supervised /\ Answering
      /\ capture = "idle" /\ toChild = NoMessage /\ ReplyFits(m)
      /\ mode \notin Lost
      /\ Alive => child.epoch = epoch /\ child.stage # "starting"
      /\ toParent' \in Seq(Range(toParent')) /\ Range(toParent') \subseteq Range(toParent)
      /\ Alone'
      /\ \A n \in Range(toParent') : n.epoch \in Nat /\ n.epoch < epoch
    BY <1>1, TakenReply DEF IInv
<1>3. Alive => child.stage = "idle" /\ (~NeedsResync(m) => Synced)
    BY <1>1, <1>2 DEF ReplyFits, AnswerFits
<1>4. NeedsResync(m) \in BOOLEAN
    BY DEF NeedsResync
<1>5. Typed'
    BY <1>1, <1>2, <1>4 DEF Typed
<1>6. Capturing' /\ Sending'
    BY <1>1, <1>2 DEF Capturing, Sending, NoMessage
<1>7. Answering'
    BY <1>1, <1>2 DEF Answering, Alive
<1>8. Rested' \/ ~Alive'
    BY <1>1, <1>3 DEF Rested, Synced, Same, Alive
<1>9. Supervised'
  <2>1. mode # "waiting" /\ child.stage # "starting"
      BY <1>2 DEF Lost, Alive
  <2> QED
      BY <1>1, <1>2, <1>8, <2>1 DEF Supervised, Alive
<1> QED
    BY <1>5, <1>6, <1>7, <1>9 DEF IInv

LEMMA ReceiveStatisticsKeeps == ASSUME IInv, ReceiveStatistics PROVE IInv'
<1> PICK m : m = Head(toParent)
    OBVIOUS
<1>1. /\ toParent # <<>> /\ toParent' = Tail(toParent)
      /\ Head(toParent).epoch = epoch /\ m.kind = "statistics"
      /\ active' = IF m.token = serial THEN "none" ELSE active
      /\ UNCHANGED <<mode, epoch, restarts, serial, context, capture, request, broken, resync,
                     sequence, mirror, toChild, child>>
    BY DEF ReceiveStatistics, Received, Current
<1>2. /\ Typed /\ Supervised /\ Answering
      /\ capture = "idle" /\ toChild = NoMessage /\ ReplyFits(m)
      /\ mode \notin Lost
      /\ Alive => child.epoch = epoch /\ child.stage # "starting"
      /\ toParent' \in Seq(Range(toParent')) /\ Range(toParent') \subseteq Range(toParent)
      /\ Alone'
      /\ \A n \in Range(toParent') : n.epoch \in Nat /\ n.epoch < epoch
    BY <1>1, TakenReply DEF IInv
<1>3. active = "statistics" /\ active' = "none"
    BY <1>1, <1>2 DEF ReplyFits
<1>4. Typed'
    BY <1>1, <1>2, <1>3 DEF Typed
<1>5. Capturing' /\ Sending'
    BY <1>1, <1>2 DEF Capturing, Sending, NoMessage
<1>6. Answering'
    BY <1>1, <1>2 DEF Answering, Alive
<1>7. Supervised'
  <2>1. mode # "waiting" /\ child.stage # "starting"
      BY <1>2 DEF Lost, Alive
  <2>2. Alive => Rested
      BY <1>2, <1>3, <2>1 DEF Supervised
  <2> QED
      BY <1>1, <1>2, <1>3, <2>1, <2>2 DEF Supervised, Alive, Rested, Synced, Same
<1> QED
    BY <1>4, <1>5, <1>6, <1>7 DEF IInv

(* A new epoch makes every reply on its way one of an earlier worker.      *)
LEMMA NewEpoch ==
    ASSUME IInv, epoch' = epoch + 1
    PROVE  /\ epoch \in Nat \ {0} /\ epoch' \in Nat \ {0}
           /\ child.epoch \in Nat /\ child.epoch < epoch'
           /\ \A m \in Range(toParent) : m.epoch \in Nat /\ m.epoch < epoch' /\ m.epoch # epoch'
<1>1. /\ epoch \in Nat \ {0} /\ child.epoch \in Nat /\ child.epoch <= epoch
      /\ \A m \in Range(toParent) : m.epoch \in Nat /\ m.epoch <= epoch
    BY DEF IInv, Typed, ChildStates, Supervised, Answering
<1> QED
    BY <1>1

LEMMA FailKeeps == ASSUME IInv, Fail PROVE IInv'
<1>1. /\ Typed /\ Capturing /\ Sending /\ Answering /\ Supervised
    BY DEF IInv
<1>2. /\ mode' = "failing" /\ epoch' = epoch + 1
      /\ UNCHANGED <<restarts, serial, active, context, capture, request, broken, resync,
                     sequence, mirror, toChild, toParent, child>>
    BY DEF Fail, roundVars, captureVars, mirrorVars
<1>3. /\ epoch \in Nat \ {0} /\ epoch' \in Nat \ {0}
      /\ child.epoch \in Nat /\ child.epoch < epoch'
      /\ \A m \in Range(toParent) : m.epoch \in Nat /\ m.epoch < epoch' /\ m.epoch # epoch'
    BY <1>2, NewEpoch
<1>4. Typed'
    BY <1>1, <1>2, <1>3 DEF Typed, Modes
<1>5. Capturing'
    BY <1>1, <1>2 DEF Capturing, CaptureFits, Rested, Synced, Same, Turn, Alive
<1>6. Sending'
    BY <1>1, <1>2 DEF Sending, RoundMessage, DirectoryMessage, QuotesMessage, InStep, Turn,
                      Alive, RowsAfter, QuotesAfter
<1>7. Answering'
    BY <1>1, <1>2, <1>3 DEF Answering, Alone, Alive, Range
<1>8. Supervised'
    BY <1>1, <1>2, <1>3 DEF Supervised, Alive, Rested, Synced, Same
<1> QED
    BY <1>4, <1>5, <1>6, <1>7, <1>8 DEF IInv

(* Disposing of a worker, at the end of a failure and at the shutdown.     *)
LEMMA DisposeKeeps ==
    ASSUME IInv, Dispose, restarts' = restarts, mode' \in {"disabled", "waiting", "closed"},
           mode' = "waiting" => restarts < MaxRestarts
    PROVE  IInv'
<1>1. Typed /\ Answering
    BY DEF IInv
<1>2. /\ epoch' = epoch + 1 /\ child' = DeadChild /\ toChild' = NoMessage
      /\ mirror' = FreshMirror /\ resync' = TRUE /\ capture' = "idle" /\ context' = NoRound
      /\ active' = "none"
      /\ UNCHANGED <<serial, request, broken, sequence, toParent>>
    BY DEF Dispose, Released
<1>3. /\ epoch' \in Nat \ {0}
      /\ \A m \in Range(toParent) : m.epoch \in Nat /\ m.epoch < epoch' /\ m.epoch # epoch'
    BY <1>2, NewEpoch
<1>4. child' \in ChildStates /\ child'.stage = "dead" /\ child'.epoch = 0 /\ ~Alive'
    BY <1>2, DeadChildFits DEF Alive
<1>5. Typed'
    BY <1>1, <1>2, <1>3, <1>4, FreshFacts DEF Typed, Modes, Captures
<1>6. Capturing' /\ Sending'
    BY <1>2 DEF Capturing, Sending, NoMessage
<1>7. Answering'
    BY <1>2, <1>3, <1>4 DEF Answering, Alone, Range
<1>8. Supervised'
    BY <1>2, <1>3, <1>4 DEF Supervised, Alive
<1> QED
    BY <1>5, <1>6, <1>7, <1>8 DEF IInv

LEMMA SpawnKeeps == ASSUME IInv, Spawn PROVE IInv'
<1>1. /\ Typed /\ Answering /\ Supervised
    BY DEF IInv
<1>2. /\ mode = "waiting" /\ mode' = "starting" /\ restarts' = restarts + 1
      /\ epoch' = epoch + 1 /\ child' = FreshChild(epoch + 1) /\ broken' = FALSE
      /\ UNCHANGED <<serial, active, context, capture, request, resync, sequence, mirror,
                     toChild, toParent>>
    BY DEF Spawn, roundVars, mirrorVars
<1>3. active = "none" /\ resync = TRUE /\ restarts < MaxRestarts
    BY <1>1, <1>2 DEF Supervised, Typed
<1>4. /\ epoch \in Nat \ {0} /\ epoch' \in Nat \ {0}
      /\ \A m \in Range(toParent) : m.epoch \in Nat /\ m.epoch < epoch' /\ m.epoch # epoch'
    BY <1>2, NewEpoch
<1>5. child' \in ChildStates /\ child'.stage = "starting" /\ child'.epoch = epoch'
  <2>1. epoch + 1 \in Nat
      BY <1>4
  <2>2. FreshChild(epoch + 1) \in ChildStates
      BY <2>1, FreshFacts
  <2> QED
      BY <1>2, <2>2 DEF FreshChild
<1>6. capture = "idle" /\ toChild = NoMessage
    BY <1>3, NothingUnderWay
<1>7. restarts' \in 0..MaxRestarts
    BY <1>1, <1>2, <1>3, MirrorAssumption DEF Typed
<1>8. Typed'
    BY <1>1, <1>2, <1>4, <1>5, <1>7 DEF Typed, Modes
<1>9. Capturing' /\ Sending'
    BY <1>2, <1>6 DEF Capturing, Sending, NoMessage
<1>10. Answering'
    BY <1>2, <1>4, <1>5 DEF Answering, Alone, Range
<1>11. Supervised'
    BY <1>2, <1>3, <1>4, <1>5 DEF Supervised, Alive, Lost
<1> QED
    BY <1>8, <1>9, <1>10, <1>11 DEF IInv

LEMMA CloseKeeps == ASSUME IInv, Close PROVE IInv'
<1>1. Typed /\ Capturing /\ Sending /\ Answering /\ Supervised
    BY DEF IInv
<1>2. /\ mode' = "closing"
      /\ UNCHANGED <<epoch, restarts, serial, active, context, capture, request, broken, resync,
                     sequence, mirror, toChild, toParent, child>>
    BY DEF Close, roundVars, captureVars, mirrorVars
<1>3. Typed'
    BY <1>1, <1>2 DEF Typed, Modes
<1>4. Capturing'
    BY <1>1, <1>2 DEF Capturing, CaptureFits, Rested, Synced, Same, Turn, Alive
<1>5. Sending'
    BY <1>1, <1>2 DEF Sending, RoundMessage, DirectoryMessage, QuotesMessage, InStep, Turn,
                      Alive, RowsAfter, QuotesAfter
<1>6. ASSUME NEW m, ReplyFits(m) PROVE ReplyFits(m)'
    BY <1>2, <1>6 DEF ReplyFits, CaptureFits, AnswerFits, NeedsResync, Rested, Synced, Same, Turn,
                      Alive
<1>7. Answering'
    BY <1>1, <1>2, <1>6 DEF Answering, Alone, Alive
<1>8. Supervised'
    BY <1>1, <1>2 DEF Supervised, Alive, Rested, Synced, Same, Lost
<1> QED
    BY <1>3, <1>4, <1>5, <1>7, <1>8 DEF IInv

LEMMA StutterKeeps == ASSUME IInv, UNCHANGED vars PROVE IInv'
<1>1. Typed /\ Capturing /\ Sending /\ Answering /\ Supervised
    BY DEF IInv
<1>2. UNCHANGED <<mode, epoch, restarts, serial, active, context, capture, request, broken,
                  resync, sequence, mirror, toChild, toParent, child>>
    BY DEF vars
<1>3. Typed'
    BY <1>1, <1>2 DEF Typed
<1>4. Capturing'
    BY <1>1, <1>2 DEF Capturing, CaptureFits, Rested, Synced, Same, Turn, Alive
<1>5. Sending'
    BY <1>1, <1>2 DEF Sending, RoundMessage, DirectoryMessage, QuotesMessage, InStep, Turn,
                      Alive, RowsAfter, QuotesAfter
<1>6. Answering'
    BY <1>1, <1>2, ReplyFrame DEF Answering, Alone, Alive
<1>7. Supervised'
    BY <1>1, <1>2 DEF Supervised, Alive, Rested, Synced, Same
<1> QED
    BY <1>3, <1>4, <1>5, <1>6, <1>7 DEF IInv

LEMMA NextKeeps == IInv /\ [Next]_vars => IInv'
<1> SUFFICES ASSUME IInv, [Next]_vars PROVE IInv'
    OBVIOUS
<1>1. CASE Request
    BY <1>1, SubmitKeeps, StatisticsKeeps DEF Request
<1>2. CASE Send
    BY <1>2, SendThresholdsKeeps, SendDirectoryKeeps, SendQuotesKeeps, CaptureFailsKeeps DEF Send
<1>3. CASE ChildStep
    BY <1>3, ChildReadyKeeps, ChildBeginsRoundKeeps, ChildTakesDirectoryKeeps, ChildAnswersKeeps,
       ChildGivesUpKeeps, ChildCountsStatisticsKeeps, ChildDiesKeeps DEF ChildStep
<1>4. CASE Receive
    BY <1>4, IgnoreReplyKeeps, ReceiveReadyKeeps, ReceiveCaptureKeeps, ReceiveRoundKeeps,
       ReceiveStatisticsKeeps DEF Receive
<1>5. CASE Supervise
  <2>1. FinishFail => IInv'
      BY DisposeKeeps DEF FinishFail
  <2>2. Shutdown => IInv'
      BY DisposeKeeps DEF Shutdown
  <2> QED
      BY <1>5, <2>1, <2>2, FailKeeps, SpawnKeeps, CloseKeeps DEF Supervise
<1>6. CASE UNCHANGED vars
    BY <1>6, StutterKeeps
<1> QED
    BY <1>1, <1>2, <1>3, <1>4, <1>5, <1>6 DEF Next

LEMMA Invariance == Spec => []IInv
<1>1. Init => IInv
    BY InitHolds
<1>2. IInv /\ [Next]_vars => IInv'
    BY NextKeeps
<1> QED
    BY <1>1, <1>2, PTL DEF Spec

(* The variables of both sides stay in their ranges: in particular the     *)
(* sequence of rounds of the parent and of the child never passes the      *)
(* number of requests, and the mirrors only ever hold rows and quotes of   *)
(* the snapshots submitted (ShadowRuntime and run_child).                  *)
THEOREM TypeCorrect == Spec => []TypeOK
<1>1. IInv => TypeOK
    BY TypedImpliesTypeOK DEF IInv
<1> QED
    BY <1>1, Invariance, PTL

(* A round that _receive_message will publish was computed by the child    *)
(* from exactly the snapshot the parent will annotate, however many rounds *)
(* of differences led to it and whatever failed in between.                *)
THEOREM AnswersFit == Spec => []AnswerFitsSnapshot
<1>1. IInv => AnswerFitsSnapshot
  <2> SUFFICES ASSUME IInv, NEW n \in DOMAIN toParent, toParent[n].kind = "round",
                      Current(toParent[n]), toParent[n].ok
               PROVE  /\ toParent[n].view.rows = context.rows
                      /\ toParent[n].view.table = context.table
                      /\ \A i \in DOMAIN toParent[n].view.quotes :
                            toParent[n].view.quotes[i] = context.quotes[i]
      BY DEF AnswerFitsSnapshot
  <2>1. toParent[n] \in Range(toParent) /\ toParent[n].epoch = epoch
      BY DEF Range, Current
  <2>2. ReplyFits(toParent[n])
      BY <2>1 DEF IInv, Answering
  <2> QED
      BY <2>2 DEF ReplyFits, AnswerFits
<1> QED
    BY <1>1, Invariance, PTL

(* Between rounds _directory, _quotes and _threshold_ids of the parent are *)
(* what the child holds, unless the parent knows that it must send a full  *)
(* round (_needs_resync).                                                  *)
THEOREM MirrorsStayEqual == Spec => []MirrorsAgree
<1>1. IInv => MirrorsAgree
    BY DEF IInv, Supervised, MirrorsAgree, Rested, Synced, Same, Alive
<1> QED
    BY <1>1, Invariance, PTL

(* The branch of run_child that refuses a difference is never taken.       *)
THEOREM DifferencesAlwaysApply == Spec => []DifferencesApply
<1>1. IInv => DifferencesApply
  <2> SUFFICES ASSUME IInv, child.stage = "idle", toChild.kind = "round", ~toChild.full
               PROVE  InStep(toChild)
      BY DEF DifferencesApply
  <2>1. RoundMessage
      BY DEF IInv, Sending
  <2> QED
      BY <2>1 DEF RoundMessage, Alive
<1> QED
    BY <1>1, Invariance, PTL

(* put_nowait of a capture always finds the queue of one message empty.    *)
THEOREM QueueHasRoom == Spec => []QueueNeverFull
<1>1. IInv => QueueNeverFull
    BY DEF IInv, Capturing, QueueNeverFull
<1> QED
    BY <1>1, Invariance, PTL

(* submit only ever accepts a round for a worker that reported ready in    *)
(* this epoch, whatever replies of earlier workers are still on their way. *)
THEOREM ReadyWorkerIsCurrent == Spec => []ReadyIsThisWorker
<1>1. IInv => ReadyIsThisWorker
    BY DEF IInv, Supervised, ReadyIsThisWorker, Alive
<1> QED
    BY <1>1, Invariance, PTL
=============================================================================
