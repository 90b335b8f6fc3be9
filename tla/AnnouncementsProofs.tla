------------------------ MODULE AnnouncementsProofs ------------------------
(***************************************************************************)
(* Proofs about Announcements for any number of items, providers and       *)
(* unrecorded reminders: an alert goes out at most once, the table's       *)
(* alert statuses are true, and a reminder goes out again only after one   *)
(* that could not be recorded.                                             *)
(***************************************************************************)
EXTENDS Announcements, TLAPS

(* A loop that has a row in its hands is alone with it, and the row is     *)
(* pending; until the request is made nothing has gone out.                *)
HoldInv ==
    /\ \A l \in Loops : Holding(l) => row[loop[l].item].alert = "pending"
    /\ \A l, k \in Loops : Holding(l) /\ Holding(k) /\ loop[l].item = loop[k].item => l = k
    /\ \A l \in Loops : loop[l].at = "sending" => alerts[loop[l].item] = 0
    /\ \A l \in Loops : loop[l].at = "recording" =>
          /\ loop[l].result \in {"sent", "failed", "skipped"}
          /\ loop[l].result = "sent" => alerts[loop[l].item] = 1
          /\ loop[l].result = "skipped" => alerts[loop[l].item] = 0

(* The reminder round has each row once and only stored, unsent ones; a    *)
(* row that is not sent, nor about to be, has no reminder to answer for.   *)
RemindInv ==
    /\ minder.at = "idle" => due = {}
    /\ \A d \in due : row[d[2]].reminder \notin {"none", "sent"}
    /\ \A d, o \in due : d[2] = o[2] => d = o
    /\ minder.at = "recording" =>
          /\ minder.item \in Dated
          /\ minder.result \in {"sent", "failed", "skipped"}
          /\ row[minder.item].reminder \notin {"none", "sent"}
          /\ \A d \in due : d[2] # minder.item
    /\ \A i \in Items :
          row[i].reminder # "sent" =>
             reminders[i] <= IF minder.at = "recording" /\ minder.item = i
                                /\ minder.result = "sent"
                             THEN excused[i] + 1 ELSE excused[i]

IInv == TypeOK /\ AlertOnce /\ StatusHonest /\ HoldInv /\ ReminderOnce /\ RemindInv

-----------------------------------------------------------------------------
LEMMA InitHolds == Init => IInv
<1> SUFFICES ASSUME Init PROVE IInv
    OBVIOUS
<1> USE AnnouncementsAssumption
<1>0. row \in [Items -> Rows] /\ loop \in [Loops -> LoopStates]
      BY DEF Init, NoRow, Rows, Events, NoEvent, IdleLoop, LoopStates, NoNotice, Notices, Results, Items
<1>1. TypeOK
  <2>1. /\ now \in 0 .. MaxTime /\ cutoff \in 0 .. Last
        /\ others \in BOOLEAN /\ quietStart \in BOOLEAN /\ sender \in BOOLEAN
      BY DEF Init
  <2>2. /\ alerts \in [Items -> Nat] /\ reminders \in [Items -> Nat]
        /\ excused \in [Items -> Nat] /\ lost \subseteq Items
      BY DEF Init
  <2>3. /\ due \subseteq (1 .. MaxTime) \X Dated
        /\ minder \in [at : {"idle", "next", "recording"}, item : {0} \cup Dated, result : Results]
      BY DEF Init, NoRound, Results
  <2>4. \A l \in Loops : loop[l].at \notin {"enriching", "sending", "recording"}
      BY DEF Init, IdleLoop
  <2>5. \A i \in Items : row[i].reminder # "pending"
      BY DEF Init, NoRow
  <2> QED
      BY <1>0, <2>1, <2>2, <2>3, <2>4, <2>5 DEF TypeOK
<1>2. AlertOnce /\ ReminderOnce
      BY DEF Init, AlertOnce, ReminderOnce
<1>3. StatusHonest
      BY DEF Init, StatusHonest, NoRow
<1>4. HoldInv
      BY DEF Init, HoldInv, Holding, IdleLoop
<1>5. RemindInv
      BY DEF Init, RemindInv, NoRound, NoRow
<1> QED
    BY <1>1, <1>2, <1>3, <1>4, <1>5 DEF IInv

LEMMA IdleFacts == IdleLoop \in LoopStates
    BY AnnouncementsAssumption
    DEF IdleLoop, LoopStates, NoNotice, Notices, Results, Items, Events, NoEvent

(* What Onward makes of a loop's record.                                   *)
LEMMA OnwardFacts ==
    ASSUME NEW r \in LoopStates
    PROVE  /\ Onward(r) \in LoopStates
           /\ Onward(r).at \in {"idle", "fetching", "storing"}
<1> USE AnnouncementsAssumption
<1> QED
    BY IdleFacts DEF Onward, LoopStates, IdleLoop, NoNotice, Notices, Results, Events, NoEvent, Items

LEMMA NoticeFacts ==
    ASSUME NEW e \in Events, TypeOK
    PROVE  /\ Notice(e) \in Notices
           /\ Notice(e).event = e
    BY AnnouncementsAssumption DEF Notice, Notices, Events, TypeOK, NoEvent

-----------------------------------------------------------------------------
(* The two halves of the invariant, and what leaves each alone.            *)
AlertPart == AlertOnce /\ StatusHonest /\ HoldInv
RemindPart == ReminderOnce /\ RemindInv

LEMMA HeldFacts ==
    ASSUME NEW L, NEW i
    PROVE  i \in Held(L) <=> \E l \in L : Holding(l) /\ loop[l].item = i
    BY DEF Held

(* A step that moves no alert, no alert status and no loop in or out of    *)
(* an item's alert.                                                        *)
LEMMA AlertsKept ==
    ASSUME TypeOK, AlertPart, UNCHANGED <<alerts, lost>>,
           \A i \in Items : row'[i].alert = row[i].alert,
           \A l \in Loops : loop'[l] = loop[l] \/ (~Holding(l) /\ ~Holding(l)')
    PROVE  AlertPart'
<1> USE DEF AlertPart
<1>0. \A l \in Loops : Holding(l) => loop[l].item \in Items
      BY DEF TypeOK, Holding
<1>1. \A l \in Loops : (Holding(l)' <=> Holding(l)) /\ (Holding(l) => loop'[l] = loop[l])
      BY DEF Holding
<1>2. HoldInv'
  <2>1. \A l \in Loops : loop'[l].at \in {"sending", "recording"} => loop'[l] = loop[l]
        BY <1>1 DEF Holding
  <2> QED
      BY <1>0, <1>1, <2>1 DEF HoldInv, Holding
<1>3. AlertOnce'
      BY DEF AlertOnce
<1>4. StatusHonest'
  <2>1. \A i \in Items : i \in Held(Loops) => i \in Held(Loops)'
        BY <1>1 DEF Held, Loops
  <2> QED
      BY <2>1 DEF StatusHonest
<1> QED
    BY <1>2, <1>3, <1>4

(* A step that leaves the reminder loop alone and makes no row sent or     *)
(* unsent.                                                                 *)
LEMMA RemindersKept ==
    ASSUME TypeOK, RemindPart, UNCHANGED <<due, minder, reminders, excused>>,
           \A i \in Items : /\ row'[i].reminder = "sent" <=> row[i].reminder = "sent"
                            /\ row[i].reminder # "none" => row'[i].reminder # "none"
    PROVE  RemindPart'
<1>1. Dated \subseteq Items
      BY AnnouncementsAssumption DEF Items
<1>2. \A d \in due : d[2] \in Items
      BY <1>1 DEF TypeOK
<1>3. ReminderOnce'
      BY DEF RemindPart, ReminderOnce
<1>4. RemindInv'
  <2>1. /\ minder.at = "idle" => due = {}
        /\ \A d \in due : row'[d[2]].reminder \notin {"none", "sent"}
        /\ \A d, o \in due : d[2] = o[2] => d = o
        BY <1>2 DEF RemindPart, RemindInv
  <2>2. minder.at = "recording" =>
          /\ minder.item \in Dated
          /\ minder.result \in {"sent", "failed", "skipped"}
          /\ row'[minder.item].reminder \notin {"none", "sent"}
          /\ \A d \in due : d[2] # minder.item
        BY <1>1 DEF RemindPart, RemindInv
  <2>3. \A i \in Items :
          row'[i].reminder # "sent" =>
             reminders[i] <= IF minder.at = "recording" /\ minder.item = i
                                /\ minder.result = "sent"
                             THEN excused[i] + 1 ELSE excused[i]
        BY DEF RemindPart, RemindInv
  <2> QED
      BY <2>1, <2>2, <2>3 DEF RemindInv
<1> QED
    BY <1>3, <1>4 DEF RemindPart

LEMMA RemindersUntouched ==
    ASSUME TypeOK, RemindPart, UNCHANGED <<row, due, minder, reminders, excused>>
    PROVE  RemindPart'
<1>1. ReminderOnce'
      BY DEF RemindPart, ReminderOnce
<1>2. RemindInv'
      BY DEF RemindPart, RemindInv
<1> QED
    BY <1>1, <1>2 DEF RemindPart

-----------------------------------------------------------------------------
(* The polling loops, one lemma for each step.                             *)
LEMMA BeginPollKeeps ==
    ASSUME IInv, NEW l \in Loops, BeginPoll(l)
    PROVE  IInv'
<1> USE AnnouncementsAssumption
<1>1. loop' \in [Loops -> LoopStates] /\ loop'[l].at = "fetching"
      /\ \A k \in Loops : k # l => loop'[k] = loop[k]
  <2> DEFINE r == [IdleLoop EXCEPT !.at = "fetching",
                                   !.left = IF l = Enrichment THEN Providers ELSE {l},
                                   !.boot = ~HasAny]
  <2>0. /\ (~HasAny) \in BOOLEAN
        /\ (IF l = Enrichment THEN Providers ELSE {l}) \in SUBSET Providers
        BY DEF Loops
  <2>1. r \in LoopStates /\ r.at = "fetching"
    <3> DEFINE idle == IdleLoop
    <3>1. idle \in LoopStates
          BY IdleFacts
    <3> HIDE DEF idle
    <3>2. [idle EXCEPT !.at = "fetching",
                       !.left = IF l = Enrichment THEN Providers ELSE {l},
                       !.boot = ~HasAny] \in LoopStates
          BY <2>0, <3>1 DEF LoopStates
    <3> QED
          BY <3>2 DEF idle, IdleLoop
  <2>2. loop' = [loop EXCEPT ![l] = r]
        BY DEF BeginPoll
  <2> HIDE DEF r
  <2> QED
      BY <2>1, <2>2 DEF IInv, TypeOK
<1>2. TypeOK'
      BY <1>1 DEF IInv, TypeOK, BeginPoll, feed, history, Stored
<1>3. AlertPart'
  <2>1. \A k \in Loops : loop'[k] = loop[k] \/ (~Holding(k) /\ ~Holding(k)')
        BY <1>1 DEF BeginPoll, Holding
  <2> QED
      BY <2>1, AlertsKept DEF IInv, AlertPart, BeginPoll, history
<1>4. RemindPart'
      BY RemindersUntouched DEF IInv, RemindPart, BeginPoll, history
<1> QED
    BY <1>2, <1>3, <1>4 DEF IInv, AlertPart, RemindPart

LEMMA FetchPageKeeps ==
    ASSUME IInv, NEW l \in Loops, FetchPage(l)
    PROVE  IInv'
<1> USE AnnouncementsAssumption
<1>1. loop' \in [Loops -> LoopStates] /\ loop'[l].at \in {"idle", "fetching", "storing"}
      /\ \A k \in Loops : k # l => loop'[k] = loop[k]
  <2>1. PICK p \in loop[l].left, page \in SUBSET Items :
          loop' = [loop EXCEPT ![l] = Onward([loop[l] EXCEPT !.left = @ \ {p}, !.batch = page,
                                                             !.pending = ToAlert(l, page)])]
        BY DEF FetchPage
  <2> DEFINE r == [loop[l] EXCEPT !.left = @ \ {p}, !.batch = page, !.pending = ToAlert(l, page)]
  <2>0. ToAlert(l, page) \in SUBSET Items
        BY DEF ToAlert
  <2>4. loop[l] \in LoopStates
        BY DEF IInv, TypeOK
  <2>2. r \in LoopStates
        BY <2>0, <2>4 DEF LoopStates
  <2>3. loop' = [loop EXCEPT ![l] = Onward(r)]
        BY <2>1
  <2> HIDE DEF r
  <2> QED
      BY <2>2, <2>3, OnwardFacts DEF IInv, TypeOK
<1>2. TypeOK'
      BY <1>1 DEF IInv, TypeOK, FetchPage, feed, history, Stored
<1>3. AlertPart'
  <2>1. \A k \in Loops : loop'[k] = loop[k] \/ (~Holding(k) /\ ~Holding(k)')
        BY <1>1 DEF FetchPage, Holding
  <2> QED
      BY <2>1, AlertsKept DEF IInv, AlertPart, FetchPage, history
<1>4. RemindPart'
      BY RemindersUntouched DEF IInv, RemindPart, FetchPage, history
<1> QED
    BY <1>2, <1>3, <1>4 DEF IInv, AlertPart, RemindPart

LEMMA StoreItemKeeps ==
    ASSUME IInv, NEW l \in Loops, StoreItem(l)
    PROVE  IInv'
<1> USE AnnouncementsAssumption
<1>0. PICK i \in loop[l].batch, e \in Events :
        LET rest == [loop[l] EXCEPT !.batch = @ \ {i}, !.pending = @ \ {i}]
            status == IF i \in loop[l].pending THEN "pending" ELSE "muted"
        IN  IF Inserts(i)
            THEN /\ row' = [row EXCEPT ![i] = [alert |-> status, event |-> e,
                                               reminder |-> Notice(e).reminder]]
                 /\ loop' = [loop EXCEPT ![l] =
                       IF status = "pending" THEN [rest EXCEPT !.at = "sending", !.item = i]
                       ELSE Onward(rest)]
            ELSE /\ row' = row
                 /\ loop' = [loop EXCEPT ![l] = [rest EXCEPT !.at = "enriching", !.item = i,
                                                             !.notice = Notice(e)]]
      BY DEF StoreItem
<1> DEFINE rest == [loop[l] EXCEPT !.batch = @ \ {i}, !.pending = @ \ {i}]
<1> DEFINE status == IF i \in loop[l].pending THEN "pending" ELSE "muted"
<1> DEFINE new == [alert |-> status, event |-> e, reminder |-> Notice(e).reminder]
<1>1. i \in Items /\ loop[l] \in LoopStates /\ TypeOK
      BY DEF IInv, TypeOK, LoopStates
<1>2. rest \in LoopStates
      BY <1>1 DEF LoopStates
<1>9. i \in 0 .. Last
      BY <1>1 DEF Items
<1>3. Notice(e) \in Notices /\ (Notice(e).reminder = "pending" => e # NoEvent)
      BY <1>1, NoticeFacts DEF Notices
<1>4. new \in Rows /\ new # NoRow /\ new.reminder \notin {"none", "sent"} /\ new.event = e
      /\ new.alert = status /\ new.reminder = Notice(e).reminder
      BY <1>3 DEF Rows, StoredRows, NoRow, Notices
<1>5. UNCHANGED <<feed, quietStart, sender, due, minder, history>>
      BY DEF StoreItem
<1> USE <1>1
<1>6. CASE Inserts(i) /\ status = "pending"
  <2> DEFINE r == [rest EXCEPT !.at = "sending", !.item = i]
  <2>1. row' = [row EXCEPT ![i] = new] /\ loop' = [loop EXCEPT ![l] = r]
        BY <1>0, <1>6
  <2> HIDE DEF rest
  <2>2. r \in LoopStates /\ r.at = "sending" /\ r.item = i
        BY <1>2, <1>9 DEF LoopStates
  <2> HIDE DEF r, new
  <2>3. row \in [Items -> Rows] /\ loop \in [Loops -> LoopStates] /\ row[i] = NoRow
        BY <1>6 DEF TypeOK, Inserts, Stored
  <2>4. /\ row' \in [Items -> Rows] /\ loop' \in [Loops -> LoopStates]
        /\ row'[i] = new /\ loop'[l] = r
        /\ \A j \in Items : j # i => row'[j] = row[j]
        /\ \A k \in Loops : k # l => loop'[k] = loop[k]
        BY <2>1, <2>2, <2>3, <1>4
  <2>5. TypeOK'
    <3>1. \A k \in Loops : loop'[k].at \in {"enriching", "sending", "recording"}
                           => loop'[k].item \in Items /\ row'[loop'[k].item] # NoRow
          BY <2>4, <2>2, <1>4 DEF TypeOK, Stored
    <3>2. \A j \in Items : row'[j].reminder = "pending" => row'[j].event # NoEvent
          BY <2>4, <1>4, <1>3 DEF TypeOK
    <3> QED
          BY <2>4, <3>1, <3>2, <1>5 DEF TypeOK, feed, history, Stored
  <2>6. row[i].alert = "none" /\ alerts[i] = 0
        BY <2>3 DEF IInv, StatusHonest, NoRow
  <2>7. \A k \in Loops : Holding(k) => loop[k].item # i /\ loop[k].item \in Items
        BY <2>6 DEF IInv, HoldInv, TypeOK, Holding
  <2>8. /\ \A k \in Loops : k # l => (Holding(k)' <=> Holding(k))
        /\ Holding(l)'
        BY <2>4, <2>2 DEF Holding
  <2>9. HoldInv'
    <3>1. \A k \in Loops : Holding(k)' => row'[loop'[k].item].alert = "pending"
          BY <2>2, <2>4, <2>7, <2>8, <1>4, <1>6 DEF IInv, HoldInv
    <3>2. \A k, m \in Loops : Holding(k)' /\ Holding(m)' /\ loop'[k].item = loop'[m].item => k = m
          BY <2>2, <2>4, <2>7, <2>8 DEF IInv, HoldInv
    <3>3. \A k \in Loops : loop'[k].at = "sending" => alerts[loop'[k].item] = 0
          BY <2>2, <2>4, <2>6 DEF IInv, HoldInv
    <3>4. \A k \in Loops : loop'[k].at = "recording" =>
            /\ loop'[k].result \in {"sent", "failed", "skipped"}
            /\ loop'[k].result = "sent" => alerts[loop'[k].item] = 1
            /\ loop'[k].result = "skipped" => alerts[loop'[k].item] = 0
          BY <2>2, <2>4 DEF IInv, HoldInv
    <3> QED
          BY <3>1, <3>2, <3>3, <3>4, <1>5 DEF HoldInv, history
  <2>10. StatusHonest'
    <3>0. \A k \in Loops : Holding(k) => k # l
          BY DEF StoreItem, Holding
    <3>1. \A j \in Items : j \in Held(Loops) => j \in Held(Loops)'
          BY <2>4, <2>8, <3>0 DEF Held, Loops
    <3>2. i \in Held(Loops)'
          BY <2>4, <2>2, <2>8 DEF Held, Loops
    <3> QED
          BY <2>4, <2>6, <1>4, <1>6, <1>5, <3>1, <3>2 DEF IInv, StatusHonest, history
  <2>11. AlertOnce'
        BY <1>5 DEF IInv, AlertOnce, history
  <2>12. RemindPart'
    <3>1. \A j \in Items : /\ row'[j].reminder = "sent" <=> row[j].reminder = "sent"
                           /\ row[j].reminder # "none" => row'[j].reminder # "none"
          BY <2>4, <2>3, <1>4 DEF NoRow
    <3> QED
          BY <3>1, <1>5, RemindersKept DEF IInv, RemindPart, history
  <2> QED
      BY <2>5, <2>9, <2>10, <2>11, <2>12 DEF IInv, RemindPart
<1>7. CASE Inserts(i) /\ status # "pending"
  <2>1. row' = [row EXCEPT ![i] = new] /\ loop' = [loop EXCEPT ![l] = Onward(rest)]
        BY <1>0, <1>7
  <2>2. Onward(rest) \in LoopStates /\ Onward(rest).at \in {"idle", "fetching", "storing"}
        BY <1>2, OnwardFacts
  <2> HIDE DEF new, rest
  <2>3. row \in [Items -> Rows] /\ loop \in [Loops -> LoopStates] /\ row[i] = NoRow
        BY <1>7 DEF TypeOK, Inserts, Stored
  <2>4. /\ row' \in [Items -> Rows] /\ loop' \in [Loops -> LoopStates]
        /\ row'[i] = new /\ loop'[l].at \in {"idle", "fetching", "storing"}
        /\ \A j \in Items : j # i => row'[j] = row[j]
        /\ \A k \in Loops : k # l => loop'[k] = loop[k]
        BY <2>1, <2>2, <2>3, <1>4
  <2>5. TypeOK'
    <3>1. \A k \in Loops : loop'[k].at \in {"enriching", "sending", "recording"}
                           => loop'[k].item \in Items /\ row'[loop'[k].item] # NoRow
          BY <2>4, <1>4 DEF TypeOK, Stored
    <3>2. \A j \in Items : row'[j].reminder = "pending" => row'[j].event # NoEvent
          BY <2>4, <1>4, <1>3 DEF TypeOK
    <3> QED
          BY <2>4, <3>1, <3>2, <1>5 DEF TypeOK, feed, history, Stored
  <2>6. row[i].alert = "none" /\ alerts[i] = 0 /\ status = "muted" /\ new.alert = "muted"
        BY <2>3, <1>4, <1>7 DEF IInv, StatusHonest, NoRow
  <2>7. \A k \in Loops : Holding(k) => k # l /\ loop[k].item # i /\ loop[k].item \in Items
    <3>1. loop[l].at = "storing"
          BY DEF StoreItem
    <3> QED
          BY <2>6, <3>1 DEF IInv, HoldInv, TypeOK, Holding
  <2>8. \A k \in Loops : (Holding(k)' <=> Holding(k)) /\ (Holding(k) => loop'[k] = loop[k])
        BY <2>4, <2>7 DEF Holding
  <2>9. HoldInv'
    <3>1. \A k \in Loops : loop'[k].at \in {"sending", "recording"} => loop'[k] = loop[k]
          BY <2>8 DEF Holding
    <3> QED
          BY <2>4, <2>7, <2>8, <3>1, <1>5 DEF IInv, HoldInv, history, Holding
  <2>10. StatusHonest'
    <3>1. \A j \in Items : j \in Held(Loops) => j \in Held(Loops)'
          BY <2>8 DEF Held, Loops
    <3> QED
          BY <2>4, <2>6, <1>5, <3>1 DEF IInv, StatusHonest, history
  <2>11. AlertOnce'
        BY <1>5 DEF IInv, AlertOnce, history
  <2>12. RemindPart'
    <3>1. \A j \in Items : /\ row'[j].reminder = "sent" <=> row[j].reminder = "sent"
                           /\ row[j].reminder # "none" => row'[j].reminder # "none"
          BY <2>4, <2>3, <1>4 DEF NoRow
    <3> QED
          BY <3>1, <1>5, RemindersKept DEF IInv, RemindPart, history
  <2> QED
      BY <2>5, <2>9, <2>10, <2>11, <2>12 DEF IInv, RemindPart
<1>8. CASE ~Inserts(i)
  <2> DEFINE r == [rest EXCEPT !.at = "enriching", !.item = i, !.notice = Notice(e)]
  <2>1. row' = row /\ loop' = [loop EXCEPT ![l] = r]
        BY <1>0, <1>8
  <2> HIDE DEF rest
  <2>2. r \in LoopStates /\ r.at = "enriching" /\ r.item = i
        BY <1>2, <1>3, <1>9 DEF LoopStates
  <2> HIDE DEF r
  <2>3. /\ loop' \in [Loops -> LoopStates] /\ loop'[l] = r
        /\ \A k \in Loops : k # l => loop'[k] = loop[k]
        BY <2>1, <2>2 DEF TypeOK
  <2>4. TypeOK'
    <3>1. \A k \in Loops : loop'[k].at \in {"enriching", "sending", "recording"}
                           => loop'[k].item \in Items /\ row[loop'[k].item] # NoRow
          BY <2>3, <2>2, <1>8 DEF TypeOK, Stored, Inserts
    <3> QED
          BY <2>1, <2>3, <3>1, <1>5 DEF TypeOK, feed, history, Stored
  <2>5. AlertPart'
    <3>1. \A k \in Loops : loop'[k] = loop[k] \/ (~Holding(k) /\ ~Holding(k)')
          BY <2>3, <2>2 DEF StoreItem, Holding
    <3> QED
          BY <2>1, <3>1, <1>5, AlertsKept DEF IInv, AlertPart, history
  <2>6. RemindPart'
        BY <2>1, <1>5, RemindersUntouched DEF IInv, RemindPart, history
  <2> QED
      BY <2>4, <2>5, <2>6 DEF IInv, AlertPart, RemindPart
<1> QED
    BY <1>6, <1>7, <1>8

(* What an enrichment makes of a row: it has no say in whether the         *)
(* reminder was sent, nor in the alert.                                    *)
LEMMA EnrichedFacts ==
    ASSUME TypeOK, NEW i \in Items, Stored(i), NEW n \in Notices
    PROVE  /\ Enriched(i, n) \in Rows /\ Enriched(i, n) # NoRow
           /\ Enriched(i, n).alert = row[i].alert
           /\ Enriched(i, n).reminder = "sent" <=> row[i].reminder = "sent"
           /\ Enriched(i, n).reminder # "none"
           /\ Enriched(i, n).reminder = "pending" => Enriched(i, n).event # NoEvent
<1> DEFINE clear == i \in Clearing /\ n.event = NoEvent
<1> DEFINE ev == IF clear THEN NoEvent ELSE IF n.event # NoEvent THEN n.event ELSE row[i].event
<1> DEFINE re == IF row[i].reminder = "sent" THEN row[i].reminder
                 ELSE IF clear THEN "not_applicable"
                 ELSE IF n.event # NoEvent /\ n.reminder = "pending" THEN "pending"
                 ELSE row[i].reminder
<1>1. Enriched(i, n) = [row[i] EXCEPT !.event = ev, !.reminder = re]
      BY DEF Enriched
<1>2. row[i] \in StoredRows /\ (row[i].reminder = "pending" => row[i].event # NoEvent)
      BY DEF TypeOK, Rows, Stored
<1>3. ev \in Events /\ re \in {"not_applicable", "pending", "sent", "failed", "skipped"}
      BY <1>2, AnnouncementsAssumption DEF StoredRows, Notices, Events, NoEvent
<1>4. /\ re = "sent" <=> row[i].reminder = "sent"
      /\ re = "pending" => ev # NoEvent
      /\ re # "none"
      BY <1>2 DEF Notices, StoredRows
<1> HIDE DEF ev, re
<1>5. /\ Enriched(i, n) \in StoredRows
      /\ Enriched(i, n).event = ev /\ Enriched(i, n).reminder = re
      /\ Enriched(i, n).alert = row[i].alert
      BY <1>1, <1>2, <1>3 DEF StoredRows
<1>6. Enriched(i, n) \in Rows /\ Enriched(i, n) # NoRow
      BY <1>5 DEF Rows, StoredRows, NoRow
<1> QED
    BY <1>4, <1>5, <1>6

LEMMA EnrichKeeps ==
    ASSUME IInv, NEW l \in Loops, Enrich(l)
    PROVE  IInv'
<1> DEFINE i == loop[l].item
<1> DEFINE new == Enriched(i, loop[l].notice)
<1>1. /\ i \in Items /\ Stored(i) /\ loop[l] \in LoopStates /\ TypeOK
      /\ loop[l].notice \in Notices
      BY DEF IInv, TypeOK, Enrich, LoopStates
<1>2. /\ new \in Rows /\ new # NoRow /\ new.alert = row[i].alert
      /\ new.reminder = "sent" <=> row[i].reminder = "sent"
      /\ new.reminder # "none"
      /\ new.reminder = "pending" => new.event # NoEvent
      BY <1>1, EnrichedFacts
<1>3. /\ row' = [row EXCEPT ![i] = new] /\ loop' = [loop EXCEPT ![l] = Onward(loop[l])]
      /\ UNCHANGED <<feed, quietStart, sender, due, minder, history>>
      BY DEF Enrich
<1> HIDE DEF i, new
<1>4. /\ row' \in [Items -> Rows] /\ row'[i] = new
      /\ \A j \in Items : j # i => row'[j] = row[j]
      BY <1>1, <1>2, <1>3 DEF TypeOK
<1>5. /\ loop' \in [Loops -> LoopStates] /\ loop'[l].at \in {"idle", "fetching", "storing"}
      /\ \A k \in Loops : k # l => loop'[k] = loop[k]
      BY <1>1, <1>3, OnwardFacts DEF TypeOK
<1>6. TypeOK'
  <2>1. \A k \in Loops : loop'[k].at \in {"enriching", "sending", "recording"}
                         => loop'[k].item \in Items /\ row'[loop'[k].item] # NoRow
    <3>1. \A j \in Items : row[j] # NoRow => row'[j] # NoRow
          BY <1>2, <1>4
    <3>2. \A k \in Loops : loop'[k].at \in {"enriching", "sending", "recording"}
                           => loop'[k] = loop[k]
          BY <1>5
    <3> QED
        BY <1>1, <3>1, <3>2 DEF TypeOK, Stored
  <2>2. \A j \in Items : row'[j].reminder = "pending" => row'[j].event # NoEvent
        BY <1>1, <1>2, <1>4 DEF TypeOK
  <2> QED
      BY <1>1, <1>3, <1>4, <1>5, <2>1, <2>2 DEF TypeOK, feed, history, Stored
<1>7. AlertPart'
  <2>1. \A k \in Loops : loop'[k] = loop[k] \/ (~Holding(k) /\ ~Holding(k)')
        BY <1>5 DEF Enrich, Holding
  <2>2. \A j \in Items : row'[j].alert = row[j].alert
        BY <1>2, <1>4
  <2> QED
      BY <1>1, <1>3, <2>1, <2>2, AlertsKept DEF IInv, AlertPart, history
<1>8. RemindPart'
  <2>1. \A j \in Items : /\ row'[j].reminder = "sent" <=> row[j].reminder = "sent"
                         /\ row[j].reminder # "none" => row'[j].reminder # "none"
        BY <1>2, <1>4
  <2> QED
      BY <1>1, <1>3, <2>1, RemindersKept DEF IInv, RemindPart, history
<1> QED
    BY <1>6, <1>7, <1>8 DEF IInv, AlertPart, RemindPart

LEMMA SendAlertKeeps ==
    ASSUME IInv, NEW l \in Loops, SendAlert(l)
    PROVE  IInv'
<1> DEFINE i == loop[l].item
<1>0. PICK sent \in {0, 1}, result \in {"sent", "failed", "skipped"} :
        /\ Answers(sent, result)
        /\ alerts' = [alerts EXCEPT ![i] = @ + sent]
        /\ loop' = [loop EXCEPT ![l].at = "recording", ![l].result = result]
      BY DEF SendAlert
<1>1. /\ i \in Items /\ Stored(i) /\ loop[l] \in LoopStates /\ TypeOK
      /\ alerts[i] = 0 /\ row[i].alert = "pending"
      BY DEF IInv, TypeOK, SendAlert, HoldInv, Holding
<1>2. UNCHANGED <<feed, quietStart, sender, row, due, minder, reminders, excused, lost>>
      BY DEF SendAlert
<1>3. /\ result = "sent" => sent = 1
      /\ result = "skipped" => sent = 0
      BY <1>0 DEF Answers
<1> HIDE DEF i
<1>4. /\ loop' \in [Loops -> LoopStates] /\ loop'[l].at = "recording"
      /\ loop'[l].item = loop[l].item /\ loop'[l].result = result
      /\ \A k \in Loops : k # l => loop'[k] = loop[k]
  <2> DEFINE r == [loop[l] EXCEPT !.at = "recording", !.result = result]
  <2>1. r \in LoopStates /\ r.at = "recording" /\ r.item = loop[l].item /\ r.result = result
        BY <1>1 DEF LoopStates, Results
  <2>2. loop' = [loop EXCEPT ![l] = r]
        BY <1>0
  <2> HIDE DEF r
  <2> QED
      BY <1>1, <2>1, <2>2 DEF TypeOK
<1>5. /\ alerts' \in [Items -> Nat] /\ alerts'[i] = sent
      /\ \A j \in Items : j # i => alerts'[j] = alerts[j]
      BY <1>0, <1>1 DEF TypeOK
<1>6. TypeOK'
  <2>1. \A k \in Loops : loop'[k].at \in {"enriching", "sending", "recording"}
                         => loop'[k].item \in Items /\ row[loop'[k].item] # NoRow
        BY <1>1, <1>4 DEF TypeOK, Stored, i
  <2> QED
      BY <1>1, <1>2, <1>4, <1>5, <2>1 DEF TypeOK, feed, Stored
<1>7. \A k \in Loops : Holding(k)' <=> Holding(k)
      BY <1>4 DEF SendAlert, Holding
<1>8. \A k \in Loops : k # l /\ Holding(k) => loop[k].item # i /\ loop[k].item \in Items
      BY <1>1 DEF SendAlert, IInv, HoldInv, Holding, TypeOK, i
<1>9. \A k \in Loops : loop'[k].item = loop[k].item
      BY <1>4
<1>10. HoldInv'
  <2>1. \A k \in Loops : Holding(k)' => row'[loop'[k].item].alert = "pending"
        BY <1>2, <1>7, <1>9 DEF IInv, HoldInv
  <2>2. \A k, m \in Loops : Holding(k)' /\ Holding(m)' /\ loop'[k].item = loop'[m].item => k = m
        BY <1>7, <1>9 DEF IInv, HoldInv
  <2>3. \A k \in Loops : loop'[k].at = "sending" => alerts'[loop'[k].item] = 0
        BY <1>4, <1>5, <1>8 DEF IInv, HoldInv, Holding
  <2>4. \A k \in Loops : loop'[k].at = "recording" =>
          /\ loop'[k].result \in {"sent", "failed", "skipped"}
          /\ loop'[k].result = "sent" => alerts'[loop'[k].item] = 1
          /\ loop'[k].result = "skipped" => alerts'[loop'[k].item] = 0
        BY <1>3, <1>4, <1>5, <1>8 DEF IInv, HoldInv, Holding, i
  <2> QED
      BY <2>1, <2>2, <2>3, <2>4 DEF HoldInv
<1>11. AlertOnce'
      BY <1>1, <1>5 DEF IInv, AlertOnce
<1>12. StatusHonest'
  <2>1. \A j \in Items : j \in Held(Loops) => j \in Held(Loops)'
        BY <1>7, <1>9 DEF Held, Loops
  <2> QED
      BY <1>1, <1>2, <1>5, <2>1 DEF IInv, StatusHonest
<1>13. RemindPart'
      BY <1>1, <1>2, RemindersUntouched DEF IInv, RemindPart
<1> QED
    BY <1>6, <1>10, <1>11, <1>12, <1>13 DEF IInv, RemindPart

LEMMA RecordAlertKeeps ==
    ASSUME IInv, NEW l \in Loops, RecordAlert(l)
    PROVE  IInv'
<1> DEFINE i == loop[l].item
<1> DEFINE res == loop[l].result
<1>1. /\ i \in Items /\ Stored(i) /\ loop[l] \in LoopStates /\ TypeOK
      /\ res \in {"sent", "failed", "skipped"}
      /\ res = "sent" => alerts[i] = 1
      /\ res = "skipped" => alerts[i] = 0
      BY DEF IInv, TypeOK, RecordAlert, HoldInv
<1>2. /\ row' = [row EXCEPT ![i].alert = res] /\ loop' = [loop EXCEPT ![l] = Onward(loop[l])]
      /\ UNCHANGED <<feed, quietStart, sender, due, minder, history>>
      BY DEF RecordAlert
<1>3. \A k \in Loops : k # l /\ Holding(k) => loop[k].item # i /\ loop[k].item \in Items
      BY <1>1 DEF RecordAlert, IInv, HoldInv, Holding, TypeOK
<1> HIDE DEF i, res
<1>4. /\ row' \in [Items -> Rows] /\ row'[i] # NoRow /\ row'[i].alert = res
      /\ row'[i].event = row[i].event /\ row'[i].reminder = row[i].reminder
      /\ \A j \in Items : j # i => row'[j] = row[j]
  <2> DEFINE new == [row[i] EXCEPT !.alert = res]
  <2>1. /\ new \in StoredRows /\ new.alert = res
        /\ new.event = row[i].event /\ new.reminder = row[i].reminder
        BY <1>1 DEF TypeOK, Rows, StoredRows, Stored
  <2>2. new \in Rows /\ new # NoRow
        BY <2>1 DEF Rows, StoredRows, NoRow
  <2>3. row' = [row EXCEPT ![i] = new]
        BY <1>2
  <2> HIDE DEF new
  <2> QED
      BY <1>1, <2>1, <2>2, <2>3 DEF TypeOK
<1>5. /\ loop' \in [Loops -> LoopStates] /\ loop'[l].at \in {"idle", "fetching", "storing"}
      /\ \A k \in Loops : k # l => loop'[k] = loop[k]
      BY <1>1, <1>2, OnwardFacts DEF TypeOK
<1>6. TypeOK'
  <2>1. \A j \in Items : row[j] # NoRow => row'[j] # NoRow
        BY <1>4
  <2>2. \A k \in Loops : loop'[k].at \in {"enriching", "sending", "recording"}
                         => loop'[k] = loop[k]
        BY <1>5
  <2>3. \A k \in Loops : loop'[k].at \in {"enriching", "sending", "recording"}
                         => loop'[k].item \in Items /\ row'[loop'[k].item] # NoRow
        BY <1>1, <2>1, <2>2 DEF TypeOK, Stored
  <2>4. \A j \in Items : row'[j].reminder = "pending" => row'[j].event # NoEvent
        BY <1>1, <1>4 DEF TypeOK
  <2> QED
      BY <1>1, <1>2, <1>4, <1>5, <2>3, <2>4 DEF TypeOK, feed, history, Stored
<1>7. \A k \in Loops : Holding(k)' => /\ k # l /\ Holding(k) /\ loop'[k] = loop[k]
                                      /\ loop[k].item # i /\ loop[k].item \in Items
      BY <1>3, <1>5 DEF Holding
<1>8. HoldInv'
  <2>1. \A k \in Loops : Holding(k)' => row'[loop'[k].item].alert = "pending"
        BY <1>4, <1>7 DEF IInv, HoldInv
  <2>2. \A k, m \in Loops : Holding(k)' /\ Holding(m)' /\ loop'[k].item = loop'[m].item => k = m
        BY <1>7 DEF IInv, HoldInv
  <2>3. \A k \in Loops : loop'[k].at \in {"sending", "recording"} => loop'[k] = loop[k]
        BY <1>7 DEF Holding
  <2> QED
      BY <1>2, <2>1, <2>2, <2>3 DEF IInv, HoldInv, history
<1>9. AlertOnce'
      BY <1>2 DEF IInv, AlertOnce, history
<1>10. StatusHonest'
  <2>1. \A j \in Items : j # i /\ j \in Held(Loops) => j \in Held(Loops)'
        BY <1>5 DEF Held, Loops, Holding, i
  <2> QED
      BY <1>1, <1>2, <1>4, <2>1 DEF IInv, StatusHonest, history
<1>11. RemindPart'
  <2>1. \A j \in Items : /\ row'[j].reminder = "sent" <=> row[j].reminder = "sent"
                         /\ row[j].reminder # "none" => row'[j].reminder # "none"
        BY <1>4
  <2> QED
      BY <1>1, <1>2, <2>1, RemindersKept DEF IInv, RemindPart, history
<1> QED
    BY <1>6, <1>8, <1>9, <1>10, <1>11 DEF IInv, RemindPart

(* A loop that stops with a row in its hands leaves it to "lost".          *)
LEMMA PollFailsKeeps ==
    ASSUME IInv, NEW l \in Loops, PollFails(l)
    PROVE  IInv'
<1>1. /\ lost' = lost \cup Held({l}) /\ loop' = [loop EXCEPT ![l] = IdleLoop]
      /\ UNCHANGED <<feed, quietStart, sender, row, due, minder, alerts, reminders, excused>>
      BY DEF PollFails
<1>2. /\ loop' \in [Loops -> LoopStates] /\ loop'[l] = IdleLoop
      /\ \A k \in Loops : k # l => loop'[k] = loop[k]
      BY <1>1, IdleFacts DEF IInv, TypeOK
<1>3. \A k \in Loops : Holding(k)' => k # l /\ Holding(k) /\ loop'[k] = loop[k]
      BY <1>2 DEF Holding, IdleLoop
<1>4. TypeOK'
  <2>1. Held({l}) \subseteq Items
        BY DEF Held, Holding, IInv, TypeOK
  <2>2. \A k \in Loops : loop'[k].at \in {"enriching", "sending", "recording"}
                         => loop'[k].item \in Items /\ row[loop'[k].item] # NoRow
        BY <1>2 DEF IInv, TypeOK, IdleLoop, Stored
  <2> QED
      BY <1>1, <1>2, <2>1, <2>2 DEF IInv, TypeOK, feed, Stored
<1>5. HoldInv'
  <2>1. \A k \in Loops : loop'[k].at \in {"sending", "recording"} => loop'[k] = loop[k]
        BY <1>3 DEF Holding
  <2> QED
      BY <1>1, <1>3, <2>1 DEF IInv, HoldInv
<1>6. AlertOnce'
      BY <1>1 DEF IInv, AlertOnce
<1>7. StatusHonest'
  <2>1. \A j \in Items : j \in Held(Loops) => j \in Held({l}) \/ j \in Held(Loops)'
        BY <1>2 DEF Held, Loops, Holding
  <2> QED
      BY <1>1, <2>1 DEF IInv, StatusHonest
<1>8. RemindPart'
      BY <1>1, RemindersUntouched DEF IInv, RemindPart
<1> QED
    BY <1>4, <1>5, <1>6, <1>7, <1>8 DEF IInv, RemindPart

-----------------------------------------------------------------------------
(* The reminder loop.                                                      *)
LEMMA BeginRoundKeeps ==
    ASSUME IInv, BeginRound
    PROVE  IInv'
<1>1. /\ due' = {<<row[i].event, i>> : i \in {j \in Items : IsDue(j)}}
      /\ minder' = IF due' = {} THEN NoRound ELSE [NoRound EXCEPT !.at = "next"]
      /\ UNCHANGED <<feed, quietStart, sender, row, loop, history>>
      BY DEF BeginRound
<1>2. /\ minder'.at \in {"idle", "next"} /\ (minder'.at = "idle" => due' = {})
      /\ minder' \in [at : {"idle", "next", "recording"}, item : {0} \cup Dated, result : Results]
      BY <1>1 DEF NoRound, Results
<1>3. \A d \in due' : \E i \in Items : IsDue(i) /\ d = <<row[i].event, i>>
      BY <1>1
<1>4. due' \subseteq (1 .. MaxTime) \X Dated
  <2>1. \A i \in Items : IsDue(i) => row[i].event \in 1 .. MaxTime /\ i \in Dated
        BY AnnouncementsAssumption DEF IInv, TypeOK, Rows, StoredRows, NoRow, IsDue, Events, NoEvent
  <2> QED
      BY <1>3, <2>1
<1>5. TypeOK'
      BY <1>1, <1>2, <1>4 DEF IInv, TypeOK, feed, history, Stored
<1>6. AlertPart'
  <2>1. /\ \A i \in Items : row'[i].alert = row[i].alert
        /\ \A k \in Loops : loop'[k] = loop[k]
        BY <1>1
  <2> QED
      BY <1>1, <2>1, AlertsKept DEF IInv, AlertPart, history
<1>7. RemindInv'
  <2>1. /\ \A d \in due' : row[d[2]].reminder \notin {"none", "sent"}
        /\ \A d, o \in due' : d[2] = o[2] => d = o
        BY <1>3 DEF IsDue
  <2>2. \A i \in Items : row[i].reminder # "sent" => reminders[i] <= excused[i]
        BY DEF IInv, RemindInv, BeginRound
  <2> QED
      BY <1>1, <1>2, <2>1, <2>2 DEF RemindInv, history
<1>8. ReminderOnce'
      BY <1>1 DEF IInv, ReminderOnce, history
<1> QED
    BY <1>5, <1>6, <1>7, <1>8 DEF IInv, AlertPart

LEMMA SendReminderKeeps ==
    ASSUME IInv, SendReminder
    PROVE  IInv'
<1>0. PICK d \in due, sent \in {0, 1}, result \in {"sent", "failed", "skipped"} :
        /\ Answers(sent, result)
        /\ due' = due \ {d}
        /\ minder' = [at |-> "recording", item |-> d[2], result |-> result]
        /\ reminders' = [reminders EXCEPT ![d[2]] = @ + sent]
        /\ excused' = [excused EXCEPT ![d[2]] = @ + IF result = "sent" THEN 0 ELSE sent]
      BY ZenonT(40) DEF SendReminder
<1> DEFINE i == d[2]
<1>1. /\ i \in Dated /\ i \in Items /\ TypeOK /\ minder.at = "next"
      /\ row[i].reminder \notin {"none", "sent"}
      BY AnnouncementsAssumption DEF IInv, TypeOK, RemindInv, SendReminder, Items
<1>2. UNCHANGED <<feed, quietStart, sender, row, loop, alerts, lost>>
      BY DEF SendReminder
<1>3. reminders[i] <= excused[i] /\ reminders[i] \in Nat /\ excused[i] \in Nat
      BY <1>1 DEF IInv, RemindInv, TypeOK
<1>4. /\ minder'.at = "recording" /\ minder'.item = i /\ minder'.result = result
      /\ minder' \in [at : {"idle", "next", "recording"}, item : {0} \cup Dated, result : Results]
      BY <1>0, <1>1 DEF Results
<1>5. /\ due' \subseteq due
      /\ \A o \in due' : o[2] # i
      BY <1>0 DEF IInv, RemindInv
<1> DEFINE more == IF result = "sent" THEN 0 ELSE sent
<1>6. /\ more \in Nat /\ sent \in Nat
      /\ reminders' = [reminders EXCEPT ![i] = @ + sent]
      /\ excused' = [excused EXCEPT ![i] = @ + more]
      /\ result = "sent" => more = 0 /\ sent <= 1
      /\ result # "sent" => more = sent
      BY <1>0
<1> HIDE DEF i, more
<1>7. /\ reminders' \in [Items -> Nat] /\ excused' \in [Items -> Nat]
      /\ reminders'[i] = reminders[i] + sent /\ excused'[i] = excused[i] + more
      /\ \A j \in Items : j # i => reminders'[j] = reminders[j] /\ excused'[j] = excused[j]
      BY <1>1, <1>3, <1>6 DEF TypeOK
<1>8. TypeOK'
      BY <1>1, <1>2, <1>4, <1>5, <1>7 DEF TypeOK, feed, Stored
<1>9. AlertPart'
  <2>1. /\ \A j \in Items : row'[j].alert = row[j].alert
        /\ \A k \in Loops : loop'[k] = loop[k]
        BY <1>2
  <2> QED
      BY <1>1, <1>2, <2>1, AlertsKept DEF IInv, AlertPart
<1>10. ReminderOnce'
  <2>1. reminders'[i] <= 1 + excused'[i]
        BY <1>3, <1>6, <1>7
  <2> QED
      BY <1>7, <2>1 DEF IInv, ReminderOnce
<1>11. RemindInv'
  <2>1. /\ \A o \in due' : row'[o[2]].reminder \notin {"none", "sent"}
        /\ \A o, q \in due' : o[2] = q[2] => o = q
        BY <1>2, <1>5 DEF IInv, RemindInv
  <2>2. /\ result = "sent" => reminders'[i] <= excused'[i] + 1
        /\ result # "sent" => reminders'[i] <= excused'[i]
        BY <1>3, <1>6, <1>7
  <2>3. \A j \in Items : j # i /\ row[j].reminder # "sent" => reminders'[j] <= excused'[j]
        BY <1>1, <1>7 DEF IInv, RemindInv
  <2>4. \A j \in Items : row'[j].reminder # "sent" =>
          reminders'[j] <= IF minder'.at = "recording" /\ minder'.item = j
                              /\ minder'.result = "sent"
                           THEN excused'[j] + 1 ELSE excused'[j]
        BY <1>2, <1>4, <2>2, <2>3
  <2> QED
      BY <1>0, <1>1, <1>2, <1>4, <1>5, <2>1, <2>4 DEF RemindInv
<1> QED
    BY <1>8, <1>9, <1>10, <1>11 DEF IInv, AlertPart

LEMMA RecordReminderKeeps ==
    ASSUME IInv, RecordReminder
    PROVE  IInv'
<1> DEFINE i == minder.item
<1> DEFINE res == minder.result
<1>1. /\ i \in Dated /\ i \in Items /\ res \in {"sent", "failed", "skipped"} /\ TypeOK
      /\ \A d \in due : d[2] # i
      /\ row[i].reminder \notin {"none", "sent"}
      /\ res # "sent" => reminders[i] <= excused[i]
      /\ minder.at = "recording"
      BY AnnouncementsAssumption DEF IInv, RemindInv, RecordReminder, Items
<1>2. /\ row' = [row EXCEPT ![i].reminder = res]
      /\ minder' = IF due = {} THEN NoRound ELSE [NoRound EXCEPT !.at = "next"]
      /\ UNCHANGED <<feed, quietStart, sender, loop, due, history>>
      BY DEF RecordReminder
<1>3. /\ minder'.at \in {"idle", "next"} /\ (minder'.at = "idle" => due' = {})
      /\ minder' \in [at : {"idle", "next", "recording"}, item : {0} \cup Dated, result : Results]
      BY <1>2 DEF NoRound, Results
<1> HIDE DEF i, res
<1>4. /\ row' \in [Items -> Rows] /\ row'[i] # NoRow /\ row'[i].alert = row[i].alert
      /\ row'[i].reminder = res
      /\ \A j \in Items : j # i => row'[j] = row[j]
  <2> DEFINE new == [row[i] EXCEPT !.reminder = res]
  <2>1. row[i] \in StoredRows
        BY <1>1 DEF TypeOK, Rows, NoRow
  <2>2. new \in StoredRows /\ new.alert = row[i].alert /\ new.reminder = res
        BY <1>1, <2>1 DEF StoredRows
  <2>3. new \in Rows /\ new # NoRow
        BY <2>2 DEF Rows, StoredRows, NoRow
  <2>4. row' = [row EXCEPT ![i] = new]
        BY <1>2
  <2> HIDE DEF new
  <2> QED
      BY <1>1, <2>2, <2>3, <2>4 DEF TypeOK
<1>5. TypeOK'
  <2>1. \A k \in Loops : loop[k].at \in {"enriching", "sending", "recording"}
                         => loop[k].item \in Items /\ row'[loop[k].item] # NoRow
        BY <1>1, <1>4 DEF TypeOK, Stored
  <2>2. \A j \in Items : row'[j].reminder = "pending" => row'[j].event # NoEvent
        BY <1>1, <1>4 DEF TypeOK
  <2> QED
      BY <1>1, <1>2, <1>3, <1>4, <2>1, <2>2 DEF TypeOK, feed, history, Stored
<1>6. AlertPart'
  <2>1. /\ \A j \in Items : row'[j].alert = row[j].alert
        /\ \A k \in Loops : loop'[k] = loop[k]
        BY <1>2, <1>4
  <2> QED
      BY <1>1, <1>2, <2>1, AlertsKept DEF IInv, AlertPart, history
<1>7. ReminderOnce'
      BY <1>2 DEF IInv, ReminderOnce, history
<1>8. RemindInv'
  <2>1. \A d \in due : d[2] \in Items
        BY <1>1, AnnouncementsAssumption DEF TypeOK, Items
  <2>2. /\ \A d \in due' : row'[d[2]].reminder \notin {"none", "sent"}
        /\ \A d, o \in due' : d[2] = o[2] => d = o
        BY <1>1, <1>2, <1>4, <2>1 DEF IInv, RemindInv
  <2>3. \A j \in Items : row'[j].reminder # "sent" => reminders[j] <= excused[j]
        BY <1>1, <1>4 DEF IInv, RemindInv, i
  <2> QED
      BY <1>2, <1>3, <2>2, <2>3 DEF RemindInv, history
<1> QED
    BY <1>5, <1>6, <1>7, <1>8 DEF IInv, AlertPart

(* Losing the round's last answer: what was sent is excused.               *)
LEMMA UnrecordedFacts ==
    ASSUME TypeOK, RemindPart, minder' = NoRound, due' = {}, excused' = Unrecorded,
           UNCHANGED <<row, reminders>>
    PROVE  excused' \in [Items -> Nat] /\ RemindPart'
<1>1. \A i \in Items : /\ excused'[i] \in Nat /\ excused'[i] >= excused[i]
                       /\ excused'[i] = IF minder.at = "recording" /\ minder.item = i
                                           /\ minder.result = "sent"
                                        THEN excused[i] + 1 ELSE excused[i]
      BY DEF Unrecorded, TypeOK
<1>2. excused' \in [Items -> Nat]
      BY DEF Unrecorded, TypeOK
<1>3. ReminderOnce'
      BY <1>1 DEF RemindPart, ReminderOnce, TypeOK
<1>4. \A i \in Items : row[i].reminder # "sent" => reminders[i] <= excused'[i]
      BY <1>1 DEF RemindPart, RemindInv
<1>5. RemindInv'
      BY <1>4 DEF RemindInv, NoRound
<1> QED
    BY <1>2, <1>3, <1>5 DEF RemindPart

LEMMA ReminderFailsKeeps ==
    ASSUME IInv, ReminderFails
    PROVE  IInv'
<1>1. /\ minder' = NoRound /\ due' = {} /\ excused' = Unrecorded
      /\ UNCHANGED <<feed, quietStart, sender, row, loop, alerts, reminders, lost>>
      BY DEF ReminderFails
<1>2. excused' \in [Items -> Nat] /\ RemindPart'
      BY <1>1, UnrecordedFacts DEF IInv, RemindPart
<1>3. TypeOK'
      BY <1>1, <1>2 DEF IInv, TypeOK, feed, NoRound, Results, Stored
<1>4. AlertPart'
  <2>1. /\ \A j \in Items : row'[j].alert = row[j].alert
        /\ \A k \in Loops : loop'[k] = loop[k]
        BY <1>1
  <2> QED
      BY <1>1, <2>1, AlertsKept DEF IInv, AlertPart
<1> QED
    BY <1>2, <1>3, <1>4 DEF IInv, AlertPart, RemindPart

LEMMA CrashKeeps ==
    ASSUME IInv, Crash
    PROVE  IInv'
<1>1. /\ minder' = NoRound /\ due' = {} /\ excused' = Unrecorded
      /\ loop' = [l \in Loops |-> IdleLoop] /\ lost' = lost \cup Held(Loops)
      /\ UNCHANGED <<feed, quietStart, sender, row, alerts, reminders>>
      BY DEF Crash
<1>2. excused' \in [Items -> Nat] /\ RemindPart'
      BY <1>1, UnrecordedFacts DEF IInv, RemindPart
<1>3. loop' \in [Loops -> LoopStates] /\ \A l \in Loops : loop'[l].at = "idle"
      BY <1>1, IdleFacts DEF IdleLoop
<1>4. Held(Loops) \subseteq Items
      BY DEF Held, Holding, IInv, TypeOK
<1>5. TypeOK'
      BY <1>1, <1>2, <1>3, <1>4 DEF IInv, TypeOK, feed, NoRound, Results, Stored
<1>6. AlertPart'
  <2>1. \A l \in Loops : ~Holding(l)'
        BY <1>3 DEF Holding
  <2>2. HoldInv'
        BY <1>3, <2>1 DEF HoldInv
  <2>3. AlertOnce' /\ StatusHonest'
        BY <1>1 DEF IInv, AlertOnce, StatusHonest
  <2> QED
      BY <2>2, <2>3 DEF AlertPart
<1> QED
    BY <1>2, <1>5, <1>6 DEF IInv, AlertPart, RemindPart

-----------------------------------------------------------------------------
LEMMA NextKeeps == IInv /\ [Next]_vars => IInv'
<1> SUFFICES ASSUME IInv, [Next]_vars PROVE IInv'
    OBVIOUS
<1>1. ASSUME NEW l \in Loops,
             \/ BeginPoll(l) \/ FetchPage(l) \/ StoreItem(l) \/ Enrich(l)
             \/ SendAlert(l) \/ RecordAlert(l) \/ PollFails(l)
      PROVE  IInv'
      BY <1>1, BeginPollKeeps, FetchPageKeeps, StoreItemKeeps, EnrichKeeps,
         SendAlertKeeps, RecordAlertKeeps, PollFailsKeeps
<1>2. CASE Age \/ Tick
  <2>1. /\ now' \in 0 .. MaxTime /\ cutoff' \in 0 .. Last
        /\ UNCHANGED <<others, quietStart, sender, row, loop, due, minder, history>>
        BY <1>2, AnnouncementsAssumption DEF Age, Tick, IInv, TypeOK
  <2>2. TypeOK'
        BY <2>1 DEF IInv, TypeOK, history, Stored
  <2>3. AlertPart'
    <3>1. /\ \A j \in Items : row'[j].alert = row[j].alert
          /\ \A k \in Loops : loop'[k] = loop[k]
          BY <2>1
    <3> QED
        BY <2>1, <3>1, AlertsKept DEF IInv, AlertPart, history
  <2>4. RemindPart'
        BY <2>1, RemindersUntouched DEF IInv, RemindPart, history
  <2> QED
      BY <2>2, <2>3, <2>4 DEF IInv, AlertPart, RemindPart
<1>3. CASE UNCHANGED vars
  <2>1. UNCHANGED <<now, cutoff, others, quietStart, sender, row, loop, due, minder, history>>
        BY <1>3 DEF vars, feed
  <2>2. TypeOK'
        BY <2>1 DEF IInv, TypeOK, history, Stored
  <2>3. AlertPart'
    <3>1. /\ \A j \in Items : row'[j].alert = row[j].alert
          /\ \A k \in Loops : loop'[k] = loop[k]
          BY <2>1
    <3> QED
        BY <2>1, <3>1, AlertsKept DEF IInv, AlertPart, history
  <2>4. RemindPart'
        BY <2>1, RemindersUntouched DEF IInv, RemindPart, history
  <2> QED
      BY <2>2, <2>3, <2>4 DEF IInv, AlertPart, RemindPart
<1> QED
    BY <1>1, <1>2, <1>3, BeginRoundKeeps, SendReminderKeeps, RecordReminderKeeps,
       ReminderFailsKeeps, CrashKeeps DEF Next

(* The inductive invariant holds in every reachable state.                 *)
THEOREM Invariance == Spec => []IInv
<1> QED
    BY InitHolds, NextKeeps, PTL DEF Spec

(* Every reachable state is well typed: no loop works on a row that does   *)
(* not exist, and no reminder is pending without a time.                   *)
THEOREM TypeCorrect == Spec => []TypeOK
<1>1. IInv => TypeOK
      BY DEF IInv
<1> QED
    BY <1>1, Invariance, PTL

(* For any number of loops, polls and crashes, an announcement's alert     *)
(* goes out at most once.                                                  *)
THEOREM AlertsOnce == Spec => []AlertOnce
<1>1. IInv => AlertOnce
      BY DEF IInv
<1> QED
    BY <1>1, Invariance, PTL

(* The alert status in the table is true, and pending only while a loop    *)
(* has the row or after one was cut off with it.                           *)
THEOREM StatusIsHonest == Spec => []StatusHonest
<1>1. IInv => StatusHonest
      BY DEF IInv
<1> QED
    BY <1>1, Invariance, PTL

(* A reminder goes out again only after one that could not be recorded,    *)
(* whatever the enrichment writes into the row meanwhile.                  *)
THEOREM RemindersOnce == Spec => []ReminderOnce
<1>1. IInv => ReminderOnce
      BY DEF IInv
<1> QED
    BY <1>1, Invariance, PTL
=============================================================================
