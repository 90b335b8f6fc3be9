--------------------------- MODULE Announcements ---------------------------
(***************************************************************************)
(* Discovery, alerts and event reminders of exchange announcements         *)
(* (services/announcement_polling.py, services/announcements.py,           *)
(* AnnouncementRepository in db/repositories.py).                          *)
(*                                                                         *)
(* Several loops read the same announcements: one headline loop per        *)
(* provider (Bitget's API and its website share their identities) and one  *)
(* enrichment loop that reads every provider's articles.  Nothing excludes *)
(* them from each other but the unique identity of a row.  One more loop   *)
(* sends the reminders.  The table survives a crash, the loops do not.     *)
(*                                                                         *)
(* Announcements of one source are numbered by publication time; they may  *)
(* show up on a page in any order, early or late.  Kinds, texts and        *)
(* symbols are abstracted: Wanted are the items the settings alert on,     *)
(* Dated those of a kind that is reminded of, Clearing Bybit's listings,   *)
(* whose event time is withdrawn by a read that does not see one.          *)
(***************************************************************************)
EXTENDS Integers

CONSTANTS Last,         \* items are 1 .. Last
          Wanted,       \* items whose kind or exchange is alerted on
          Dated,        \* listings and delistings
          Clearing,     \* listings of Bybit
          Providers,    \* providers of this source
          Enrichment,   \* the name of the enrichment loop
          Before,       \* minutes before an event its reminder is due
          MaxTime       \* bound: the clock and the event times

ASSUME AnnouncementsAssumption ==
    /\ Last \in Nat \ {0} /\ Before \in Nat /\ MaxTime \in Nat
    /\ Wanted \subseteq 1 .. Last
    /\ Clearing \subseteq Dated /\ Dated \subseteq 1 .. Last
    /\ Enrichment \notin Providers

Items == 1 .. Last
Loops == Providers \cup {Enrichment}
NoEvent == 0
Events == 0 .. MaxTime          \* 0 is no event time

VARIABLES now,          \* the clock, in the unit of event times
          cutoff,       \* items up to this one are older than alert_max_age
          others,       \* rows of other sources exist
          quietStart,   \* bootstrap_alerts_enabled is off
          sender,       \* a webhook is configured (alert_sender is not None)
          row,          \* exchange_announcements
          loop,         \* where each polling loop is
          due, minder,  \* rows of the current reminder round; its step
          alerts, reminders,    \* history: messages that went out per item
          excused,      \* history: reminders that went out unrecorded
          lost          \* history: items whose alert a crash or an error cut off

feed == <<now, cutoff, others>>
history == <<alerts, reminders, excused, lost>>
vars == <<feed, quietStart, sender, row, loop, due, minder, history>>

NoRow == [alert |-> "none", event |-> NoEvent, reminder |-> "none"]
Stored(i) == row[i] # NoRow

NoNotice == [event |-> NoEvent, reminder |-> "not_applicable"]
IdleLoop == [at |-> "idle", left |-> {}, boot |-> FALSE,
             batch |-> {}, pending |-> {}, item |-> 0, notice |-> NoNotice, result |-> "none"]
NoRound == [at |-> "idle", item |-> 0, result |-> "none"]

(* What a read of an article finds: an event time or none, and a reminder  *)
(* only for a time still to come.                                          *)
Notice(e) == [event |-> e,
              reminder |-> IF e > now THEN "pending" ELSE "not_applicable"]

Init ==
    /\ now = 0 /\ cutoff = 0
    /\ others \in BOOLEAN /\ quietStart \in BOOLEAN /\ sender \in BOOLEAN
    /\ row = [i \in Items |-> NoRow]
    /\ loop = [l \in Loops |-> IdleLoop]
    /\ due = {} /\ minder = NoRound
    /\ alerts = [i \in Items |-> 0] /\ reminders = [i \in Items |-> 0]
    /\ excused = [i \in Items |-> 0] /\ lost = {}

-----------------------------------------------------------------------------
(* One polling round: settings and has_any first, then a page, then the    *)
(* items of the page one by one, the newest first.                         *)

HasAny == others \/ \E i \in Items : Stored(i)
Watermark == \E i \in Items : Stored(i)

(* Where a loop goes when it is done with an item: to the next one, to the *)
(* next provider's page, or to the end of its round.                       *)
Onward(r) ==
    IF r.batch # {} THEN [r EXCEPT !.at = "storing", !.item = 0, !.notice = NoNotice,
                                   !.result = "none"]
    ELSE IF r.left # {} THEN [IdleLoop EXCEPT !.at = "fetching", !.left = r.left, !.boot = r.boot]
    ELSE IdleLoop

(* A headline loop reads its provider; the enrichment loop reads them all  *)
(* under the bootstrap flag of its start.                                  *)
BeginPoll(l) ==
    /\ loop[l].at = "idle"
    /\ loop' = [loop EXCEPT ![l] = [IdleLoop EXCEPT
                    !.at = "fetching",
                    !.left = IF l = Enrichment THEN Providers ELSE {l},
                    !.boot = ~HasAny]]
    /\ UNCHANGED <<feed, quietStart, sender, row, due, minder, history>>

(* A page is any set of items, the empty one also when the request fails   *)
(* or times out.  Which of them are to be alerted on is settled for the    *)
(* whole page: watermark and clock are read before its first row is        *)
(* stored.  Unless wanted otherwise, what an empty table, a new source or  *)
(* the age limit make history is stored without an alert.                  *)
History(l, i) == loop[l].boot \/ ~Watermark \/ i <= cutoff
ToAlert(l, page) == {i \in page \cap Wanted : quietStart => ~History(l, i)}

FetchPage(l) ==
    /\ loop[l].at = "fetching"
    /\ \E p \in loop[l].left, page \in SUBSET Items :
          loop' = [loop EXCEPT ![l] = Onward([loop[l] EXCEPT !.left = @ \ {p}, !.batch = page,
                                                             !.pending = ToAlert(l, page)])]
    /\ UNCHANGED <<feed, quietStart, sender, row, due, minder, history>>

(* If a row left pending were taken up again by whoever finds it.          *)
InsertsPending(i) == row[i].alert \in {"none", "pending"}

(* INSERT OR IGNORE on the unique identity: the loop that inserted the row *)
(* alerts, every other one only adds what it knows.                        *)
Inserts(i) == ~Stored(i)

StoreItem(l) ==
    /\ loop[l].at = "storing"
    /\ \E i \in loop[l].batch, e \in Events :
         LET rest == [loop[l] EXCEPT !.batch = @ \ {i}, !.pending = @ \ {i}]
             status == IF i \in loop[l].pending THEN "pending" ELSE "muted"
         IN  /\ \A j \in loop[l].batch : j <= i
             /\ e # NoEvent => i \in Dated
             /\ IF Inserts(i)
                THEN /\ row' = [row EXCEPT ![i] = [alert |-> status, event |-> e,
                                                   reminder |-> Notice(e).reminder]]
                     /\ loop' = [loop EXCEPT ![l] =
                           IF status = "pending"
                           THEN [rest EXCEPT !.at = "sending", !.item = i]
                           ELSE Onward(rest)]
                ELSE /\ row' = row
                     /\ loop' = [loop EXCEPT ![l] = [rest EXCEPT !.at = "enriching", !.item = i,
                                                                 !.notice = Notice(e)]]
    /\ UNCHANGED <<feed, quietStart, sender, due, minder, history>>

(* The metadata of a row another poll inserted, if the reminder forgot     *)
(* that it was sent, or outlived its event time.                           *)
EnrichedAgain(i, n) ==
    [row[i] EXCEPT !.event = IF n.event # NoEvent THEN n.event ELSE @,
                   !.reminder = IF n.event # NoEvent /\ n.reminder = "pending" THEN "pending" ELSE @]
EnrichedTimeOnly(i, n) ==
    [row[i] EXCEPT !.event = IF i \in Clearing \/ n.event # NoEvent THEN n.event ELSE @,
                   !.reminder = IF n.event # NoEvent /\ n.reminder = "pending" /\ @ # "sent"
                                THEN "pending" ELSE @]

(* The metadata of a row another poll inserted: a read of a Bybit listing  *)
(* that sees no time withdraws the one on record, any other read keeps it; *)
(* a time to come makes the reminder pending again unless it was sent.     *)
Enriched(i, n) ==
    LET clear == i \in Clearing /\ n.event = NoEvent
    IN  [row[i] EXCEPT
            !.event = IF clear THEN NoEvent ELSE IF n.event # NoEvent THEN n.event ELSE @,
            !.reminder = IF @ = "sent" THEN @
                         ELSE IF clear THEN "not_applicable"
                         ELSE IF n.event # NoEvent /\ n.reminder = "pending" THEN "pending"
                         ELSE @]

Enrich(l) ==
    /\ loop[l].at = "enriching"
    /\ row' = [row EXCEPT ![loop[l].item] = Enriched(loop[l].item, loop[l].notice)]
    /\ loop' = [loop EXCEPT ![l] = Onward(loop[l])]
    /\ UNCHANGED <<feed, quietStart, sender, due, minder, history>>

(* If the exception of a failed request were swallowed by the sender.      *)
AnswersSwallowed(sent, result) ==
    IF sender THEN result = "sent" ELSE sent = 0 /\ result = "skipped"

(* The alert goes out or not, and the sender says so or not: a request     *)
(* that was delivered may still end in an exception.  Without a sender     *)
(* nothing goes out.                                                       *)
Answers(sent, result) ==
    IF sender THEN (sent = 0 => result = "failed") /\ result \in {"sent", "failed"}
              ELSE sent = 0 /\ result = "skipped"

SendAlert(l) ==
    /\ loop[l].at = "sending"
    /\ \E sent \in {0, 1}, result \in {"sent", "failed", "skipped"} :
         /\ Answers(sent, result)
         /\ alerts' = [alerts EXCEPT ![loop[l].item] = @ + sent]
         /\ loop' = [loop EXCEPT ![l].at = "recording", ![l].result = result]
    /\ UNCHANGED <<feed, quietStart, sender, row, due, minder, reminders, excused, lost>>

RecordAlert(l) ==
    /\ loop[l].at = "recording"
    /\ row' = [row EXCEPT ![loop[l].item].alert = loop[l].result]
    /\ loop' = [loop EXCEPT ![l] = Onward(loop[l])]
    /\ UNCHANGED <<feed, quietStart, sender, due, minder, history>>

(* Loops that have a pending row in their hands.                           *)
Holding(l) == loop[l].at \in {"sending", "recording"}
Held(L) == {loop[l].item : l \in {k \in L : Holding(k)}}

(* A database error ends the round (also one at the commit of an insert    *)
(* that another commit on the connection then completes).                  *)
PollFails(l) ==
    /\ loop[l].at \in {"storing", "enriching", "sending", "recording"}
    /\ lost' = lost \cup Held({l})
    /\ loop' = [loop EXCEPT ![l] = IdleLoop]
    /\ UNCHANGED <<feed, quietStart, sender, row, due, minder, alerts, reminders, excused>>

-----------------------------------------------------------------------------
(* The reminder loop.                                                      *)

IsDue(i) == /\ i \in Dated /\ row[i].reminder = "pending"
            /\ row[i].event > now /\ row[i].event <= now + Before

BeginRound ==
    /\ minder.at = "idle"
    /\ due' = {<<row[i].event, i>> : i \in {j \in Items : IsDue(j)}}
    /\ minder' = IF due' = {} THEN NoRound ELSE [NoRound EXCEPT !.at = "next"]
    /\ UNCHANGED <<feed, quietStart, sender, row, loop, history>>

(* The next row of the round, soonest event and then newest first, as it   *)
(* was when the round read it.                                             *)
SendReminder ==
    /\ minder.at = "next"
    /\ \E d \in due, sent \in {0, 1}, result \in {"sent", "failed", "skipped"} :
         /\ \A o \in due : d[1] < o[1] \/ (d[1] = o[1] /\ d[2] >= o[2])
         /\ Answers(sent, result)
         /\ due' = due \ {d}
         /\ minder' = [at |-> "recording", item |-> d[2], result |-> result]
         /\ reminders' = [reminders EXCEPT ![d[2]] = @ + sent]
         /\ excused' = [excused EXCEPT ![d[2]] = @ + IF result = "sent" THEN 0 ELSE sent]
    /\ UNCHANGED <<feed, quietStart, sender, row, loop, alerts, lost>>

RecordReminder ==
    /\ minder.at = "recording"
    /\ row' = [row EXCEPT ![minder.item].reminder = minder.result]
    /\ minder' = IF due = {} THEN NoRound ELSE [NoRound EXCEPT !.at = "next"]
    /\ UNCHANGED <<feed, quietStart, sender, loop, due, history>>

(* A reminder that went out and that the table will not know of.           *)
Unrecorded == [i \in Items |->
    IF minder.at = "recording" /\ minder.item = i /\ minder.result = "sent"
    THEN excused[i] + 1 ELSE excused[i]]

ReminderFails ==
    /\ minder.at = "recording"
    /\ minder' = NoRound /\ due' = {}
    /\ excused' = Unrecorded
    /\ UNCHANGED <<feed, quietStart, sender, row, loop, alerts, reminders, lost>>

-----------------------------------------------------------------------------
(* A stop cancels every task where it is, a crash ends them.               *)
Crash ==
    /\ loop' = [l \in Loops |-> IdleLoop]
    /\ due' = {} /\ minder' = NoRound
    /\ lost' = lost \cup Held(Loops)
    /\ excused' = Unrecorded
    /\ UNCHANGED <<feed, quietStart, sender, row, alerts, reminders>>

(* The clock: items grow older than the age limit, events come nearer.     *)
Age ==
    /\ cutoff < Last
    /\ cutoff' = cutoff + 1
    /\ UNCHANGED <<now, others, quietStart, sender, row, loop, due, minder, history>>

Tick ==
    /\ now < MaxTime
    /\ now' = now + 1
    /\ UNCHANGED <<cutoff, others, quietStart, sender, row, loop, due, minder, history>>

Next ==
    \/ \E l \in Loops : \/ BeginPoll(l) \/ FetchPage(l) \/ StoreItem(l) \/ Enrich(l)
                        \/ SendAlert(l) \/ RecordAlert(l) \/ PollFails(l)
    \/ BeginRound \/ SendReminder \/ RecordReminder \/ ReminderFails
    \/ Crash \/ Age \/ Tick

Spec == Init /\ [][Next]_vars

-----------------------------------------------------------------------------
StoredRows == [alert : {"pending", "muted", "sent", "failed", "skipped"}, event : Events,
               reminder : {"not_applicable", "pending", "sent", "failed", "skipped"}]
Rows == {NoRow} \cup StoredRows
Notices == {n \in [event : Events, reminder : {"not_applicable", "pending"}] :
                n.reminder = "pending" => n.event # NoEvent}
Results == {"none", "sent", "failed", "skipped"}
LoopStates == [at : {"idle", "fetching", "storing", "enriching", "sending", "recording"},
               left : SUBSET Providers, boot : BOOLEAN,
               batch : SUBSET Items, pending : SUBSET Items, item : 0 .. Last, notice : Notices, result : Results]

(* Types; a loop that is working on an item works on a stored one, and a   *)
(* reminder is pending only with an event time to remind of.               *)
TypeOK ==
    /\ now \in 0 .. MaxTime /\ cutoff \in 0 .. Last
    /\ others \in BOOLEAN /\ quietStart \in BOOLEAN /\ sender \in BOOLEAN
    /\ row \in [Items -> Rows] /\ loop \in [Loops -> LoopStates]
    /\ due \subseteq (1 .. MaxTime) \X Dated
    /\ minder \in [at : {"idle", "next", "recording"}, item : {0} \cup Dated, result : Results]
    /\ alerts \in [Items -> Nat] /\ reminders \in [Items -> Nat]
    /\ excused \in [Items -> Nat] /\ lost \subseteq Items
    /\ \A l \in Loops : loop[l].at \in {"enriching", "sending", "recording"}
                        => loop[l].item \in Items /\ Stored(loop[l].item)
    /\ \A i \in Items : row[i].reminder = "pending" => row[i].event # NoEvent

(* However many loops find an announcement, and however often the process  *)
(* is restarted, its alert goes out at most once.                          *)
AlertOnce == \A i \in Items : alerts[i] <= 1

(* What the table says of an alert is so: sent and muted are true, and a   *)
(* row is pending only while a loop has it or after one was cut off.       *)
StatusHonest == \A i \in Items :
    /\ row[i].alert = "sent" => alerts[i] = 1
    /\ row[i].alert \in {"none", "muted", "skipped"} => alerts[i] = 0
    /\ row[i].alert = "pending" => i \in Held(Loops) \cup lost

(* A reminder goes out again only after one that went out could not be     *)
(* recorded as sent, whatever the polls write into the row meanwhile.      *)
ReminderOnce == \A i \in Items : reminders[i] <= 1 + excused[i]
=============================================================================
