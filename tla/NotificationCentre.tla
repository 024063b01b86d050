-------------------------- MODULE NotificationCentre --------------------------
(***************************************************************************)
(* The bell in the header (notification-bell.tsx) and the reading half of  *)
(* NotificationService: one person's notifications, and the number and the *)
(* list a page of theirs shows.                                            *)
(*                                                                         *)
(* The page's calls are answered in any order, and an answer replaces what *)
(* is shown whatever was asked after it.  Nothing of a page is persisted.  *)
(***************************************************************************)
EXTENDS Integers, FiniteSets

CONSTANTS
  Notices,      \* the notifications the person may get
  Calls,        \* bound: calls of the page that may be under way at once
  MaxClicks,    \* bound: clicks on an item or on "Mark all read"
  MaxFaults     \* bound: calls that fail

VARIABLES
  sent,         \* the person's rows of notifications
  readAt,       \* those of them with a readAt
  open,         \* the dropdown is open
  data,         \* the items it lists, with the readAt they came with
  unreadCount,  \* the number on the bell
  busy,         \* "Mark all read" is under way
  call,         \* the calls under way
  clicks, faults

vars == <<sent, readAt, open, data, unreadCount, busy, call, clicks, faults>>

Unread == sent \ readAt

\* A call: what was asked, about which notice, how far it is, and its answer.
Items == [listed : SUBSET Notices, read : SUBSET Notices]
NoItems == [listed |-> {}, read |-> {}]
Kind == {"none", "count", "list", "read", "readAll", "reload"}
Lists == {"list", "reload"}   \* loadList() on opening, and after "Mark all read"
Stage == {"none", "asked", "items", "counted", "answered", "failed"}
Free == [kind |-> "none", on |-> {}, stage |-> "none", items |-> NoItems, count |-> 0]
Asked(kind, on) == [Free EXCEPT !.kind = kind, !.on = on, !.stage = "asked"]

TypeOK ==
  /\ sent \subseteq Notices /\ readAt \subseteq sent
  /\ open \in BOOLEAN /\ busy \in BOOLEAN
  /\ data \in Items
  /\ unreadCount \in 0..Cardinality(Notices)
  /\ call \in [Calls -> [kind : Kind, on : SUBSET Notices, stage : Stage, items : Items,
                         count : 0..Cardinality(Notices)]]
  /\ clicks \in 0..MaxClicks /\ faults \in 0..MaxFaults

Init ==
  /\ sent = {} /\ readAt = {}
  /\ open = FALSE /\ data = NoItems /\ unreadCount = 0 /\ busy = FALSE
  /\ call = [c \in Calls |-> Free]
  /\ clicks = 0 /\ faults = 0

Ask(c, kind, on) == call[c] = Free /\ call' = [call EXCEPT ![c] = Asked(kind, on)]
-----------------------------------------------------------------------------
(* NotificationService *)

\* notify() has inserted a row for this person.
Notify(n) ==
  /\ n \notin sent
  /\ sent' = sent \union {n}
  /\ UNCHANGED <<readAt, open, data, unreadCount, busy, call, clicks, faults>>

Answer(c, with) == call' = [call EXCEPT ![c] = with]

\* Mutant of Counted: the count does not ask for readAt: null.
MutantCountedAll == Cardinality(sent)

Counted == Cardinality(Unread)

\* unreadCount(), and one half of list().
Count(c) ==
  /\ \/ call[c].kind = "count" /\ call[c].stage = "asked"
     \/ call[c].kind \in Lists /\ call[c].stage \in {"asked", "items"}
  /\ LET half == call[c].kind \in Lists /\ call[c].stage = "asked"
     IN  Answer(c, [call[c] EXCEPT !.stage = IF half THEN "counted" ELSE "answered",
                                   !.count = Counted])
  /\ UNCHANGED <<sent, readAt, open, data, unreadCount, busy, clicks, faults>>

\* The other half of list().  Its queries are not one transaction: the items and
\* the count may be of two moments, either first.
List(c) ==
  /\ call[c].kind \in Lists /\ call[c].stage \in {"asked", "counted"}
  /\ Answer(c, [call[c] EXCEPT !.stage = IF @ = "asked" THEN "items" ELSE "answered",
                               !.items = [listed |-> sent, read |-> readAt]])
  /\ UNCHANGED <<sent, readAt, open, data, unreadCount, busy, clicks, faults>>

\* markRead() and markAllRead(): only unread rows of the caller are written.
Mark(c) ==
  /\ call[c].kind \in {"read", "readAll"} /\ call[c].stage = "asked"
  /\ readAt' = readAt \union (IF call[c].kind = "read" THEN call[c].on ELSE sent)
  /\ Answer(c, [call[c] EXCEPT !.stage = "answered"])
  /\ UNCHANGED <<sent, open, data, unreadCount, busy, clicks, faults>>

\* The call, or its answer, is lost.
Lose(c) ==
  /\ call[c] # Free /\ call[c].stage # "failed" /\ faults < MaxFaults
  /\ Answer(c, [call[c] EXCEPT !.stage = "failed"])
  /\ faults' = faults + 1
  /\ UNCHANGED <<sent, readAt, open, data, unreadCount, busy, clicks>>
-----------------------------------------------------------------------------
(* The page *)

\* refreshCount(), on mount and every thirty seconds, answered or not.
Poll(c) ==
  /\ Ask(c, "count", {})
  /\ UNCHANGED <<sent, readAt, open, data, unreadCount, busy, clicks, faults>>

\* toggle(): opening the dropdown loads the list.
Toggle(c) ==
  /\ clicks < MaxClicks
  /\ open' = ~open
  /\ IF open THEN UNCHANGED call ELSE Ask(c, "list", {})
  /\ clicks' = clicks + 1
  /\ UNCHANGED <<sent, readAt, data, unreadCount, busy, faults>>

\* Mutant of OneLess: no floor under the number.
MutantOneLess == unreadCount - 1

\* The number is not below zero, however often a listed item is opened.
OneLess == IF unreadCount = 0 THEN 0 ELSE unreadCount - 1

\* openNotification(): the number goes down at once, the list keeps the item as
\* it came.  The link is followed whether or not the row could be marked.
OpenNotification(c, n) ==
  /\ open /\ clicks < MaxClicks
  /\ n \in data.listed
  /\ open' = FALSE
  /\ clicks' = clicks + 1
  /\ IF n \in data.read
     THEN UNCHANGED <<call, unreadCount>>
     ELSE Ask(c, "read", {n}) /\ unreadCount' = OneLess
  /\ UNCHANGED <<sent, readAt, data, busy, faults>>

MarkAllRead(c) ==
  /\ open /\ ~busy /\ clicks < MaxClicks
  /\ Ask(c, "readAll", {})
  /\ busy' = TRUE /\ clicks' = clicks + 1
  /\ UNCHANGED <<sent, readAt, open, data, unreadCount, faults>>

\* An answer: what follows it in refreshCount, loadList, openNotification and
\* markAllRead, which loads the list and then is no longer busy.
Receive(c) ==
  /\ call[c].stage = "answered"
  /\ CASE call[c].kind = "count" ->
            /\ unreadCount' = call[c].count
            /\ Answer(c, Free) /\ UNCHANGED <<data, busy>>
       [] call[c].kind \in Lists ->
            /\ unreadCount' = call[c].count /\ data' = call[c].items
            /\ busy' = (busy /\ call[c].kind = "list")
            /\ Answer(c, Free)
       [] call[c].kind = "read" ->
            Answer(c, Free) /\ UNCHANGED <<data, unreadCount, busy>>
       [] call[c].kind = "readAll" ->
            Answer(c, Asked("reload", {})) /\ UNCHANGED <<data, unreadCount, busy>>
  /\ UNCHANGED <<sent, readAt, open, clicks, faults>>

\* The catch blocks: a lost poll is left to the next one, a mark that was lost
\* is made good by asking for the number, and an error ends "Mark all read".
Catch(c) ==
  /\ call[c].stage = "failed"
  /\ Answer(c, IF call[c].kind = "read" THEN Asked("count", {}) ELSE Free)
  /\ busy' = (busy /\ call[c].kind \notin {"readAll", "reload"})
  /\ UNCHANGED <<sent, readAt, open, data, unreadCount, clicks, faults>>

Serve(c) == Count(c) \/ List(c) \/ Mark(c) \/ Receive(c) \/ Catch(c)

Next ==
  \/ \E n \in Notices : Notify(n)
  \/ \E c \in Calls :
       \/ Serve(c) \/ Lose(c) \/ Poll(c) \/ Toggle(c) \/ MarkAllRead(c)
       \/ \E n \in Notices : OpenNotification(c, n)

\* The timer polls for ever, and every call is answered or fails.
Fairness == \A c \in Calls : WF_vars(Poll(c)) /\ WF_vars(Serve(c))

Spec == Init /\ [][Next]_vars /\ Fairness
-----------------------------------------------------------------------------
\* However answers overtake each other, calls are lost and stale items are
\* opened twice: once nothing new arrives, the number on the bell becomes and
\* stays that of the unread notifications, and "Mark all read" is usable.
BellSettles == <>[](unreadCount = Cardinality(Unread) /\ ~busy)
=============================================================================
