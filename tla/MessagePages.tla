---------------------------- MODULE MessagePages ----------------------------
(***************************************************************************)
(* Reading the messages of a chat: a page of a day, earlier pages of it by *)
(* a cursor, the day before, or a window around a message, while the       *)
(* listener and back-fills store messages of any time.  Each statement is  *)
(* an action: between the pages, and between the two halves of a window,   *)
(* the table may change.                                                   *)
(*                                                                         *)
(* Abstractions: a message is its id in Telegram; what it says is left     *)
(* out, and the display filter is the set of messages it hides.            *)
(***************************************************************************)
EXTENDS Integers, FiniteSets

CONSTANTS
  Posts,         \* the messages, as their ids
  SentAt(_),     \* message_time
  LocalDay(_),   \* the day of a message in the time zone of the chat
  Filtered,      \* the messages the display filter hides
  CurrentDay,
  PageLimit,     \* the limit of a page
  Around         \* focusedMessageContext

ASSUME PagesAssumption ==
  /\ Posts \subseteq Nat \ {0} /\ IsFiniteSet(Posts)
  /\ CurrentDay \in Nat \ {0} /\ \A p \in Posts : SentAt(p) \in Nat /\ LocalDay(p) \in Nat \ {0}
  /\ \A p, q \in Posts : SentAt(p) <= SentAt(q) => LocalDay(p) <= LocalDay(q)
  /\ PageLimit \in Nat \ {0} /\ Around \in Nat

VARIABLES
  posts,   \* the messages table
  reading  \* what the page of the web interface knows, and how it came to it

pagesVars == <<posts, reading>>

NoCursor == 0
NoDate == 0
ReadSteps == {"closed", "page", "before", "after", "dates", "shown"}

\* (message_time, telegram_message_id) < (...)
Earlier(p, q) == SentAt(p) < SentAt(q) \/ (SentAt(p) = SentAt(q) /\ p < q)

\* chatMessageDisplayFilter
Visible(filters) == posts \ (IF filters THEN Filtered ELSE {})
OfDay(filters, day) == {p \in Visible(filters) : LocalDay(p) = day}

\* order by ... desc limit, and order by ... asc limit
Newest(set, limit) == {p \in set : Cardinality({q \in set : Earlier(p, q)}) < limit}
Oldest(set, limit) == {p \in set : Cardinality({q \in set : Earlier(q, p)}) < limit}
OldestOf(set) == CHOOSE p \in set : \A q \in set : p = q \/ Earlier(p, q)

PagesInit ==
  /\ posts = {}
  /\ reading = [step |-> "closed", filters |-> FALSE, day |-> NoDate, cursor |-> NoCursor,
                focus |-> 0, more |-> FALSE, previous |-> NoDate,
                shown |-> {}, again |-> {}, promised |-> {}]

\* Upsert of a message that is new, by the listener or a back-fill.
StorePost(p) == p \in Posts \ posts /\ posts' = posts \cup {p} /\ UNCHANGED reading

\* LatestDateAtOrBefore
LatestDate(filters) ==
  LET days == {LocalDay(p) : p \in {q \in Visible(filters) : LocalDay(q) <= CurrentDay}} IN
  IF days = {} THEN CurrentDay ELSE CHOOSE d \in days : \A e \in days : e <= d

\* handleChatMessages without a date.
OpenLatest(filters) ==
  /\ reading.step = "closed"
  /\ LET day == LatestDate(filters) IN
     reading' = [reading EXCEPT !.step = "page", !.filters = filters, !.day = day,
                   !.promised = {p \in Visible(filters) : LocalDay(p) <= day}]
  /\ UNCHANGED posts

\* ... with a message to focus on: getMessageInRange.
OpenAround(p, filters) ==
  /\ reading.step = "closed" /\ p \in Visible(filters)
  /\ reading' = [reading EXCEPT !.step = "before", !.filters = filters, !.day = LocalDay(p),
                   !.focus = p, !.promised = {q \in Visible(filters) : q = p \/ Earlier(q, p)}]
  /\ UNCHANGED posts

\* A response carries messages; those it repeats are remembered.
Show(r, page) == [r EXCEPT !.shown = @ \cup page, !.again = @ \cup (r.shown \cap page)]

\* Mutant: the cursor compares the time only.
BeforeByTime(p, cursor) == cursor = NoCursor \/ SentAt(p) < SentAt(cursor)

Before(p, cursor) == cursor = NoCursor \/ Earlier(p, cursor)

\* The cursor is the first message of the response, if there are more.
CursorOf(page, more) == IF more /\ page # {} THEN OldestOf(page) ELSE NoCursor

\* ListPageForRange: one message more than the limit tells whether there is more.
ListPage ==
  /\ reading.step = "page"
  /\ LET rows == Newest({p \in OfDay(reading.filters, reading.day) : Before(p, reading.cursor)}, PageLimit + 1)
         more == Cardinality(rows) > PageLimit
         page == Newest(rows, PageLimit) IN
     reading' = [Show(reading, page) EXCEPT !.step = "dates", !.more = more, !.cursor = CursorOf(page, more)]
  /\ UNCHANGED posts

\* listMessagesBeforeTarget: the message itself and as many before it.
WindowBefore ==
  /\ reading.step = "before"
  /\ LET target == reading.focus
         rows == Newest({p \in OfDay(reading.filters, reading.day) : p = target \/ Earlier(p, target)}, Around + 2)
         more == Cardinality(rows) > Around + 1
         page == Newest(rows, Around + 1) IN
     reading' = [Show(reading, page) EXCEPT !.step = "after", !.more = more, !.cursor = CursorOf(page, more)]
  /\ UNCHANGED posts

\* listMessagesAfterTarget
WindowAfter ==
  /\ reading.step = "after"
  /\ LET later == {p \in OfDay(reading.filters, reading.day) : Earlier(reading.focus, p)} IN
     reading' = [Show(reading, Oldest(later, Around)) EXCEPT !.step = "dates"]
  /\ UNCHANGED posts

\* AdjacentDates: the last day before this one that has messages.
AdjacentDates ==
  /\ reading.step = "dates"
  /\ LET days == {LocalDay(p) : p \in {q \in Visible(reading.filters) : LocalDay(q) < reading.day}} IN
     reading' = [reading EXCEPT !.step = "shown",
                   !.previous = IF days = {} THEN NoDate ELSE CHOOSE d \in days : \A e \in days : e <= d]
  /\ UNCHANGED posts

\* The reader asks for the page before, ...
LoadEarlier ==
  /\ reading.step = "shown" /\ reading.more
  /\ reading' = [reading EXCEPT !.step = "page"]
  /\ UNCHANGED posts

\* ... or, at the start of the day, for the day before.
PreviousDate ==
  /\ reading.step = "shown" /\ ~reading.more /\ reading.previous # NoDate
  /\ reading' = [reading EXCEPT !.step = "page", !.day = reading.previous, !.focus = 0]
  /\ UNCHANGED posts

PagesNext ==
  \/ \E p \in Posts, filters \in BOOLEAN : OpenAround(p, filters)
  \/ \E p \in Posts : StorePost(p)
  \/ \E filters \in BOOLEAN : OpenLatest(filters)
  \/ ListPage \/ WindowBefore \/ WindowAfter \/ AdjacentDates \/ LoadEarlier \/ PreviousDate

PagesSpec == PagesInit /\ [][PagesNext]_pagesVars
-----------------------------------------------------------------------------
PagesTypeOK ==
  /\ posts \subseteq Posts
  /\ reading \in [step : ReadSteps, filters : BOOLEAN, day : {NoDate, CurrentDay} \cup {LocalDay(p) : p \in Posts},
                  cursor : {NoCursor} \cup Posts, focus : {0} \cup Posts, more : BOOLEAN,
                  previous : {NoDate} \cup {LocalDay(p) : p \in Posts},
                  shown : SUBSET Posts, again : SUBSET Posts, promised : SUBSET Posts]

\* Whoever reads backwards, page by page and day by day, is shown every
\* message that was there when the chat was opened, and none twice, while
\* messages of the same second and of days gone by are being stored.
ShownOnce ==
  /\ reading.again = {}
  /\ (reading.step = "shown" /\ ~reading.more /\ reading.previous = NoDate) => reading.promised \subseteq reading.shown
=============================================================================
