----------------------------- MODULE EditPages -----------------------------
(***************************************************************************)
(* The client's pages about agents, sensors, alert topics and processes:   *)
(* the list of a kind (agents.tsx, sensors.tsx, alerts.tsx, processes.tsx) *)
(* with the drawer that creates items, and the page of one item with its   *)
(* form (agent-details.tsx, sensor-details.tsx, alert-details.tsx; that of *)
(* a process is LiveFlow).  The server is its rows.  The kinds share no    *)
(* state, so a behaviour follows one of them.                              *)
(***************************************************************************)
EXTENDS QueryCache

CONSTANTS Items, Texts, Conds

\* What the server keeps of an item.  A rule of an alert topic is its
\* condition; it may have none, and other kinds have no rules.
Unset == "unset"
NoRule == "no rule"
Content == [of : Items, text : Texts, rule : Conds \cup {Unset, NoRule}]
Row == [state : {"free", "live", "deleted"}, content : Content]

\* What the lists differ in: what their queries fetch, one request after the
\* other, and whether the drawer edits rules.  The drawer of anything but an
\* agent wants an agent, which it chooses among those fetched.
AgentList   == [gets |-> {"agent"}, rules |-> FALSE]
SensorList  == [gets |-> {"sensor", "agent"}, rules |-> FALSE]
AlertList   == [gets |-> {"alert", "agent", "sensor"}, rules |-> TRUE]
ProcessList == [gets |-> {"process", "agent"}, rules |-> FALSE]

List == [agent |-> AgentList, sensor |-> SensorList, alert |-> AlertList,
         process |-> ProcessList]

\* The same of the pages of an item; a process has its flow (LiveFlow).
AgentPage  == [gets |-> {"agent"}, rules |-> FALSE]
SensorPage == [gets |-> {"sensor"}, rules |-> FALSE]
AlertPage  == [gets |-> {"alert", "sensor"}, rules |-> TRUE]

Page == [agent |-> AgentPage, sensor |-> SensorPage, alert |-> AlertPage]

Kinds == DOMAIN List
Ops   == {"create", "update", "remove"}

VARIABLES
  kind,   \* the kind that the behaviour is about
  rows,   \* the server's rows
  page,   \* the item whose page is open, "list", or None
  one,    \* the query of the page of an item: ['oneAgent'] and its like
  all,    \* the query of the list: ['agents'] and its like
  form,   \* what the form of the page holds
  drawer, \* the list's drawer is open
  sent    \* the requests that change rows, until the client has the answer

vars == <<kind, rows, page, one, all, form, drawer, sent>>

\* A list is an answer: the rows that are live; of one item, its row if live.
Lists == [Items -> Content \cup {None}]
Listing == [i \in Items |-> IF rows[i].state = "live" THEN rows[i].content
                                                      ELSE None]
Answer(i) == [of |-> i, content |-> Listing[i]]
Answers == [of : Items, content : Content \cup {None}]

Sent == [op : Ops, id : Items, content : Content \cup {None},
         answer : {None, "ok", "refused"}]

\* None is none of what it stands for the absence of.
ASSUME NoneAssumption ==
  /\ None \notin Items \cup {"list", "all", "ok", "refused"}
  /\ "list" \notin Items
  /\ None \notin Content /\ None \notin Answers /\ None \notin Lists
  /\ None \notin [id : Items, got : Answers \cup {None}]
  /\ None \notin [id : {"all"}, got : Lists \cup {None}]

Blank(i) == [of |-> i, text |-> CHOOSE t \in Texts : TRUE, rule |-> NoRule]

Init ==
  /\ kind \in Kinds
  /\ rows \in [Items -> Row]
  /\ \A i \in Items :
       /\ rows[i].state # "deleted" /\ rows[i].content.of = i
       /\ rows[i].content.rule # Unset
       /\ kind # "alert" => rows[i].content.rule = NoRule
       /\ rows[i].state = "free" => rows[i].content = Blank(i)
  /\ page = None /\ one = NoQuery /\ all = NoQuery
  /\ form = None /\ drawer = FALSE /\ sent = {}

-----------------------------------------------------------------------------
(* What the pages show. *)

Found(q) == IF q.data = None THEN {} ELSE {i \in Items : q.data[i] # None}

\* A list shows that it loads, that it was given up, that there is nothing, or
\* its table.
Body(q) == IF Loading(q) THEN "loading"
           ELSE IF q.bad \/ q.data = None THEN "failed"
           ELSE IF Found(q) = {} THEN "empty" ELSE "rows"

\* The three cards, the body, and whether Refresh works.  Only a process is
\* counted by its status, for which its text stands.
AgentListShows(q) ==
  [total |-> Found(q), up |-> Found(q), down |-> {},
   body |-> Body(q), refresh |-> ~Fetching(q)]
SensorListShows(q) ==
  [total |-> Found(q), up |-> Found(q), down |-> {},
   body |-> Body(q), refresh |-> ~Fetching(q)]
AlertListShows(q) ==
  [total |-> Found(q), up |-> Found(q), down |-> {},
   body |-> Body(q), refresh |-> ~Fetching(q)]
ProcessListShows(q) ==
  [total |-> Found(q),
   up    |-> {i \in Found(q) : q.data[i].text # Blank(i).text},
   down  |-> {i \in Found(q) : q.data[i].text = Blank(i).text},
   body  |-> Body(q), refresh |-> ~Fetching(q)]

ListShows == CASE kind = "agent" -> AgentListShows(all)
               [] kind = "sensor" -> SensorListShows(all)
               [] kind = "alert" -> AlertListShows(all)
               [] kind = "process" -> ProcessListShows(all)

\* The page of an item shows its form, and the card with Remove: for an alert
\* topic, whose answer is a pair, even if the topic was not found.
AgentPageShows(q, f) ==
  [form |-> f, remove |-> q.data # None /\ q.data.content # None]
SensorPageShows(q, f) ==
  [form |-> f, remove |-> q.data # None /\ q.data.content # None]
AlertPageShows(q, f) == [form |-> f, remove |-> q.data # None]

PageShows == CASE kind = "agent" -> AgentPageShows(one, form)
               [] kind = "sensor" -> SensorPageShows(one, form)
               [] kind = "alert" -> AlertPageShows(one, form)

\* The form of a row.  The page of an alert topic leaves the condition out.
FormOf(c) == IF c.rule = NoRule THEN c ELSE [c EXCEPT !.rule = Unset]

\* The effect of a page: whenever the query's state or data has changed, the
\* form takes what is cached, and what was typed is gone.  An item that is
\* not found leaves the form as it is.
Shows(q, f) ==
  IF q.data = None THEN f
  ELSE IF q.data.content = None THEN f ELSE FormOf(q.data.content)

\* A request that is started anew is no change of state to the page.
RenderIf(changed, q) == form' = IF changed THEN Shows(q, form) ELSE form

-----------------------------------------------------------------------------
(* Moving between the pages.  What a page held is lost. *)

Blanked == form' = None /\ drawer' = FALSE

OpenList ==
  /\ page # "list"
  /\ page' = "list" /\ all' = Mounted(all, "all") /\ Blanked
  /\ UNCHANGED <<kind, rows, one, sent>>

OpenItem(i) ==
  /\ page = "list" /\ ListShows.body = "rows" /\ i \in ListShows.total
  /\ kind \in DOMAIN Page
  /\ page' = i /\ one' = Mounted(one, i)
  /\ form' = Shows(one, None) /\ drawer' = FALSE
  /\ UNCHANGED <<kind, rows, all, sent>>

Leave ==
  /\ page # None
  /\ page' = None /\ Blanked
  /\ UNCHANGED <<kind, rows, one, all, sent>>

Focus ==
  /\ page \in Items
  /\ one' = JoinedOr(one) /\ RenderIf(~Fetching(one), one)
  /\ UNCHANGED <<kind, rows, page, all, drawer, sent>>

\* Refresh, and Try Again.
Refresh ==
  /\ page = "list" /\ (ListShows.refresh \/ ListShows.body = "failed")
  /\ all' = Invalidated(all)
  /\ UNCHANGED <<kind, rows, page, one, form, drawer, sent>>

-----------------------------------------------------------------------------
(* The form and the drawer. *)

Type(t) ==
  /\ page \in Items /\ PageShows.form # None /\ form.text # t
  /\ form' = [form EXCEPT !.text = t]
  /\ UNCHANGED <<kind, rows, page, one, all, drawer, sent>>

\* The rules of an alert topic: Add Sensor and the bin.  On this page a rule
\* is offered no condition.
TypeRule ==
  /\ page \in Items /\ form # None /\ Page[kind].rules
  /\ form' = [form EXCEPT !.rule = IF @ = NoRule THEN Unset ELSE NoRule]
  /\ UNCHANGED <<kind, rows, page, one, all, drawer, sent>>

Send(op, i, c) ==
  sent' = sent \cup {[op |-> op, id |-> i, content |-> c, answer |-> None]}

\* Submitting sends what the form holds to the item of the page.
Save ==
  /\ page \in Items /\ form # None
  /\ Send("update", page, form)
  /\ UNCHANGED <<kind, rows, page, one, all, form, drawer>>

Remove ==
  /\ page \in Items /\ PageShows.remove
  /\ Send("remove", page, None)
  /\ UNCHANGED <<kind, rows, page, one, all, form, drawer>>

Drawer(open) ==
  /\ page = "list" /\ drawer # open /\ drawer' = open
  /\ UNCHANGED <<kind, rows, page, one, all, form, sent>>

\* A new rule shows a condition and has none until one is chosen.
Create(i, t, r) ==
  /\ page = "list" /\ drawer
  /\ kind # "agent" => all.data # None
  /\ kind = "process" => t = Blank(i).text
  /\ r # NoRule => List[kind].rules
  /\ rows[i].state = "free" /\ \A m \in sent : m.id # i
  /\ Send("create", i, [of |-> i, text |-> t, rule |-> r])
  /\ UNCHANGED <<kind, rows, page, one, all, form, drawer>>

-----------------------------------------------------------------------------
(* The server. *)

\* RuleDto wants a condition of every rule (alert-topic/dto).
Valid(c) == c.rule # Unset

\* A row that was deleted is written all the same, except a topic's, which is
\* looked for.
Accepted(m) ==
  CASE m.op = "create" -> Valid(m.content)
    [] m.op = "update" -> /\ Valid(m.content)
                          /\ kind = "alert" => rows[m.id].state = "live"
    [] m.op = "remove" -> TRUE

Applied(m) ==
  CASE m.op = "create" -> [state |-> "live", content |-> m.content]
    [] m.op = "update" -> [rows[m.id] EXCEPT !.content = m.content]
    [] m.op = "remove" -> [rows[m.id] EXCEPT !.state = "deleted"]

Serve(m) ==
  /\ m \in sent /\ m.answer = None
  /\ rows' = IF Accepted(m) THEN [rows EXCEPT ![m.id] = Applied(m)] ELSE rows
  /\ sent' = (sent \ {m}) \cup
       {[m EXCEPT !.answer = IF Accepted(m) THEN "ok" ELSE "refused"]}
  /\ UNCHANGED <<kind, page, one, all, form, drawer>>

\* Answers to the queries.
AnswerOne ==
  /\ Pending(one) /\ one' = Answered(one, Answer(one.get.id))
  /\ UNCHANGED <<kind, rows, page, all, form, drawer, sent>>

AnswerAll ==
  /\ Pending(all) /\ all' = Answered(all, Listing)
  /\ UNCHANGED <<kind, rows, page, one, form, drawer, sent>>

-----------------------------------------------------------------------------
(* What the client does with the answers. *)

ItemPage == page \in Items

\* Bug: a save leaves the cache as it is.
AskNever(q, shown) == q

\* invalidateQueries starts a request only for a page that is mounted.
AskAgain(q, shown) == IF shown THEN Invalidated(q) ELSE q

Refused(m) ==
  /\ m \in sent /\ m.answer = "refused" /\ sent' = sent \ {m}
  /\ UNCHANGED <<kind, rows, page, one, all, form, drawer>>

Updated(m) ==
  /\ m \in sent /\ m.answer = "ok" /\ m.op = "update" /\ sent' = sent \ {m}
  /\ one' = AskAgain(one, ItemPage)
  /\ RenderIf(ItemPage /\ ~Fetching(one), one)
  /\ UNCHANGED <<kind, rows, page, all, drawer>>

\* The item's own page is asked for once more, then the list is opened,
\* wherever the user is by now.
Removed(m) ==
  /\ m \in sent /\ m.answer = "ok" /\ m.op = "remove" /\ sent' = sent \ {m}
  /\ one' = AskAgain(one, ItemPage)
  /\ page' = "list"
  /\ IF page = "list" THEN UNCHANGED <<all, form, drawer>>
     ELSE all' = Mounted(all, "all") /\ Blanked
  /\ UNCHANGED <<kind, rows>>

Created(m) ==
  /\ m \in sent /\ m.answer = "ok" /\ m.op = "create" /\ sent' = sent \ {m}
  /\ all' = AskAgain(all, page = "list")
  /\ drawer' = FALSE
  /\ UNCHANGED <<kind, rows, page, one, form>>

OneArrived ==
  /\ Arrived(one) /\ one' = Settled(one)
  /\ RenderIf(ItemPage, one')
  /\ UNCHANGED <<kind, rows, page, all, drawer, sent>>

AllArrived ==
  /\ Arrived(all) /\ all' = Settled(all)
  /\ UNCHANGED <<kind, rows, page, one, form, drawer, sent>>

\* One of a query's requests fails: the query is tried again while its page is
\* open, or given up.
OneFails ==
  /\ Pending(one) \/ (Arrived(one) /\ Page[kind].gets # {kind})
  /\ \/ ItemPage /\ one' = Failed(one) /\ UNCHANGED form
     \/ one' = GivenUp(one) /\ RenderIf(ItemPage, one')
  /\ UNCHANGED <<kind, rows, page, all, drawer, sent>>

AllFails ==
  /\ Pending(all) \/ (Arrived(all) /\ List[kind].gets # {kind})
  /\ \/ page = "list" /\ all' = Failed(all)
     \/ all' = GivenUp(all)
  /\ UNCHANGED <<kind, rows, page, one, form, drawer, sent>>

Forget ==
  /\ \/ ~ItemPage /\ ~Fetching(one) /\ one' = Expired(one) /\ all' = all
     \/ page # "list" /\ ~Fetching(all) /\ all' = Expired(all) /\ one' = one
  /\ UNCHANGED <<kind, rows, page, form, drawer, sent>>

-----------------------------------------------------------------------------
User ==
  \/ OpenList \/ Leave \/ Focus \/ Refresh \/ TypeRule \/ Save \/ Remove
  \/ \E i \in Items : OpenItem(i)
  \/ \E t \in Texts : Type(t)
  \/ \E open \in BOOLEAN : Drawer(open)
  \/ \E i \in Items, t \in Texts, r \in Conds \cup {Unset, NoRule} :
       Create(i, t, r)

Answering == \/ \E m \in sent : Serve(m) \/ Refused(m) \/ Updated(m)
                              \/ Removed(m) \/ Created(m)
             \/ AnswerOne \/ AnswerAll \/ OneArrived \/ AllArrived

Next == User \/ Answering \/ OneFails \/ AllFails \/ Forget

Spec == Init /\ [][Next]_vars

\* Whatever was asked is answered, and answers are taken, those of one kind of
\* request not for those of another: strongly so for a query, which is tried
\* eleven times at most.
Fairness ==
  /\ WF_vars(\E m \in sent : Serve(m))
  /\ WF_vars(\E m \in sent : Refused(m))
  /\ WF_vars(\E m \in sent : Updated(m) \/ Removed(m))
  /\ WF_vars(\E m \in sent : Created(m))
  /\ WF_vars(AnswerOne) /\ WF_vars(AnswerAll)
  /\ SF_vars(OneArrived) /\ SF_vars(AllArrived)

\* An attentive user waits for the answer to what was sent, and for the page to
\* have loaded before using or leaving it; opens the next item only when
\* nothing is asked about the last one any more, and does not use the form of
\* a page that could not be loaded.  When to look at another window, to refresh
\* the list or to add to it nobody is told.
Attentive ==
  /\ page' # page => sent = {} /\ ~Fetching(one) /\ ~Fetching(all)
  /\ page \in Items => ~Fetching(one) /\ sent = {}
  /\ page \in Items /\ one.bad => page' # page
  /\ page = "list" /\ all.data = None => UNCHANGED sent

AttentiveNext ==
  \/ User /\ (Attentive \/ Focus)
  \/ Answering \/ OneFails \/ AllFails \/ Forget

AttentiveSpec == Init /\ [][AttentiveNext]_vars /\ Fairness

-----------------------------------------------------------------------------
TypeOK ==
  /\ kind \in Kinds
  /\ rows \in [Items -> Row]
  /\ page \in Items \cup {"list", None}
  /\ one \in Query(Items, Answers)
  /\ all \in Query({"all"}, Lists)
  /\ form \in Content \cup {None}
  /\ drawer \in BOOLEAN
  /\ sent \subseteq Sent

\* A page that has loaded shows the item it is about, although the pages of a
\* kind share one cached answer (queryKey ['oneAgent'] and its like).
ShowsItsPage ==
  (page \in Items /\ ~Fetching(one) /\ ~one.bad) => one.data.of = page

\* What is saved for an item was loaded from its own row: nothing is copied
\* from one item into another (the forms, their effects and the shared cache).
SavesItsOwn == \A i \in Items : rows[i].content.of = i

\* A list that has loaded is what the server has, also after a creation, a
\* change on another page or a removal (invalidateQueries, the mount).
ListIsFresh ==
  (page = "list" /\ ~Fetching(all) /\ ~all.bad /\ sent = {})
    => all.data = Listing

\* The page of an item shows the item's row in the end, whatever was saved on
\* it, unless the page is left or could not be loaded.
ItemIsShown ==
  \A i \in Items :
    page = i ~> (page # i \/ one.bad \/ one.data = Answer(i))

\* An open list shows the server's rows in the end, whatever was created from
\* its drawer and however often it was refreshed, asked again or failed
\* meanwhile, unless it is left or given up.
ListIsShown ==
  page = "list" ~> (page # "list" \/ all.bad \/ all.data = Listing)
=============================================================================
