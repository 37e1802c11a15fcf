-------------------------- MODULE EditPagesProofs --------------------------
(***************************************************************************)
(* Theorems about the client's pages (EditPages) in the hands of an        *)
(* attentive user: nothing of one item gets into another, a page that has  *)
(* loaded shows its own item, and a list that has loaded is the server's.  *)
(*                                                                         *)
(* What makes it hard is that the pages of a kind share one cached answer. *)
(* The answer, and a form filled from it, may be of another item (Foreign) *)
(* only until the page has loaded once; until then nothing was sent from   *)
(* it, so that the row is still live, the answer has content, and the form *)
(* is overwritten.                                                         *)
(***************************************************************************)
EXTENDS EditPages, TLAPS

OwnRows == \A i \in Items : /\ rows[i].content.of = i
                            /\ rows[i].content.rule # Unset

\* From the page of an item at most one request is under way, and it is about
\* the item; from a list only creations are.
OwnSent ==
  /\ \A m \in sent : m.op # "remove" => m.content # None /\ m.content.of = m.id
  /\ page = "list" => \A m \in sent : m.op = "create"
  /\ page # "list" => \A m \in sent : /\ m.op # "create" /\ m.id = page
                                      /\ \A n \in sent : n = m

\* An answer's content is of the item that was asked for.
OwnContent(a) == a.content # None => a.content.of = a.of

OwnQuery ==
  /\ one.data # None => OwnContent(one.data)
  /\ Arrived(one) => OwnContent(one.get.got)
  /\ page \in Items =>
       /\ kind \in DOMAIN Page
       /\ one.opt = page
       /\ Fetching(one) => one.get.id = page
       /\ Arrived(one) => one.get.got.of = page
       /\ ~Fetching(one) /\ ~one.bad => one.data # None

\* What the page has got from the page of another item.
Foreign == \/ one.data # None /\ one.data.of # page
           \/ form # None /\ form.of # page

ForeignOnlyAtFirst ==
  page \in Items /\ Foreign =>
    /\ Fetching(one) \/ one.bad
    /\ sent = {} /\ rows[page].state = "live"
    /\ Arrived(one) => one.get.got.content # None

Unseen == {m \in sent : m.answer = "ok"}

FreshList ==
  /\ page # "list" => ~Fetching(all)
  /\ page = "list" => /\ all.opt = "all"
                      /\ all.data = None => sent = {}
  /\ page = "list" /\ Unseen = {} =>
       /\ Arrived(all) => all.get.got = Listing
       /\ ~Fetching(all) /\ ~all.bad => all.data = Listing

PagesInv == /\ TypeOK /\ OwnRows /\ OwnSent /\ OwnQuery
            /\ ForeignOnlyAtFirst /\ FreshList

-----------------------------------------------------------------------------
(* A query, whatever it is about. *)

GetNotNone(Ids, As) == None \notin [id : Ids, got : As \cup {None}]

LEMMA AskedIs ==
  ASSUME NEW Ids, NEW As, NEW q \in Query(Ids, As), q.opt \in Ids
  PROVE  /\ Asked(q) \in Query(Ids, As)
         /\ Asked(q).get.id = q.opt
         /\ Asked(q).data = q.data /\ Asked(q).opt = q.opt
         /\ Asked(q).bad = (q.bad /\ q.data # None)
BY DEF Asked, Query

LEMMA AskedFetches ==
  ASSUME NEW Ids, NEW As, NEW q \in Query(Ids, As), q.opt \in Ids,
         GetNotNone(Ids, As)
  PROVE  Fetching(Asked(q)) /\ ~Arrived(Asked(q))
<1>1. [id |-> q.opt, got |-> None] \in [id : Ids, got : As \cup {None}]
  OBVIOUS
<1>2. [id |-> q.opt, got |-> None] # None
  BY <1>1 DEF GetNotNone
<1>3. Asked(q).get = [id |-> q.opt, got |-> None]
  BY DEF Asked, Query
<1>4. [id |-> q.opt, got |-> None].got = None
  OBVIOUS
<1> QED BY <1>2, <1>3, <1>4 DEF Fetching, Arrived

LEMMA SettledIs ==
  ASSUME NEW Ids, NEW As, NEW q \in Query(Ids, As), Arrived(q),
         GetNotNone(Ids, As)
  PROVE  /\ Settled(q) \in Query(Ids, As) /\ ~Fetching(Settled(q))
         /\ Settled(q).data = q.get.got /\ Settled(q).data \in As
         /\ Settled(q).opt = q.opt /\ ~Settled(q).bad
BY DEF Settled, Arrived, Fetching, Query, GetNotNone

LEMMA AnsweredIs ==
  ASSUME NEW Ids, NEW As, NEW q \in Query(Ids, As), NEW a \in As, Pending(q),
         GetNotNone(Ids, As)
  PROVE  /\ Answered(q, a) \in Query(Ids, As) /\ Fetching(Answered(q, a))
         /\ Answered(q, a).get.got = a /\ Answered(q, a).get.id = q.get.id
         /\ Answered(q, a).data = q.data /\ Answered(q, a).opt = q.opt
         /\ Answered(q, a).bad = q.bad
<1>1. q.get \in [id : Ids, got : As \cup {None}]
  BY DEF Pending, Fetching, Query
<1>2. [q.get EXCEPT !.got = a] \in [id : Ids, got : As \cup {None}]
  BY <1>1
<1>3. Answered(q, a).get = [q.get EXCEPT !.got = a]
  BY DEF Answered, Query
<1>4. [q.get EXCEPT !.got = a] # None
  BY <1>2 DEF GetNotNone
<1> QED BY <1>1, <1>2, <1>3, <1>4 DEF Answered, Query, Fetching

LEMMA GivenUpIs ==
  ASSUME NEW Ids, NEW As, NEW q \in Query(Ids, As)
  PROVE  /\ GivenUp(q) \in Query(Ids, As) /\ ~Fetching(GivenUp(q))
         /\ GivenUp(q).bad /\ GivenUp(q).data = q.data
         /\ GivenUp(q).opt = q.opt
BY DEF GivenUp, Query, Fetching

LEMMA ExpiredIs ==
  ASSUME NEW Ids, NEW As, NEW q \in Query(Ids, As)
  PROVE  /\ Expired(q) \in Query(Ids, As) /\ Expired(q).get = q.get
         /\ Expired(q).opt = q.opt
BY DEF Expired, Query

\* An item's page is mounted, or a list.
LEMMA MountedIs ==
  ASSUME NEW Ids, NEW As, NEW q \in Query(Ids, As), NEW i \in Ids,
         ~Fetching(q), GetNotNone(Ids, As)
  PROVE  /\ Mounted(q, i) \in Query(Ids, As) /\ Fetching(Mounted(q, i))
         /\ ~Arrived(Mounted(q, i)) /\ Mounted(q, i).get.id = i
         /\ Mounted(q, i).opt = i /\ Mounted(q, i).data = q.data
<1> DEFINE r == [q EXCEPT !.opt = i]
<1>1. r \in Query(Ids, As) /\ r.opt = i /\ r.get = q.get /\ r.data = q.data
  BY DEF Query
<1>2. Mounted(q, i) = Asked(r)
  BY <1>1 DEF Mounted, JoinedOr, Fetching
<1>3. Fetching(Asked(r)) /\ ~Arrived(Asked(r))
  BY <1>1, AskedFetches
<1> HIDE DEF r
<1>4. /\ Asked(r) \in Query(Ids, As) /\ Asked(r).get.id = r.opt
      /\ Asked(r).opt = r.opt /\ Asked(r).data = r.data
  BY <1>1, AskedIs
<1> QED BY <1>1, <1>2, <1>3, <1>4

-----------------------------------------------------------------------------
(* What an invariant step keeps, by what it leaves alone. *)

LEMMA Types ==
  /\ GetNotNone(Items, Answers) /\ GetNotNone({"all"}, Lists)
  /\ None \notin Content /\ None \notin Items /\ None # "list"
  /\ "list" \notin Items /\ None \notin {"ok", "refused"}
BY NoneAssumption DEF GetNotNone

\* Only the form and the drawer change; a form that is there keeps its item.
LEMMA FormStep ==
  ASSUME PagesInv, UNCHANGED <<kind, rows, page, one, all, sent>>,
         form' \in Content \cup {None}, drawer' \in BOOLEAN,
         form' # None => form # None /\ form'.of = form.of
  PROVE  PagesInv'
<1>1. TypeOK'
  BY DEF PagesInv, TypeOK
<1>2. OwnRows' /\ OwnSent' /\ OwnQuery'
  BY DEF PagesInv, OwnRows, OwnSent, OwnQuery, OwnContent
<1>3. ForeignOnlyAtFirst'
  BY DEF PagesInv, ForeignOnlyAtFirst, Foreign
<1>4. FreshList'
  BY DEF PagesInv, FreshList, Unseen, Listing
<1> QED BY <1>1, <1>2, <1>3, <1>4 DEF PagesInv

\* On the page of an item, its query and its form change, and an answer may
\* have been taken.
LEMMA PageStep ==
  ASSUME PagesInv, UNCHANGED <<kind, rows, page, all, drawer>>,
         page \in Items, sent' \subseteq sent,
         one' \in Query(Items, Answers), form' \in Content \cup {None},
         one'.opt = page,
         Fetching(one)' => one'.get.id = page,
         Arrived(one)' => one'.get.got.of = page /\ OwnContent(one'.get.got),
         one'.data # None => OwnContent(one'.data),
         ~Fetching(one)' /\ ~one'.bad => one'.data # None,
         ForeignOnlyAtFirst'
  PROVE  PagesInv'
<1>1. TypeOK'
  BY DEF PagesInv, TypeOK
<1>2. OwnRows' /\ OwnSent' /\ OwnQuery'
  BY DEF PagesInv, OwnRows, OwnSent, OwnQuery, OwnContent
<1>3. FreshList'
  BY Types DEF PagesInv, FreshList
<1> QED BY <1>1, <1>2, <1>3 DEF PagesInv

\* On a list, its query changes.
LEMMA ListStep ==
  ASSUME PagesInv, UNCHANGED <<kind, rows, page, one, form, drawer, sent>>,
         all' \in Query({"all"}, Lists), FreshList'
  PROVE  PagesInv'
<1>1. TypeOK'
  BY DEF PagesInv, TypeOK
<1>2. OwnRows' /\ OwnSent' /\ OwnQuery'
  BY DEF PagesInv, OwnRows, OwnSent, OwnQuery, OwnContent
<1>3. ForeignOnlyAtFirst'
  BY DEF PagesInv, ForeignOnlyAtFirst, Foreign
<1> QED BY <1>1, <1>2, <1>3 DEF PagesInv

LEMMA ListingTyped ==
  ASSUME TypeOK
  PROVE  /\ Listing \in Lists
         /\ \A i \in Items : /\ Answer(i) \in Answers /\ Answer(i).of = i
                             /\ OwnRows => OwnContent(Answer(i))
                             /\ rows[i].state = "live" =>
                                  Answer(i).content # None
                             /\ Listing[i] # None => rows[i].state = "live"
BY Types DEF TypeOK, Row, Listing, Lists, Answer, Answers, OwnRows, OwnContent

\* The form that a page fills from an answer.
LEMMA ShowsTyped ==
  ASSUME NEW q \in Query(Items, Answers), NEW f \in Content \cup {None}
  PROVE  /\ Shows(q, f) \in Content \cup {None}
         /\ q.data # None /\ q.data.content = None => Shows(q, f) = f
         /\ q.data = None => Shows(q, f) = f
         /\ q.data # None /\ q.data.content # None =>
              Shows(q, f) # None /\ Shows(q, f).of = q.data.content.of
BY Types DEF Shows, FormOf, Query, Answers, Content

\* While no page of an item is open, the query that they share changes.
LEMMA OffPage ==
  ASSUME PagesInv, UNCHANGED <<kind, rows, page, all, form, drawer, sent>>,
         page \notin Items, one' \in Query(Items, Answers),
         Arrived(one)' => OwnContent(one'.get.got),
         one'.data # None => OwnContent(one'.data)
  PROVE  PagesInv'
<1>1. TypeOK'
  BY DEF PagesInv, TypeOK
<1>2. OwnRows' /\ OwnSent' /\ OwnQuery' /\ ForeignOnlyAtFirst'
  BY DEF PagesInv, OwnRows, OwnSent, OwnQuery, OwnContent, ForeignOnlyAtFirst
<1>3. FreshList'
  BY DEF PagesInv, FreshList, Unseen, Listing
<1> QED BY <1>1, <1>2, <1>3 DEF PagesInv

\* The page of an item asks again, or not, and its form takes what is cached,
\* or not.
LEMMA PageAsks ==
  ASSUME PagesInv, UNCHANGED <<kind, rows, page, all, drawer>>,
         page \in Items, sent' \subseteq sent,
         one' = one \/ one' = Asked(one),
         form' = form \/ form' = Shows(one, form)
  PROVE  PagesInv'
<1>1. one \in Query(Items, Answers) /\ form \in Content \cup {None}
      /\ one.opt = page
  BY DEF PagesInv, TypeOK, OwnQuery
<1>2. /\ one' \in Query(Items, Answers) /\ one'.opt = page
      /\ one'.data = one.data
      /\ one' = Asked(one) => Fetching(one') /\ ~Arrived(one')
                              /\ one'.get.id = page
  BY <1>1, AskedIs, AskedFetches, Types
<1>3. /\ form' \in Content \cup {None}
      /\ form' # None => \/ form # None /\ form'.of = form.of
                         \/ one.data # None /\ form'.of = one.data.of
  BY <1>1, ShowsTyped DEF PagesInv, OwnQuery, OwnContent
<1>4. ForeignOnlyAtFirst'
  <2> SUFFICES ASSUME Foreign'
               PROVE  /\ Fetching(one') \/ one'.bad
                      /\ sent' = {} /\ rows[page].state = "live"
                      /\ Arrived(one') => one'.get.got.content # None
    BY DEF ForeignOnlyAtFirst, Fetching, Arrived
  <2>1. Foreign
    BY <1>2, <1>3 DEF Foreign
  <2>2. /\ Fetching(one) \/ one.bad
        /\ sent = {} /\ rows[page].state = "live"
        /\ Arrived(one) => one.get.got.content # None
    BY <2>1 DEF PagesInv, ForeignOnlyAtFirst
  <2> QED BY <1>2, <2>2
<1>5. /\ Fetching(one)' => one'.get.id = page
      /\ Arrived(one)' => one'.get.got.of = page /\ OwnContent(one'.get.got)
      /\ one'.data # None => OwnContent(one'.data)
      /\ ~Fetching(one)' /\ ~one'.bad => one'.data # None
  BY <1>2 DEF PagesInv, OwnQuery, Fetching, Arrived
<1> QED BY <1>1, <1>2, <1>3, <1>4, <1>5, PageStep

\* A list is asked for anew.
LEMMA ListAsks ==
  ASSUME PagesInv, UNCHANGED <<kind, rows, page, one, form>>,
         page = "list", sent' \subseteq sent, drawer' \in BOOLEAN,
         all' = Asked(all)
  PROVE  PagesInv'
<1>1. /\ all' \in Query({"all"}, Lists) /\ Fetching(all') /\ ~Arrived(all')
      /\ all'.opt = "all" /\ all'.data = all.data
  BY AskedIs, AskedFetches, Types DEF PagesInv, TypeOK, FreshList
<1>2. TypeOK'
  BY <1>1 DEF PagesInv, TypeOK
<1>3. OwnRows' /\ OwnSent' /\ OwnQuery'
  BY DEF PagesInv, OwnRows, OwnSent, OwnQuery, OwnContent
<1>4. ForeignOnlyAtFirst'
  BY Types DEF PagesInv, ForeignOnlyAtFirst
<1>5. FreshList'
  BY <1>1 DEF PagesInv, FreshList, Fetching, Arrived
<1> QED BY <1>2, <1>3, <1>4, <1>5 DEF PagesInv

\* The list is opened, from elsewhere.
LEMMA ToList ==
  ASSUME PagesInv, UNCHANGED <<kind, rows>>,
         page # "list", page' = "list", sent' = {}, Blanked,
         one' = one \/ (one' = Asked(one) /\ one.opt \in Items),
         all' = Mounted(all, "all")
  PROVE  PagesInv'
<1>1. /\ all' \in Query({"all"}, Lists) /\ Fetching(all') /\ ~Arrived(all')
      /\ all'.opt = "all"
  BY MountedIs, Types DEF PagesInv, TypeOK, FreshList
<1>2. one' \in Query(Items, Answers) /\ one'.data = one.data
      /\ (Arrived(one') => one' = one)
  BY AskedIs, AskedFetches, Types DEF PagesInv, TypeOK
<1>3. TypeOK'
  BY <1>1, <1>2 DEF PagesInv, TypeOK, Blanked
<1>4. OwnRows' /\ OwnSent'
  BY DEF PagesInv, OwnRows, OwnSent
<1>5. OwnQuery' /\ ForeignOnlyAtFirst'
  BY <1>2, Types DEF PagesInv, OwnQuery, OwnContent, ForeignOnlyAtFirst, Arrived
<1>6. FreshList'
  BY <1>1 DEF PagesInv, FreshList, Fetching, Arrived
<1> QED BY <1>3, <1>4, <1>5, <1>6 DEF PagesInv

-----------------------------------------------------------------------------
(* The user's steps. *)

LEMMA InitPages == Init => PagesInv
<1> SUFFICES ASSUME Init PROVE PagesInv
  OBVIOUS
<1>1. TypeOK
  BY DEF Init, TypeOK, NoQuery, Query
<1>2. OwnRows /\ OwnSent
  BY Types DEF Init, OwnRows, OwnSent
<1>3. OwnQuery /\ ForeignOnlyAtFirst /\ FreshList
  BY Types DEF Init, NoQuery, OwnQuery, ForeignOnlyAtFirst, FreshList,
               Fetching, Arrived
<1> QED BY <1>1, <1>2, <1>3 DEF PagesInv

LEMMA OpenListStep ==
  ASSUME PagesInv, OpenList, Attentive
  PROVE  PagesInv'
<1>1. /\ UNCHANGED <<kind, rows>> /\ Blanked
      /\ page # "list" /\ page' = "list" /\ all' = Mounted(all, "all")
  BY DEF OpenList
<1>2. sent = {} /\ one' = one /\ sent' = sent
  <2>1. page' # page => sent = {}
    BY DEF Attentive
  <2>2. page' # page /\ one' = one /\ sent' = sent
    BY DEF OpenList
  <2> QED BY <2>1, <2>2
<1>3. one' = one \/ (one' = Asked(one) /\ one.opt \in Items)
  BY <1>2
<1>4. sent' = {}
  BY <1>2
<1> QED BY <1>1, <1>3, <1>4, ToList

\* Only an item that the server has can be opened: the list is fresh.
LEMMA OpenItemStep ==
  ASSUME PagesInv, NEW i \in Items, OpenItem(i), Attentive
  PROVE  PagesInv'
<1>1. page = "list" /\ sent = {} /\ ~Fetching(one) /\ ~Fetching(all)
  BY Types DEF OpenItem, Attentive
<1>2. ~all.bad /\ i \in Found(all) /\ all.data # None
  BY DEF OpenItem, ListShows, AgentListShows, SensorListShows, AlertListShows,
         ProcessListShows, Body, Found, PagesInv, TypeOK, Kinds, List
<1>3. rows[i].state = "live"
  <2>1. all.data = Listing
    BY <1>1, <1>2 DEF PagesInv, FreshList, Unseen
  <2> QED BY <1>2, <2>1, ListingTyped DEF Found, PagesInv
<1>4. /\ one' \in Query(Items, Answers) /\ Fetching(one') /\ ~Arrived(one')
      /\ one'.get.id = i /\ one'.opt = i /\ one'.data = one.data
  BY <1>1, MountedIs, Types DEF OpenItem, PagesInv, TypeOK
<1>5. form' \in Content \cup {None}
  BY ShowsTyped DEF OpenItem, PagesInv, TypeOK
<1>6. TypeOK'
  BY <1>4, <1>5 DEF OpenItem, PagesInv, TypeOK
<1>7. OwnRows' /\ OwnSent'
  BY <1>1 DEF OpenItem, PagesInv, OwnRows, OwnSent
<1>8. OwnQuery'
  BY <1>4 DEF OpenItem, PagesInv, OwnQuery, OwnContent, Fetching, Arrived
<1>9. ForeignOnlyAtFirst'
  BY <1>1, <1>3, <1>4 DEF OpenItem, ForeignOnlyAtFirst, Fetching, Arrived
<1>10. FreshList'
  BY <1>1, Types DEF OpenItem, FreshList, Fetching
<1> QED BY <1>6, <1>7, <1>8, <1>9, <1>10 DEF PagesInv

LEMMA LeaveStep ==
  ASSUME PagesInv, Leave, Attentive
  PROVE  PagesInv'
<1>1. /\ sent = {} /\ ~Fetching(all) /\ page' = None
      /\ UNCHANGED <<kind, rows, one, all, sent>> /\ Blanked
  BY DEF Leave, Attentive
<1>2. TypeOK'
  BY <1>1 DEF PagesInv, TypeOK, Blanked
<1>3. OwnRows' /\ OwnSent' /\ OwnQuery'
  BY <1>1, Types DEF PagesInv, OwnRows, OwnSent, OwnQuery, OwnContent
<1>4. ForeignOnlyAtFirst' /\ FreshList'
  BY <1>1, Types DEF ForeignOnlyAtFirst, FreshList, Fetching
<1> QED BY <1>2, <1>3, <1>4 DEF PagesInv

LEMMA FocusStep ==
  ASSUME PagesInv, Focus
  PROVE  PagesInv'
BY PageAsks DEF Focus, JoinedOr, RenderIf

LEMMA RefreshStep ==
  ASSUME PagesInv, Refresh
  PROVE  PagesInv'
<1>1. CASE Loading(all)
  <2>1. UNCHANGED vars
    BY <1>1 DEF Refresh, Invalidated, vars
  <2>2. UNCHANGED <<kind, rows, page, one, all, sent, form, drawer>>
    BY <2>1 DEF vars
  <2> QED BY <2>2, FormStep DEF PagesInv, TypeOK
<1>2. CASE ~Loading(all)
  BY <1>2, ListAsks DEF Refresh, Invalidated, PagesInv, TypeOK
<1> QED BY <1>1, <1>2

\* A page that is used has loaded, and holds what is its own.
LEMMA UsedIsOwn ==
  ASSUME PagesInv, Attentive, page' = page, page \in Items
  PROVE  /\ sent = {} /\ ~Fetching(one) /\ ~one.bad
         /\ form # None => form \in Content /\ form.of = page
         /\ ~Foreign /\ kind \in DOMAIN Page
BY DEF Attentive, PagesInv, ForeignOnlyAtFirst, Foreign, OwnQuery, TypeOK

LEMMA TypeStep ==
  ASSUME PagesInv, NEW t \in Texts, Type(t), Attentive
  PROVE  PagesInv'
<1>1. form # None
  BY UsedIsOwn DEF Type, PageShows, AgentPageShows, SensorPageShows,
                   AlertPageShows, Page
<1>2. form' \in Content /\ form'.of = form.of
  BY <1>1, UsedIsOwn DEF Type, Content
<1> QED BY <1>1, <1>2, FormStep DEF Type, PagesInv, TypeOK

LEMMA TypeRuleStep ==
  ASSUME PagesInv, TypeRule, Attentive
  PROVE  PagesInv'
<1>1. form # None
  BY DEF TypeRule
<1>2. form' \in Content /\ form'.of = form.of
  BY <1>1, UsedIsOwn DEF TypeRule, Content
<1> QED BY <1>1, <1>2, FormStep DEF TypeRule, PagesInv, TypeOK

LEMMA DrawerStep ==
  ASSUME PagesInv, NEW open \in BOOLEAN, Drawer(open)
  PROVE  PagesInv'
BY FormStep DEF Drawer, PagesInv, TypeOK

\* A request about the item of the page is sent.
LEMMA SendStep ==
  ASSUME PagesInv, Attentive, page \in Items,
         UNCHANGED <<kind, rows, page, one, all, form, drawer>>,
         NEW op \in {"update", "remove"}, NEW c \in Content \cup {None},
         op = "update" => c # None /\ c.of = page,
         Send(op, page, c)
  PROVE  PagesInv'
<1> DEFINE m == [op |-> op, id |-> page, content |-> c, answer |-> None]
<1>1. sent' = {m} /\ m \in Sent
  BY UsedIsOwn DEF Send, Sent, Ops
<1>2. TypeOK'
  BY <1>1 DEF PagesInv, TypeOK
<1>3. OwnRows' /\ OwnQuery'
  BY DEF PagesInv, OwnRows, OwnQuery, OwnContent
<1>4. OwnSent'
  BY <1>1, Types DEF OwnSent
<1>5. ~Foreign'
  BY UsedIsOwn DEF Foreign
<1>6. ForeignOnlyAtFirst' /\ FreshList'
  BY <1>5, Types DEF ForeignOnlyAtFirst, PagesInv, FreshList
<1> QED BY <1>2, <1>3, <1>4, <1>6 DEF PagesInv

LEMMA SaveStep ==
  ASSUME PagesInv, Save, Attentive
  PROVE  PagesInv'
BY SendStep, UsedIsOwn DEF Save

LEMMA RemoveStep ==
  ASSUME PagesInv, Remove, Attentive
  PROVE  PagesInv'
BY SendStep DEF Remove

LEMMA CreateStep ==
  ASSUME PagesInv, Attentive, NEW i \in Items, NEW t \in Texts,
         NEW r \in Conds \cup {Unset, NoRule}, Create(i, t, r)
  PROVE  PagesInv'
<1> DEFINE c == [of |-> i, text |-> t, rule |-> r]
           m == [op |-> "create", id |-> i, content |-> c, answer |-> None]
<1>1. /\ sent' = sent \cup {m} /\ m \in Sent /\ m \notin sent
      /\ c \in Content /\ c # None /\ page = "list"
  BY Types DEF Create, Send, Sent, Ops, Content
<1>2. UNCHANGED <<kind, rows, page, one, all, form, drawer>>
  BY DEF Create
<1>3. all.data # None
  BY <1>1 DEF Attentive
<1>4. TypeOK'
  BY <1>1, <1>2 DEF PagesInv, TypeOK
<1>5. OwnRows' /\ OwnQuery'
  BY <1>2 DEF PagesInv, OwnRows, OwnQuery, OwnContent
<1>6. OwnSent'
  BY <1>1, <1>2 DEF PagesInv, OwnSent
<1>7. ForeignOnlyAtFirst'
  BY <1>1, <1>2, Types DEF ForeignOnlyAtFirst
<1>8. FreshList'
  <2>1. Unseen' = Unseen
    BY <1>1, Types DEF Unseen
  <2> QED BY <1>1, <1>2, <1>3, <2>1 DEF PagesInv, FreshList, Listing
<1> QED BY <1>4, <1>5, <1>6, <1>7, <1>8 DEF PagesInv

-----------------------------------------------------------------------------
(* The server's steps, and the answers. *)

LEMMA ServeStep ==
  ASSUME PagesInv, NEW m \in sent, Serve(m)
  PROVE  PagesInv'
<1> DEFINE r == [m EXCEPT !.answer = IF Accepted(m) THEN "ok" ELSE "refused"]
<1>1. /\ m \in Sent /\ m.answer = None /\ m.id \in Items
      /\ sent' = (sent \ {m}) \cup {r}
      /\ UNCHANGED <<kind, page, one, all, form, drawer>>
  BY DEF Serve, PagesInv, TypeOK, Sent
<1>2. /\ r \in Sent /\ r.op = m.op /\ r.id = m.id /\ r.content = m.content
      /\ r.answer = IF Accepted(m) THEN "ok" ELSE "refused"
  BY <1>1 DEF Sent
<1>3. m.op # "remove" => m.content \in Content /\ m.content.of = m.id
  BY <1>1 DEF PagesInv, OwnSent, Sent
<1>4. rows' \in [Items -> Row] /\ OwnRows'
  <2>1. CASE ~Accepted(m)
    BY <2>1 DEF Serve, PagesInv, TypeOK, OwnRows
  <2>2. CASE Accepted(m)
    <3>1. rows' = [rows EXCEPT ![m.id] = Applied(m)]
      BY <2>2 DEF Serve
    <3>2. m.op \in {"create", "update", "remove"}
      BY <1>1 DEF Sent, Ops
    <3>3. /\ Applied(m) \in Row /\ Applied(m).content.of = m.id
          /\ Applied(m).content.rule # Unset
      <4>1. CASE m.op = "create"
        BY <1>3, <2>2, <4>1 DEF Applied, Accepted, Valid, Row
      <4>2. CASE m.op = "update"
        BY <1>1, <1>3, <2>2, <4>2
           DEF Applied, Accepted, Valid, Row, PagesInv, TypeOK
      <4>3. CASE m.op = "remove"
        BY <1>1, <4>3 DEF Applied, Row, PagesInv, TypeOK, OwnRows
      <4> QED BY <3>2, <4>1, <4>2, <4>3
    <3> QED BY <1>1, <3>1, <3>3 DEF PagesInv, TypeOK, OwnRows
  <2> QED BY <2>1, <2>2
<1>5. TypeOK'
  BY <1>1, <1>2, <1>4 DEF PagesInv, TypeOK
<1>6. OwnSent'
  BY ZenonT(60), <1>1, <1>2 DEF PagesInv, OwnSent
<1>7. OwnQuery'
  BY <1>1 DEF PagesInv, OwnQuery, OwnContent
<1>8. ForeignOnlyAtFirst'
  BY <1>1 DEF PagesInv, ForeignOnlyAtFirst, Foreign
<1>9. FreshList'
  <2>1. Accepted(m) => Unseen' # {}
    <3>1. Accepted(m) => r \in sent' /\ r.answer = "ok"
      BY <1>1, <1>2
    <3> HIDE DEF r
    <3> QED BY <3>1 DEF Unseen
  <2>2. ~Accepted(m) => Unseen' = Unseen /\ rows' = rows
    <3>1. ASSUME ~Accepted(m) PROVE r.answer = "refused" /\ rows' = rows
      BY <1>2, <3>1 DEF Serve
    <3> HIDE DEF r
    <3>2. ASSUME ~Accepted(m) PROVE Unseen' = Unseen
      <4>1. \A n : n \in Unseen' <=> n \in Unseen
        BY <1>1, <3>1, <3>2, Types DEF Unseen
      <4> QED BY <4>1
    <3> QED BY <3>1, <3>2
  <2>3. /\ page # "list" => ~Fetching(all)
        /\ page = "list" => all.opt = "all" /\ all.data # None
    BY DEF PagesInv, FreshList
  <2>4. ASSUME page = "list", Unseen' = {}
        PROVE  /\ Arrived(all) => all.get.got = Listing'
               /\ ~Fetching(all) /\ ~all.bad => all.data = Listing'
    <3>1. Unseen = {} /\ rows' = rows
      BY <2>1, <2>2, <2>4
    <3>2. Listing' = Listing
      BY <3>1 DEF Listing
    <3> QED BY <2>4, <3>1, <3>2 DEF PagesInv, FreshList
  <2> QED BY <1>1, <2>3, <2>4 DEF FreshList, Fetching, Arrived
<1> QED BY <1>4, <1>5, <1>6, <1>7, <1>8, <1>9 DEF PagesInv

LEMMA RefusedStep ==
  ASSUME PagesInv, NEW m \in sent, Refused(m)
  PROVE  PagesInv'
<1>1. /\ sent' \subseteq sent /\ Unseen' = Unseen
      /\ UNCHANGED <<kind, rows, page, one, all, form, drawer>>
  BY DEF Refused, Unseen
<1>2. TypeOK'
  BY <1>1 DEF PagesInv, TypeOK
<1>3. OwnRows' /\ OwnSent' /\ OwnQuery'
  BY <1>1 DEF PagesInv, OwnRows, OwnSent, OwnQuery, OwnContent
<1>4. ForeignOnlyAtFirst' /\ FreshList'
  BY <1>1 DEF PagesInv, ForeignOnlyAtFirst, Foreign, FreshList, Listing
<1> QED BY <1>2, <1>3, <1>4 DEF PagesInv

\* Who was asked to change or remove an item was asked from its page.
LEMMA FromItsPage ==
  ASSUME PagesInv, NEW m \in sent, m.op # "create"
  PROVE  page \in Items /\ page = m.id /\ sent = {m} /\ page # "list"
BY Types DEF PagesInv, OwnSent, TypeOK, Sent

LEMMA UpdatedStep ==
  ASSUME PagesInv, NEW m \in sent, Updated(m)
  PROVE  PagesInv'
<1>1. /\ page \in Items /\ sent' \subseteq sent
      /\ UNCHANGED <<kind, rows, page, all, drawer>>
  <2>1. m.op # "create" /\ sent' \subseteq sent
        /\ UNCHANGED <<kind, rows, page, all, drawer>>
    BY DEF Updated
  <2> QED BY <2>1, FromItsPage
<1>2. one' = one \/ one' = Asked(one)
  BY DEF Updated, AskAgain, Invalidated
<1>3. form' = form \/ form' = Shows(one, form)
  BY DEF Updated, RenderIf
<1> QED BY <1>1, <1>2, <1>3, PageAsks

LEMMA RemovedStep ==
  ASSUME PagesInv, NEW m \in sent, Removed(m)
  PROVE  PagesInv'
<1>1. page \in Items /\ page # "list" /\ sent = {m}
  BY FromItsPage DEF Removed
<1>2. sent' = {} /\ page' = "list" /\ UNCHANGED <<kind, rows>>
      /\ all' = Mounted(all, "all") /\ Blanked
  BY <1>1 DEF Removed
<1>3. one' = one \/ (one' = Asked(one) /\ one.opt \in Items)
  BY <1>1 DEF Removed, AskAgain, Invalidated, PagesInv, OwnQuery
<1> QED BY <1>1, <1>2, <1>3, ToList

LEMMA CreatedStep ==
  ASSUME PagesInv, NEW m \in sent, Created(m)
  PROVE  PagesInv'
<1>1. /\ page = "list" /\ all.data # None /\ sent' \subseteq sent
      /\ drawer' \in BOOLEAN /\ UNCHANGED <<kind, rows, page, one, form>>
  BY DEF Created, PagesInv, OwnSent, FreshList
<1>2. all' = Asked(all)
  BY <1>1 DEF Created, AskAgain, Invalidated, Loading
<1> QED BY <1>1, <1>2, ListAsks

LEMMA AnswerOneStep ==
  ASSUME PagesInv, AnswerOne
  PROVE  PagesInv'
<1> DEFINE a == Answer(one.get.id)
<1>1. one.get.id \in Items
  BY DEF AnswerOne, Pending, Fetching, PagesInv, TypeOK, Query
<1>2. a \in Answers /\ OwnContent(a) /\ a.of = one.get.id
      /\ (rows[one.get.id].state = "live" => a.content # None)
  BY <1>1, ListingTyped DEF PagesInv
<1> HIDE DEF a
<1>3. /\ one' \in Query(Items, Answers) /\ Fetching(one') /\ one'.get.got = a
      /\ one'.get.id = one.get.id /\ one'.data = one.data
      /\ one'.opt = one.opt /\ one'.bad = one.bad
  BY <1>2, AnsweredIs, Types DEF AnswerOne, PagesInv, TypeOK, a
<1>4. UNCHANGED <<kind, rows, page, all, form, drawer, sent>> /\ Fetching(one)
  BY DEF AnswerOne, Pending
<1>5. CASE page \notin Items
  BY <1>2, <1>3, <1>4, <1>5, OffPage DEF PagesInv, OwnQuery
<1>6. CASE page \in Items
  <2>1. one.get.id = page /\ one.opt = page
    BY <1>4, <1>6 DEF PagesInv, OwnQuery
  <2>2. ForeignOnlyAtFirst'
    <3>1. Foreign' => Foreign
      BY <1>3, <1>4 DEF Foreign
    <3>2. Foreign => sent = {} /\ a.content # None
      BY <1>2, <1>6, <2>1 DEF PagesInv, ForeignOnlyAtFirst
    <3> QED BY <1>3, <1>4, <1>6, <2>1, <3>1, <3>2
            DEF PagesInv, ForeignOnlyAtFirst, Fetching
  <2>3. form' \in Content \cup {None} /\ sent' \subseteq sent
    BY <1>4 DEF PagesInv, TypeOK
  <2>4. one'.data # None => OwnContent(one'.data)
    BY <1>3 DEF PagesInv, OwnQuery
  <2>5. /\ one'.opt = page
        /\ Fetching(one)' => one'.get.id = page
        /\ Arrived(one)' => one'.get.got.of = page /\ OwnContent(one'.get.got)
        /\ ~Fetching(one)' /\ ~one'.bad => one'.data # None
    BY <1>2, <1>3, <2>1 DEF Fetching
  <2> QED BY <1>3, <1>4, <1>6, <2>2, <2>3, <2>4, <2>5, PageStep
<1> QED BY <1>5, <1>6

\* The answer of its own item comes to a page: from now on nothing is foreign.
LEMMA OneArrivedStep ==
  ASSUME PagesInv, OneArrived
  PROVE  PagesInv'
<1>1. /\ Arrived(one) /\ one' = Settled(one)
      /\ UNCHANGED <<kind, rows, page, all, drawer, sent>>
      /\ form' = IF ItemPage THEN Shows(one', form) ELSE form
  BY DEF OneArrived, RenderIf
<1>2. /\ one' \in Query(Items, Answers) /\ ~Fetching(one')
      /\ one'.data = one.get.got /\ one'.data \in Answers
      /\ one'.opt = one.opt /\ ~one'.bad
  BY <1>1, SettledIs, Types DEF PagesInv, TypeOK
<1>3. OwnContent(one'.data) /\ one'.data # None /\ ~Arrived(one')
  BY <1>1, <1>2 DEF PagesInv, OwnQuery, Arrived, Fetching
<1>4. CASE page \notin Items
  BY <1>1, <1>2, <1>3, <1>4, OffPage DEF ItemPage, Arrived
<1>5. CASE page \in Items
  <2>1. one'.data.of = page /\ one'.opt = page
    BY <1>1, <1>2, <1>5 DEF PagesInv, OwnQuery
  <2>2. /\ form' \in Content \cup {None}
        /\ one'.data.content = None => form' = form
        /\ one'.data.content # None => form' # None /\ form'.of = page
    <3>1. form' = Shows(one', form) /\ form \in Content \cup {None}
      BY <1>1, <1>5 DEF ItemPage, PagesInv, TypeOK
    <3> QED BY <1>2, <1>3, <2>1, <3>1, ShowsTyped DEF OwnContent
  <2>3. ~Foreign'
    <3>1. Foreign => one'.data.content # None
      BY <1>1, <1>2, <1>5 DEF PagesInv, ForeignOnlyAtFirst
    <3> QED BY <1>1, <2>1, <2>2, <3>1 DEF Foreign
  <2>4. ForeignOnlyAtFirst' /\ sent' \subseteq sent
    BY <1>1, <2>3 DEF ForeignOnlyAtFirst
  <2>5. /\ Fetching(one)' => one'.get.id = page
        /\ Arrived(one)' => one'.get.got.of = page /\ OwnContent(one'.get.got)
        /\ one'.data # None => OwnContent(one'.data)
        /\ ~Fetching(one)' /\ ~one'.bad => one'.data # None
    BY <1>2, <1>3 DEF Fetching, Arrived
  <2> QED BY <1>1, <1>2, <1>5, <2>1, <2>2, <2>4, <2>5, PageStep
<1> QED BY <1>4, <1>5

\* A query about an item fails, on the item's page or after it was left.
LEMMA OneFailsStep ==
  ASSUME PagesInv, OneFails
  PROVE  PagesInv'
<1>1. UNCHANGED <<kind, rows, page, all, drawer, sent>>
  BY DEF OneFails
<1>2. CASE ItemPage /\ one' = Failed(one) /\ UNCHANGED form
  BY <1>1, <1>2, PageAsks DEF ItemPage, Failed
<1>3. CASE one' = GivenUp(one) /\ RenderIf(ItemPage, one')
  <2>1. /\ one' \in Query(Items, Answers) /\ ~Fetching(one') /\ one'.bad
        /\ one'.data = one.data /\ one'.opt = one.opt
    BY <1>3, GivenUpIs DEF PagesInv, TypeOK
  <2>2. one'.data # None => OwnContent(one'.data)
    BY <2>1 DEF PagesInv, OwnQuery
  <2>3. CASE page \notin Items
    BY <1>1, <1>3, <2>1, <2>2, <2>3, OffPage DEF RenderIf, ItemPage, Arrived
  <2>4. CASE page \in Items
    <3>1. form' = Shows(one', form) /\ form \in Content \cup {None}
      BY <1>3, <2>4 DEF RenderIf, ItemPage, PagesInv, TypeOK
    <3>2. /\ form' \in Content \cup {None}
          /\ form' # None => \/ form # None /\ form'.of = form.of
                             \/ one.data # None /\ form'.of = one.data.of
      BY <2>1, <2>2, <3>1, ShowsTyped DEF OwnContent
    <3>3. Foreign' => Foreign
      BY <1>1, <2>1, <3>2 DEF Foreign
    <3>4. ForeignOnlyAtFirst' /\ sent' \subseteq sent
      BY <1>1, <2>1, <3>3 DEF PagesInv, ForeignOnlyAtFirst, Fetching, Arrived
    <3>5. /\ one'.opt = page
          /\ Fetching(one)' => one'.get.id = page
          /\ Arrived(one)' => one'.get.got.of = page /\ OwnContent(one'.get.got)
          /\ ~Fetching(one)' /\ ~one'.bad => one'.data # None
      BY <2>1, <2>4 DEF PagesInv, OwnQuery, Fetching, Arrived
    <3> QED BY <1>1, <2>1, <2>2, <2>4, <3>2, <3>4, <3>5, PageStep
  <2> QED BY <2>3, <2>4
<1> QED BY <1>2, <1>3 DEF OneFails

LEMMA AnswerAllStep ==
  ASSUME PagesInv, AnswerAll
  PROVE  PagesInv'
<1>1. /\ UNCHANGED <<kind, rows, page, one, form, drawer, sent>>
      /\ Fetching(all) /\ all' = Answered(all, Listing) /\ Pending(all)
  BY DEF AnswerAll, Pending
<1>2. /\ all' \in Query({"all"}, Lists) /\ Fetching(all') /\ all'.opt = all.opt
      /\ all'.get.got = Listing /\ all'.data = all.data
  BY <1>1, ListingTyped, AnsweredIs, Types DEF PagesInv, TypeOK
<1>3. Listing' = Listing /\ Unseen' = Unseen
  BY <1>1 DEF Listing, Unseen
<1>4. FreshList'
  BY <1>1, <1>2, <1>3 DEF PagesInv, FreshList, Fetching, Arrived
<1> QED BY <1>1, <1>2, <1>4, ListStep

LEMMA AllArrivedStep ==
  ASSUME PagesInv, AllArrived
  PROVE  PagesInv'
<1>1. /\ UNCHANGED <<kind, rows, page, one, form, drawer, sent>>
      /\ Arrived(all) /\ all' = Settled(all)
  BY DEF AllArrived
<1>2. /\ all' \in Query({"all"}, Lists) /\ ~Fetching(all') /\ all'.opt = all.opt
      /\ all'.data = all.get.got /\ all'.data \in Lists
  BY <1>1, SettledIs, Types DEF PagesInv, TypeOK
<1>3. Listing' = Listing /\ Unseen' = Unseen /\ all'.data # None
  BY <1>1, <1>2, NoneAssumption DEF Listing, Unseen
<1>4. FreshList'
  BY <1>1, <1>2, <1>3 DEF PagesInv, FreshList, Fetching, Arrived
<1> QED BY <1>1, <1>2, <1>4, ListStep

LEMMA AllFailsStep ==
  ASSUME PagesInv, AllFails
  PROVE  PagesInv'
<1>1. UNCHANGED <<kind, rows, page, one, form, drawer, sent>>
  BY DEF AllFails
<1>2. CASE page = "list" /\ all' = Failed(all)
  BY <1>1, <1>2, ListAsks DEF Failed, PagesInv, TypeOK
<1>3. CASE all' = GivenUp(all)
  <2>1. /\ all' \in Query({"all"}, Lists) /\ ~Fetching(all') /\ all'.bad
        /\ all'.opt = all.opt /\ all'.data = all.data
    BY <1>3, GivenUpIs DEF PagesInv, TypeOK
  <2>2. FreshList'
    BY <1>1, <2>1 DEF PagesInv, FreshList, Fetching, Arrived
  <2> QED BY <1>1, <2>1, <2>2, ListStep
<1> QED BY <1>2, <1>3 DEF AllFails

LEMMA ForgetStep ==
  ASSUME PagesInv, Forget
  PROVE  PagesInv'
<1>1. UNCHANGED <<kind, rows, page, form, drawer, sent>>
  BY DEF Forget
<1>2. CASE ~ItemPage /\ one' = Expired(one) /\ all' = all
  <2>1. one' \in Query(Items, Answers) /\ one'.get = one.get /\ one'.data = None
    BY <1>2, ExpiredIs DEF PagesInv, TypeOK, Expired, Query
  <2>2. Arrived(one)' => OwnContent(one'.get.got)
    BY <2>1 DEF PagesInv, OwnQuery, Arrived, Fetching
  <2> QED BY <1>1, <1>2, <2>1, <2>2, OffPage DEF ItemPage
<1>3. CASE page # "list" /\ all' = Expired(all) /\ one' = one
  <2>1. all' \in Query({"all"}, Lists) /\ all'.get = all.get
    BY <1>3, ExpiredIs DEF PagesInv, TypeOK
  <2>2. FreshList'
    BY <1>1, <1>3, <2>1 DEF PagesInv, FreshList, Fetching
  <2> QED BY <1>1, <1>3, <2>1, <2>2, ListStep
<1> QED BY <1>2, <1>3 DEF Forget

-----------------------------------------------------------------------------
(* PagesInv is inductive. *)

LEMMA UserStep ==
  ASSUME PagesInv, User, Attentive \/ Focus
  PROVE  PagesInv'
<1>1. CASE Focus
  BY <1>1, FocusStep
<1>2. CASE Attentive
  <2>1. CASE OpenList \/ Leave \/ Focus \/ Refresh \/ TypeRule \/ Save \/ Remove
    BY <1>2, <2>1, OpenListStep, LeaveStep, FocusStep, RefreshStep,
       TypeRuleStep, SaveStep, RemoveStep
  <2>2. CASE \E i \in Items : OpenItem(i)
    BY <1>2, <2>2, OpenItemStep
  <2>3. CASE \E t \in Texts : Type(t)
    BY <1>2, <2>3, TypeStep
  <2>4. CASE \E open \in BOOLEAN : Drawer(open)
    BY <2>4, DrawerStep
  <2>5. CASE \E i \in Items, t \in Texts, r \in Conds \cup {Unset, NoRule} :
               Create(i, t, r)
    BY <1>2, <2>5, CreateStep
  <2> QED BY <2>1, <2>2, <2>3, <2>4, <2>5 DEF User
<1> QED BY <1>1, <1>2

LEMMA AnsweringStep ==
  ASSUME PagesInv, Answering
  PROVE  PagesInv'
<1>1. ASSUME NEW m \in sent,
             Serve(m) \/ Refused(m) \/ Updated(m) \/ Removed(m) \/ Created(m)
      PROVE  PagesInv'
  BY <1>1, ServeStep, RefusedStep, UpdatedStep, RemovedStep, CreatedStep
<1>2. CASE AnswerOne \/ AnswerAll \/ OneArrived \/ AllArrived
  BY <1>2, AnswerOneStep, AnswerAllStep, OneArrivedStep, AllArrivedStep
<1> QED BY <1>1, <1>2 DEF Answering

LEMMA PagesInvariant == AttentiveSpec => []PagesInv
<1>1. PagesInv /\ [AttentiveNext]_vars => PagesInv'
  <2> SUFFICES ASSUME PagesInv, [AttentiveNext]_vars PROVE PagesInv'
    OBVIOUS
  <2>1. CASE User /\ (Attentive \/ Focus)
    BY <2>1, UserStep
  <2>2. CASE Answering \/ OneFails \/ AllFails \/ Forget
    BY <2>2, AnsweringStep, OneFailsStep, AllFailsStep, ForgetStep
  <2>3. CASE UNCHANGED vars
    <3>1. UNCHANGED <<kind, rows, page, one, all, sent, form, drawer>>
      BY <2>3 DEF vars
    <3> QED BY <3>1, FormStep DEF PagesInv, TypeOK
  <2> QED BY <2>1, <2>2, <2>3 DEF AttentiveNext
<1> QED BY <1>1, InitPages, PTL DEF AttentiveSpec

-----------------------------------------------------------------------------
(* The theorems. *)

\* The pages, their queries and the requests stay what they are meant to be
\* (the pages' state, get.ts).
THEOREM PagesTypes == AttentiveSpec => []TypeOK
<1>1. PagesInv => TypeOK
  BY DEF PagesInv
<1> QED BY <1>1, PagesInvariant, PTL

\* Nothing of one item is saved for another, however many items there are,
\* although their pages share one cached answer.
THEOREM NothingIsMixedUp == AttentiveSpec => []SavesItsOwn
<1>1. PagesInv => SavesItsOwn
  BY DEF PagesInv, OwnRows, SavesItsOwn
<1> QED BY <1>1, PagesInvariant, PTL

\* A page that has loaded shows the item it was opened for.
THEOREM PagesShowTheirs == AttentiveSpec => []ShowsItsPage
<1>1. PagesInv => ShowsItsPage
  BY DEF PagesInv, OwnQuery, ForeignOnlyAtFirst, Foreign, ShowsItsPage
<1> QED BY <1>1, PagesInvariant, PTL

\* A list that has loaded, with no request under way, is the server's.
THEOREM ListsAreFresh == AttentiveSpec => []ListIsFresh
<1>1. PagesInv => ListIsFresh
  BY DEF PagesInv, FreshList, Unseen, ListIsFresh
<1> QED BY <1>1, PagesInvariant, PTL
=============================================================================
