----------------------------- MODULE QueryCache -----------------------------
(***************************************************************************)
(* One query of react-query as the client uses it (hooks/get.ts): the      *)
(* answer that is cached under the query's key, and the request under way. *)
(* The keys name a kind of item and never its id, so that all the pages of *)
(* a kind share one cached answer and one request.  A page that is mounted *)
(* shows what is cached and asks again; a request that is already under    *)
(* way is joined, whichever item it asks for.                              *)
(***************************************************************************)
CONSTANT None

\* data    the cached answer                 opt  the item of the page that
\* get     the request under way: the item        rendered the query last
\*         and the server's answer           bad  the last request was given up
Query(Ids, Answers) ==
  [data : Answers \cup {None},
   get  : [id : Ids, got : Answers \cup {None}] \cup {None},
   opt  : Ids \cup {None},
   bad  : BOOLEAN]

NoQuery == [data |-> None, get |-> None, opt |-> None, bad |-> FALSE]

Fetching(q) == q.get # None
Loading(q)  == Fetching(q) /\ q.data = None

\* A request for the item of the page that rendered last; one under way is
\* given up.
Asked(q) ==
  [q EXCEPT !.get = [id |-> q.opt, got |-> None],
            !.bad = @ /\ q.data # None]

\* A page is mounted, the window gets the focus: a request under way is joined.
JoinedOr(q) == IF Fetching(q) THEN q ELSE Asked(q)

\* Bugs: data that is there is not asked for again; the page that is mounted
\* keeps the item of the page before.
MountedOnce(q, i) ==
  IF q.data # None THEN [q EXCEPT !.opt = i] ELSE JoinedOr([q EXCEPT !.opt = i])
MountedStale(q, i) == JoinedOr([q EXCEPT !.opt = IF @ = None THEN i ELSE @])
Mounted(q, i) == JoinedOr([q EXCEPT !.opt = i])

\* invalidateQueries and refetch, the page being mounted: a request under way
\* is started anew, unless it is the first.
Invalidated(q) == IF Loading(q) THEN q ELSE Asked(q)

\* The server has read its answer; it has come, so that the page renders it.
Pending(q) == Fetching(q) /\ q.get.got = None
Answered(q, a) == [q EXCEPT !.get.got = a]
Arrived(q)  == Fetching(q) /\ q.get.got # None
Settled(q) == [q EXCEPT !.data = q.get.got, !.get = None, !.bad = FALSE]

\* A request that fails is made again, for the item of the page that rendered
\* last; without a page, or after the number of tries the page allows, it is
\* given up.
Failed(q)  == Asked(q)
GivenUp(q) == [q EXCEPT !.get = None, !.bad = TRUE]

\* An answer that no page has shown for minutes is forgotten.
Expired(q) == [q EXCEPT !.data = None, !.bad = FALSE]
=============================================================================
