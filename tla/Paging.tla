-------------------------------- MODULE Paging --------------------------------
(***************************************************************************)
(* A client that reads a table, at once or page by page while other        *)
(* transactions write to it: listBy, find, paginateBy and page of          *)
(* FabricContractRepository, FabricContractPaginator, and raw, rangeList   *)
(* and paginateByPrimaryKeyRange of FabricContractAdapter.  Every page is  *)
(* a call of its own, evaluated on the state of its moment; all that       *)
(* connects it with the page before is the bookmark the client hands in.   *)
(*                                                                         *)
(* A bookmark of the public state is CouchDB's; that of a private          *)
(* collection is made by the adapter from the last row (its sort value and *)
(* its primary key) and the query.  CouchDB is external: a query returns   *)
(* the rows that match, in the order of the sort fields, and a bookmark of *)
(* its own continues after the last row it returned.                       *)
(*                                                                         *)
(* A row is its primary key and the value it is sorted by, in their order  *)
(* numbers here; whether the primary key of a class is stored as a text or *)
(* as a number is part of its setup.  The copy of a row in a mirror        *)
(* collection changes with the row, as SegregatedStore shows.              *)
(***************************************************************************)
EXTENDS Integers, Sequences, FiniteSets, SequencesExt

CONSTANTS
    Ids, Values,    \* sets of integers
    PageSize,
    Attrs,          \* the default query attributes, in order
    Matches,        \* per attribute: the ids of the rows that match the value
    MaxWrites,      \* bound: writes during the scan,
    MaxRangeRows,   \*        and rows of a range, which may have no end
    MaxAnswer,      \* the rows of the largest answer a peer can send
    QueryLimit,     \* CouchDBQueryLimit: the rows of a statement without a limit
    Setups,         \* the combinations of class and call, as in the variable
    Absent, NoBookmark

Orders == {"asc", "desc"}

Listings == {"list", "find", "rangeList", "aggregate", "raw"}

Bookmarks ==
    [kind : {"public", "private", "range"}, row : [id : Ids, val : Values],
     hash : {<<>>} \cup Orders \X ToSet(Attrs) \X {"value", "id"}]

\* There is a default attribute, and a page has a row.  A class with both kinds
\* of attributes has the one it is sorted by in one of the two places.  What is
\* aggregated or read by keys without pages is in ascending order.
ASSUME PagingAssumption ==
    /\ Ids \subseteq Int /\ IsFiniteSet(Ids) /\ Values \subseteq Int
    /\ PageSize \in Nat \ {0} /\ QueryLimit \in Nat \ {0} /\ MaxAnswer \in Nat
    /\ DOMAIN Attrs = 1..Len(Attrs) /\ Len(Attrs) \in Nat \ {0}
    /\ Setups \subseteq [shape : {"public", "segregated", "mixed"},
                         sortAt : {"public", "private"}, ofMirror : BOOLEAN,
                         key : {"text", "number"},
                         method : Listings \cup {"paginateBy", "page", "range", "view"},
                         by : {"value", "id"}, order : Orders]
    /\ \A s \in Setups : s.method \in {"rangeList", "aggregate"} => s.order = "asc"
    /\ Absent \notin Values /\ NoBookmark \notin Bookmarks

VARIABLES
    world,      \* [Ids -> value or Absent]
    setup,      \* [shape, sortAt, ofMirror, key, method, by, order], constant
    scan,       \* [state, order, attr, bookmark], of the client
    got,        \* the rows returned so far, in the order they came
    steady,     \* the rows that were there, unchanged, since the scan began
    writes      \* writes so far

vars == <<world, setup, scan, got, steady, writes>>

-----------------------------------------------------------------------------
\* Rows and their order.

Rows == {[id |-> i, val |-> world[i]] : i \in {j \in Ids : world[j] # Absent}}

\* The rows a query selects: all of them, or those whose attribute matches.
Selected(attr) ==
    IF setup.method \in {"page", "find"} THEN {r \in Rows : r.id \in Matches[attr]}
    ELSE Rows

Beyond(order, a, b) == IF order = "asc" THEN a > b ELSE a < b

\* Whether r comes after s: by value and then primary key, or by primary key.
After(order, r, s) ==
    \/ setup.by = "value" /\ Beyond(order, r.val, s.val)
    \/ (setup.by = "value" => r.val = s.val) /\ Beyond(order, r.id, s.id)

InOrder(order, rows) ==
    [i \in 1..Cardinality(rows) |->
        CHOOSE r \in rows : Cardinality({s \in rows : After(order, r, s)}) = i - 1]

AtMost(n, seq) == SubSeq(seq, 1, IF n < Len(seq) THEN n ELSE Len(seq))

-----------------------------------------------------------------------------
\* A page of a private collection.

\* Mutant of QueryHash: the sort is not part of what is hashed.
QueryHashOfSelector(order, attr) == <<attr>>

\* What a bookmark is bound to: everything of the query but the page size.
QueryHash(order, attr) == <<order, attr, setup.by>>

\* Mutant of Continuations: rows with the last value again are left out.
ContinuationsNext(order, rows, last) ==
    IF setup.by = "id"
    THEN <<{r \in rows : Beyond(order, r.id, last.id)}>>
    ELSE <<{r \in rows : Beyond(order, r.val, last.val)}>>

\* Whether the key of a row is beyond that of a bookmark, which is a text.  The
\* order of CouchDB has every number before every text.
BeyondText(order, id, last) ==
    IF setup.key = "number" THEN order = "desc" ELSE Beyond(order, id, last)

\* The queries that continue after a row, without $or: the rest of the rows
\* with the same value, then the rows with a value beyond it.
Continuations(order, rows, last) ==
    IF setup.by = "id"
    THEN <<{r \in rows : Beyond(order, r.id, last.id)}>>
    ELSE <<{r \in rows : r.val = last.val /\ BeyondText(order, r.id, last.id)},
           {r \in rows : Beyond(order, r.val, last.val)}>>

\* What queries return that are run one after the other.
InTurn(order, queries) ==
    FoldLeft(LAMBDA seq, rows : seq \o InOrder(order, rows), <<>>, queries)

\* They are run until there is one row more than a page.
RunQueries(order, queries) == AtMost(PageSize + 1, InTurn(order, queries))

\* Mutant of NextPrivate: the bookmark is made from the row that was read
\* ahead.
NextPrivateAhead(found, hash) ==
    IF Len(found) > PageSize
    THEN [kind |-> "private", row |-> Last(found), hash |-> hash] ELSE NoBookmark

\* The bookmark of the next page, made from the last row of this one: its sort
\* value as it is and its key as a text, which BeyondText compares it as.
NextPrivate(found, hash) ==
    IF Len(found) > PageSize
    THEN [kind |-> "private", row |-> found[PageSize], hash |-> hash] ELSE NoBookmark

PrivateRefuses(bookmark, hash) ==
    bookmark # NoBookmark /\ (bookmark.kind = "private" => bookmark.hash # hash)

\* The possible responses: rows and bookmark; none if the call is refused.
PrivatePage(order, attr, bookmark) ==
    LET hash == QueryHash(order, attr)
        queries == IF bookmark = NoBookmark THEN <<Selected(attr)>>
                   ELSE Continuations(order, Selected(attr), bookmark.row)
    IN  IF PrivateRefuses(bookmark, hash) THEN {}
        ELSE {[docs |-> AtMost(PageSize, found), next |-> NextPrivate(found, hash)] :
                found \in {RunQueries(order, queries)}}

-----------------------------------------------------------------------------
\* A page of the public state.

\* The rows that are left after a bookmark.
Rest(order, attr, bookmark) ==
    {r \in Selected(attr) : bookmark # NoBookmark => After(order, r, bookmark.row)}

\* CouchDB's bookmark is after the last row; whether it gives one if no row is
\* left is its own choice, and without a row it is the one it was given.
PublicPage(order, attr, bookmark) ==
    LET rest == Rest(order, attr, bookmark)
        mark(docs) == [kind |-> "public", row |-> Last(docs), hash |-> <<>>]
        marks(docs) ==
            CASE docs = <<>> -> {bookmark}
              [] docs # <<>> /\ Cardinality(rest) > PageSize -> {mark(docs)}
              [] docs # <<>> /\ Cardinality(rest) <= PageSize -> {mark(docs), NoBookmark}
    IN  IF bookmark # NoBookmark /\ bookmark.kind # "public" THEN {}
        ELSE UNION {{[docs |-> docs, next |-> next] : next \in marks(docs)} :
                        docs \in {AtMost(PageSize, InOrder(order, rest))}}

\* A half of a mixed class that does not have the sort field returns no row.
EmptyPage == {[docs |-> <<>>, next |-> NoBookmark]}

Halves(order, attr, bookmark) ==
    [public  |-> IF setup.sortAt = "public" \/ PublicPage(order, attr, bookmark) = {}
                 THEN PublicPage(order, attr, bookmark) ELSE EmptyPage,
     private |-> IF setup.sortAt = "private" \/ PrivatePage(order, attr, bookmark) = {}
                 THEN PrivatePage(order, attr, bookmark) ELSE EmptyPage]

\* The flags of a query: a class without public attributes is asked for in the
\* collections alone, and so is, in the mirror's, every class that is mirrored
\* to the organisation of the reader.
QueriedAs == IF setup.ofMirror THEN "segregated" ELSE setup.shape

\* raw: the state and the collections are asked with the same bookmark, and
\* the response with the most rows is taken, the last one of several.
Raw(order, attr, bookmark) ==
    LET halves == Halves(order, attr, bookmark)
    IN  CASE QueriedAs = "public" -> PublicPage(order, attr, bookmark)
          [] QueriedAs = "segregated" -> PrivatePage(order, attr, bookmark)
          [] QueriedAs = "mixed" ->
                {IF Len(private.docs) >= Len(public.docs) THEN private ELSE public :
                    public \in halves.public, private \in halves.private}

-----------------------------------------------------------------------------
\* A page of a range of primary keys.

\* The range is read from its start, up to one row more than a page; of the
\* page before only the row of the bookmark is left out.
RangePage(order, bookmark) ==
    LET rows == {r \in Rows : bookmark # NoBookmark => r.id # bookmark.row.id}
        read == AtMost(PageSize + 1, InOrder("asc", rows))
        sorted == InOrder(order, ToSet(read))
        docs == AtMost(PageSize, sorted)
    IN  {[docs |-> docs,
          next |-> IF Len(sorted) > PageSize
                   THEN [kind |-> "range", row |-> Last(docs), hash |-> <<>>]
                   ELSE NoBookmark]}

-----------------------------------------------------------------------------
\* Calls without pages.

\* listBy.  One half of a mixed class has the sort field, and all the rows.
Listed(order, attr) == InOrder(order, Selected(attr))

\* find asks for every default attribute and leaves out what it has already.
Found(order) ==
    InTurn(order, [i \in DOMAIN Attrs |->
        {r \in Selected(Attrs[i]) : \A j \in 1..(i - 1) : r \notin Selected(Attrs[j])}])

\* rangeList reads the keys of the state and of each collection, and merges
\* what it finds under the same key.
RangeList == InOrder("asc", Rows)

\* countOf, maxOf, minOf, avgOf, sumOf, distinctOf and groupOf: the rows that
\* the value is computed from, in one call.
Aggregated == Listed("asc", Attrs[1])

\* A query that the client sends as such: the contract, which is not told the
\* class, asks the public state alone.
EvaluatedRaw(order) ==
    IF setup.shape = "segregated" THEN <<>> ELSE InOrder(order, Selected(Attrs[1]))

\* A statement without a limit that the configuration lets the client send as a
\* query is given one.
RawStatement(order) == AtMost(QueryLimit, EvaluatedRaw(order))

\* The repository's method for the name of a statement.
Answer(order) ==
    CASE setup.method = "list" -> Listed(order, Attrs[1])
      [] setup.method = "aggregate" -> Aggregated
      [] setup.method = "raw" -> RawStatement(order)
      [] setup.method = "find" -> Found(order)
      [] setup.method = "rangeList" -> RangeList

\* An answer that is too large for the peer to send is an error, for which the
\* client's listBy returns an empty list.
List ==
    LET answer == Answer(scan.order)
        tooLarge == Len(answer) > MaxAnswer
    IN  /\ scan.state = "going"
        /\ setup.method \in Listings
        /\ got' = IF tooLarge THEN <<>> ELSE answer
        /\ scan' = [scan EXCEPT !.state =
                IF ~tooLarge THEN "ended"
                ELSE IF setup.method = "list" THEN "emptied" ELSE "refused"]
        /\ UNCHANGED <<world, setup, steady, writes>>

\* An aggregate in a statement that is sent as a query asks for a view.  That is
\* an error, whether or not the class declares the view: the contracts have no
\* such transaction, and their adapter does not support one.
ViewAggregate ==
    /\ scan.state = "going"
    /\ setup.method = "view"
    /\ scan' = [scan EXCEPT !.state = "refused"]
    /\ UNCHANGED <<world, setup, got, steady, writes>>

-----------------------------------------------------------------------------
\* The repository and the paginator.

\* Mutant of HasNext: any bookmark means that there is another page.
HasNextAlways(docs, next, given) == next # NoBookmark

\* Whether there is a next page, as the paginator sees it.
HasNext(docs, next, given) == next # NoBookmark /\ docs # <<>> /\ next # given

\* The attributes page tries: that of the bookmark, else all in order.
AttrsToTry == IF scan.bookmark # NoBookmark THEN <<scan.attr>> ELSE Attrs

PageByDefaultAttr(order, attr) == Raw(order, attr, scan.bookmark)

\* It takes the first attribute with a row, or the first of all.
PageByAttrs(order) ==
    LET raw == [i \in DOMAIN AttrsToTry |-> PageByDefaultAttr(order, AttrsToTry[i])]
        hits(i) == {r \in raw[i] : r.docs # <<>>}
        tried == {i \in DOMAIN raw : hits(i) # {}}
        first == CHOOSE i \in tried : \A j \in tried : i <= j
    IN  IF \E i \in DOMAIN raw : raw[i] = {} THEN {}
        ELSE IF tried = {}
        THEN {[docs |-> <<>>, next |-> NoBookmark, attr |-> AttrsToTry[1]]}
        ELSE {[docs |-> r.docs, next |-> r.next, attr |-> AttrsToTry[first]] : r \in hits(first)}

PaginateBy(order) ==
    {[docs |-> r.docs, next |-> r.next, attr |-> Attrs[1]] :
        r \in IF setup.method = "range" THEN RangePage(order, scan.bookmark)
              ELSE Raw(order, Attrs[1], scan.bookmark)}

Pages(order) ==
    IF setup.method = "page" THEN PageByAttrs(order) ELSE PaginateBy(order)

\* The client asks for the next page, with the bookmark of the last one.
NextPage(order) ==
    /\ scan.state = "going"
    /\ setup.method \notin Listings \cup {"view"}
    /\ setup.method = "range" => Len(got) < MaxRangeRows
    /\ \E pages \in {Pages(order)} :
           \/ /\ pages = {}
              /\ scan' = [scan EXCEPT !.state = "refused"]
              /\ UNCHANGED got
           \/ \E r \in pages :
              LET more == HasNext(r.docs, r.next, scan.bookmark)
              IN  /\ got' = got \o r.docs
                  /\ scan' = [scan EXCEPT
                        !.order = order, !.attr = r.attr,
                        !.state = IF more THEN "going" ELSE "ended",
                        !.bookmark = IF more THEN r.next ELSE NoBookmark]
    /\ UNCHANGED <<world, setup, steady, writes>>

Continue == NextPage(scan.order)

\* The client asks for it in the other order, by mistake.  What CouchDB makes
\* of that is not known, so the class is one that is read from a collection.
TurnAround ==
    /\ QueriedAs = "segregated" /\ setup.method # "range"
    /\ scan.bookmark # NoBookmark
    /\ NextPage(IF scan.order = "asc" THEN "desc" ELSE "asc")

-----------------------------------------------------------------------------
\* Another client's transaction creates, updates or deletes a row.
Write(id, value) ==
    /\ scan.state = "going"
    /\ writes < MaxWrites
    /\ world[id] # value
    /\ world' = [world EXCEPT ![id] = value]
    /\ writes' = writes + 1
    /\ steady' = {r \in steady : r.id # id}
    /\ UNCHANGED <<setup, scan, got>>

Init ==
    /\ world \in [Ids -> Values \cup {Absent}]
    /\ setup \in Setups
    /\ scan = [state |-> "going", order |-> setup.order, attr |-> Attrs[1],
               bookmark |-> NoBookmark]
    /\ got = <<>>
    /\ steady = Rows
    /\ writes = 0

Next ==
    \/ List
    \/ ViewAggregate
    \/ Continue
    \/ TurnAround
    \/ \E id \in Ids, value \in Values \cup {Absent} : Write(id, value)

\* The client goes on as long as there is a next page.
Spec == Init /\ [][Next]_vars /\ WF_vars(List \/ ViewAggregate) /\ WF_vars(Continue)

-----------------------------------------------------------------------------
\* Properties.  Of the pages of a range of primary keys only completeness is
\* claimed: every page starts again at the first key, so that rows come more
\* than once, and the scan of more rows than a page and one has no end.

TypeOK ==
    /\ world \in [Ids -> Values \cup {Absent}]
    /\ setup \in Setups
    /\ scan.state \in {"going", "ended", "emptied", "refused"}
    /\ \E i \in DOMAIN Attrs : scan.attr = Attrs[i]
    /\ steady \subseteq Rows
    /\ scan.bookmark # NoBookmark => scan.state # "ended" /\ scan.bookmark.row \in ToSet(got)

ByQuery == setup.method # "range"

\* The pages are those of a collection, of rows with equal values in the order of
\* a key that is a number, where the bookmarks have a text.
KeyMisread ==
    /\ setup.key = "number" /\ setup.by = "value"
    /\ setup.method \in {"paginateBy", "page"}
    /\ QueriedAs = "segregated" \/ (QueriedAs = "mixed" /\ setup.sortAt = "private")

\* Whether r may come after s: in descending order, rows with an equal value come
\* again where the key is misread.
Onward(order, r, s) ==
    IF KeyMisread /\ order = "desc" THEN ~Beyond(order, s.val, r.val) ELSE After(order, r, s)

\* The pages one after the other are in the order that was asked for, no row
\* twice, whatever was written in between.  Where the key is misread this holds of
\* ascending pages; descending ones do not go back to a value they have passed.
\* find orders the rows of each attribute only, but has none twice either.
PagesAdvance ==
    ByQuery => \A i, j \in DOMAIN got : i < j =>
        IF setup.method = "find" THEN got[i].id # got[j].id
        ELSE Onward(scan.order, got[j], got[i])

\* What is known of a row that is not among the rows q of a scan, where the key is
\* misread: ascending pages passed it over after one with an equal value, and
\* descending ones were given up when a row came again.
MissedByKey(order, q, r) ==
    KeyMisread /\
        IF order = "asc" THEN \E s \in ToSet(q) : s.val = r.val /\ After(order, r, s)
        ELSE \E i, j \in DOMAIN q : i < j /\ q[i] = q[j]

\* A scan that came to its end has returned every row that was there from the
\* start and was not written: no row is lost between two pages, but for those
\* that a misread key loses.  With several default attributes, this is of the
\* rows that match the one it ended with (page) or any of them (find), and of a
\* statement sent as a query if it returned fewer rows than its limit and the
\* class has a public part.
ScanComplete ==
    scan.state = "ended" => \A r \in steady :
        /\ setup.method = "page" => r.id \in Matches[scan.attr]
        /\ setup.method = "raw" => setup.shape # "segregated" /\ Len(got) < QueryLimit
        /\ setup.method = "find" => \E i \in DOMAIN Attrs : r.id \in Matches[Attrs[i]]
        => r \in ToSet(got) \/ MissedByKey(scan.order, got, r)

\* A client that follows the bookmarks comes to an end, or to a refusal, also
\* where rows come again: a page with the bookmark that was given is the last.
ScanEnds == ByQuery => <>(scan.state # "going")
=============================================================================
