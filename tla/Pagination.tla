------------------------------ MODULE Pagination ------------------------------
(* The pagination package (pkg/pagination): numbered pages (a count, then a    *)
(* fetch), their metadata and links, the window of page links, and keyset      *)
(* pages whose cursor is the last row's stamp and identity. One client follows *)
(* the next links while rows come and go.                                      *)
EXTENDS Integers, FiniteSets, Sequences, SequencesExt

CONSTANTS
    Row,            \* 1..n: identities in the order of creation
    Stamp,          \* created_at, which two rows may share
    PageAsked,      \* the page and per_page a query may ask for (0: absent or no number)
    PerPageAsked,
    DefaultPerPage, MaxPerPage,
    MaxInt,         \* the largest int: arithmetic wraps
    MaxChanges      \* bound: insertions and deletions

PaginationAssumption ==
    /\ DefaultPerPage \in 1..MaxPerPage /\ MaxInt \in Nat
    /\ 0 \notin Stamp

VARIABLES
    stored,         \* [Row -> its stamp, 0 before it is inserted, Gone after it is deleted]
    changes,        \* insertions and deletions so far
    walk            \* the client's request, its place, what it has received

paginationVars == <<stored, changes, walk>>

Gone == 0 - 1
NoPaginator == [total |-> 0, perPage |-> 1, currentPage |-> 1, lastPage |-> 1, items |-> <<>>]
NoCursor == [value |-> 0, id |-> 0]
NoWalk == [phase |-> "none", kind |-> "none", start |-> 0, page |-> 0, per |-> 0, total |-> 0, paginator |-> NoPaginator,
           desc |-> FALSE, getters |-> FALSE, cursor |-> NoCursor,
           seen |-> <<>>, stayed |-> {}, quiet |-> TRUE]
Present == {r \in Row : stored[r] > 0}

PaginationInit == stored = [r \in Row |-> 0] /\ changes = 0 /\ walk = NoWalk

Wrap(x) == ((x + MaxInt + 1) % (2 * (MaxInt + 1))) - (MaxInt + 1)

(* The two orders a query asks for: by stamp and identity, up or down.         *)
Before(desc, a, b) ==
    IF desc THEN a.value > b.value \/ (a.value = b.value /\ a.id > b.id)
            ELSE a.value < b.value \/ (a.value = b.value /\ a.id < b.id)
KeyOf(r) == [value |-> stored[r], id |-> r]
Ordered(S, desc) == SetToSortSeq(S, LAMBDA a, b : Before(desc, KeyOf(a), KeyOf(b)))
Limited(s, offset, n) == SubSeq(s, offset + 1, IF offset + n < Len(s) THEN offset + n ELSE Len(s))

-------------------------------------------------------------------------------
(* Request: bounds of what the query asks for.                                 *)
GetPage(page) == IF page < 1 THEN 1 ELSE page
GetPerPage(per) == IF per < 1 THEN DefaultPerPage ELSE IF per > MaxPerPage THEN MaxPerPage ELSE per
GetOffset(page, per) == Wrap((GetPage(page) - 1) * GetPerPage(per))

(* NewPaginator and the metadata computed from it.                             *)
NewPaginator(items, total, page, per) ==
    LET n == GetPerPage(per) IN
    [items |-> items, total |-> total, perPage |-> n, currentPage |-> GetPage(page),
     lastPage |-> IF total = 0 THEN 1 ELSE (total + n - 1) \div n]
From(p) == IF p.total = 0 THEN 0 ELSE Wrap(Wrap((p.currentPage - 1) * p.perPage) + 1)
To(p) ==
    LET to == Wrap(p.currentPage * p.perPage) IN
    IF p.total = 0 THEN 0 ELSE IF to > p.total THEN p.total ELSE to
HasMorePages(p) == p.currentPage < p.lastPage
OnFirstPage(p) == p.currentPage <= 1

(* URL: the page a link names. Links are set by what they lead to, 0 is none.  *)
URL(p, page) == IF page < 1 THEN 1 ELSE IF page > p.lastPage THEN p.lastPage ELSE page
GetLinks(p) ==
    [first |-> URL(p, 1), last |-> URL(p, p.lastPage),
     prev |-> IF OnFirstPage(p) THEN 0 ELSE URL(p, p.currentPage - 1),
     next |-> IF HasMorePages(p) THEN URL(p, p.currentPage + 1) ELSE 0]
(* A transformed paginator's links do not clamp the page.                      *)
TransformedLinks(p) ==
    [first |-> 1, last |-> p.lastPage,
     prev |-> IF p.currentPage > 1 THEN p.currentPage - 1 ELSE 0,
     next |-> IF p.currentPage < p.lastPage THEN p.currentPage + 1 ELSE 0]

Count(a, b) == [i \in 1..(b - a + 1) |-> a + i - 1]
Ellipsis == <<0 - 1>>
Side == 3
getURLWindow(p) ==
    IF p.lastPage <= 2 * Side + 6 THEN Count(1, p.lastPage)
    ELSE IF p.currentPage <= Side + 3
    THEN Count(1, 2 * Side + 2) \o Ellipsis \o <<p.lastPage - 1, p.lastPage>>
    ELSE IF p.currentPage >= p.lastPage - Side - 2
    THEN <<1, 2>> \o Ellipsis \o Count(p.lastPage - 2 * Side - 1, p.lastPage)
    ELSE <<1, 2>> \o Ellipsis \o Count(p.currentPage - Side, p.currentPage + Side)
         \o Ellipsis \o <<p.lastPage - 1, p.lastPage>>
Links(p) ==
    <<[page |-> GetLinks(p).prev, active |-> FALSE]>>
    \o [i \in 1..Len(getURLWindow(p)) |->
          [page |-> getURLWindow(p)[i], active |-> getURLWindow(p)[i] = p.currentPage]]
    \o <<[page |-> GetLinks(p).next, active |-> FALSE]>>

-------------------------------------------------------------------------------
(* Rows come and go between any two statements.                                *)
InsertRow(r, t) ==
    /\ changes < MaxChanges /\ stored[r] = 0 /\ \A q \in Row : q < r => stored[q] # 0
    /\ stored' = [stored EXCEPT ![r] = t] /\ changes' = changes + 1
    /\ walk' = [walk EXCEPT !.quiet = FALSE]
DeleteRow(r) ==
    /\ changes < MaxChanges /\ r \in Present
    /\ stored' = [stored EXCEPT ![r] = Gone] /\ changes' = changes + 1
    /\ walk' = [walk EXCEPT !.quiet = FALSE, !.stayed = @ \ {r}]

(* New: FromContext, then Paginate counts, fetches and builds the paginator.   *)
FromContext(page, per) ==
    /\ walk.phase = "none"
    /\ walk' = [NoWalk EXCEPT !.phase = "count", !.kind = "numbered", !.start = GetPage(page),
                              !.page = page, !.per = per, !.stayed = Present]
    /\ UNCHANGED <<stored, changes>>
CountRows ==
    /\ walk.phase = "count"
    /\ walk' = [walk EXCEPT !.phase = "find", !.total = Cardinality(Present)]
    /\ UNCHANGED <<stored, changes>>
FindPage ==
    LET offset == GetOffset(walk.page, walk.per)     \* gorm writes no OFFSET that is not positive
        items == Limited(Ordered(Present, FALSE), IF offset > 0 THEN offset ELSE 0, GetPerPage(walk.per)) IN
    /\ walk.phase = "find"
    /\ walk' = [walk EXCEPT !.phase = "page", !.seen = @ \o items,
                            !.paginator = NewPaginator(items, walk.total, walk.page, walk.per)]
    /\ UNCHANGED <<stored, changes>>

(* The client follows the next link of a paginator or of a transformed one.    *)
FollowNext ==
    LET p == walk.paginator IN
    /\ walk.phase = "page"
    /\ \E next \in {GetLinks(p).next, TransformedLinks(p).next} :
          walk' = IF next = 0 THEN [walk EXCEPT !.phase = "end"]
                  ELSE [walk EXCEPT !.phase = "count", !.page = next]
    /\ UNCHANGED <<stored, changes>>

(* CursorFromContext and NewCursor: the first page has no cursor. getters says *)
(* whether the row type has GetID and GetCreatedAt.                            *)
NewCursor(per, desc, getters) ==
    /\ walk.phase = "none"
    /\ walk' = [NoWalk EXCEPT !.phase = "keyset", !.kind = "keyset", !.per = per, !.desc = desc, !.getters = getters,
                              !.stayed = Present]
    /\ UNCHANGED <<stored, changes>>
(* buildCursor: a row without getters leaves the value null and the id 0.      *)
buildCursorNoId(r) == [value |-> stored[r], id |-> 0]         \* mutant of buildCursor
buildCursor(r) == IF walk.getters THEN KeyOf(r) ELSE NoCursor
(* The condition of the query: nothing compares with null.                     *)
AfterCursor(first) ==
    IF first THEN Present
    ELSE {r \in Present : walk.cursor.value # 0 /\ Before(walk.desc, walk.cursor, KeyOf(r))}
CursorPaginate(first) ==
    LET per == GetPerPage(walk.per)
        found == Limited(Ordered(AfterCursor(first), walk.desc), 0, per + 1)
        hasMore == Len(found) > per
        items == IF hasMore THEN SubSeq(found, 1, per) ELSE found IN
    walk' = [walk EXCEPT !.phase = IF hasMore THEN "more" ELSE "end", !.seen = @ \o items,
                         !.cursor = IF hasMore THEN buildCursor(items[per]) ELSE NoCursor]
FirstKeyset == walk.phase = "keyset" /\ CursorPaginate(TRUE) /\ UNCHANGED <<stored, changes>>
NextKeyset == walk.phase = "more" /\ CursorPaginate(FALSE) /\ UNCHANGED <<stored, changes>>

Leave == walk.phase = "end" /\ walk' = NoWalk /\ UNCHANGED <<stored, changes>>

Changed == \/ \E r \in Row, t \in Stamp : InsertRow(r, t)
           \/ \E r \in Row : DeleteRow(r)
PaginationNext ==
    \/ Changed
    \/ \E page \in PageAsked, per \in PerPageAsked : FromContext(page, per)
    \/ CountRows \/ FindPage \/ FollowNext
    \/ \E per \in PerPageAsked, desc, getters \in BOOLEAN : NewCursor(per, desc, getters)
    \/ FirstKeyset \/ NextKeyset \/ Leave

PaginationSpec == PaginationInit /\ [][PaginationNext]_paginationVars

-------------------------------------------------------------------------------
(* A walk over keyset pages, of rows with getters, returns every row that was  *)
(* there all along exactly once, however rows come and go meanwhile            *)
(* (CursorPaginator: "Consistent results even when data changes"). A walk over *)
(* numbered pages from the first one does so when nothing changed meanwhile.   *)
WalkIsComplete ==
    LET steady == CASE walk.kind = "keyset" -> walk.getters
                    [] walk.kind = "numbered" -> walk.quiet /\ walk.start = 1
                    [] OTHER -> FALSE IN
    /\ steady => IsInjective(walk.seen)
    /\ steady /\ walk.phase = "end" => walk.stayed \subseteq ToSet(walk.seen)

(* A page within the last one, when no row came or went since its request,     *)
(* holds exactly the rows From..To that its metadata announces, is the one     *)
(* active link, and names the next page exactly when rows are left.            *)
PageIsAsAnnounced ==
    LET p == walk.paginator IN
    walk.phase = "page" /\ walk.quiet /\ p.currentPage <= p.lastPage =>
        /\ Len(p.items) = (IF p.total = 0 THEN 0 ELSE To(p) - From(p) + 1)
        /\ p.items = Limited(Ordered(Present, FALSE), From(p) - 1, Len(p.items)) \/ p.total = 0
        /\ GetLinks(p) = TransformedLinks(p)
        /\ Cardinality({i \in DOMAIN Links(p) : Links(p)[i].active}) = 1
        /\ (GetLinks(p).next # 0) <=> (To(p) < p.total)

(* The window of page links, for up to 16 pages and every current page, past   *)
(* the last one too: pages in strict order, an ellipsis exactly where pages    *)
(* are left out, the first and last two and those beside the current one.      *)
WindowAsMeant ==
    \A last \in 1..16, current \in 1..18 :
        LET w == getURLWindow([NoPaginator EXCEPT !.lastPage = last, !.currentPage = current])
            shown == ToSet(w) \ {0 - 1} IN
        /\ \A i \in 1..Len(w) - 1 : w[i] > 0 /\ w[i + 1] > 0 => w[i + 1] = w[i] + 1
        /\ \A i \in 2..Len(w) - 1 : w[i] < 0 => w[i - 1] > 0 /\ w[i + 1] > w[i - 1] + 1
        /\ {1, last} \cup {q \in current - 2..current + 2 : q \in 1..last} \subseteq shown
        /\ w[1] = 1 /\ w[Len(w)] = last

(* What the package promises of a page, a walk and its links.                  *)
PaginationSound ==
    /\ WalkIsComplete /\ PageIsAsAnnounced
    /\ walk.phase = "none" /\ changes = 0 => WindowAsMeant
===============================================================================
