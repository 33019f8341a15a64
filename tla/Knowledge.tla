------------------------------ MODULE Knowledge -------------------------------
(* The knowledge base plugin (registry/plugins/knowledge-base): articles that  *)
(* managers write under an optimistic version (ETag and If-Match), and keyset  *)
(* pages, newest first.                                                        *)
EXTENDS Naturals, FiniteSets

CONSTANTS
    ArticleId,      \* 1..n: bigserial identities, in the order of creation
    Manager,        \* members who may write
    ArticlePage,    \* limit: articles on a page
    MaxRevisions    \* bound: updates of all articles

KnowledgeAssumption ==
    /\ IsFiniteSet(ArticleId) /\ ArticleId = 1 .. Cardinality(ArticleId)
    /\ ArticlePage \in Nat \ {0}

VARIABLES
    article,        \* [ArticleId -> articlePO]; version 0 before, status "gone" after
    copy,           \* [Manager -> the article and version it has read]
    revisions,      \* updates so far
    page            \* one reader: where its cursor is, what it has seen, what was there throughout

knowledgeVars == <<article, copy, revisions, page>>

NoArticle == [status |-> "none", version |-> 0, revision |-> 0]
NoCopy == [id |-> 0, version |-> 0, revision |-> 0]
NotReading == [reading |-> FALSE, after |-> 0, seen |-> {}, stable |-> {}]
Articles == {i \in ArticleId : article[i].status = "live"}
Written == {i \in ArticleId : article[i].status # "none"}

KnowledgeInit ==
    /\ article = [i \in ArticleId |-> NoArticle]
    /\ copy = [m \in Manager |-> NoCopy]
    /\ revisions = 0 /\ page = NotReading

(* The statements of the repository.                                           *)
InsertArticle ==
    LET i == CHOOSE k \in ArticleId \ Written : \A l \in ArticleId \ Written : k <= l IN
    article' = [article EXCEPT ![i] = [status |-> "live", version |-> 1, revision |-> 0]]
Matches(i, version) == i \in Articles /\ article[i].version = version
SaveArticle(i, version, r) ==
    Matches(i, version) /\ article' = [article EXCEPT ![i].version = @ + 1, ![i].revision = r]
EraseArticle(i, version) ==
    Matches(i, version) /\ article' = [article EXCEPT ![i].status = "gone"]

CreateArticle ==
    /\ Written # ArticleId /\ InsertArticle
    /\ UNCHANGED <<copy, revisions, page>>

(* Get: the handler answers the version as ETag.                               *)
GetArticle(m, i) ==
    /\ i \in Articles
    /\ copy' = [copy EXCEPT ![m] = [id |-> i, version |-> article[i].version, revision |-> article[i].revision]]
    /\ UNCHANGED <<article, revisions, page>>

(* Update stores what the manager made of its copy, or answers a conflict.     *)
UpdateArticle(m) ==
    LET c == copy[m] IN
    /\ c.id # 0 /\ revisions < MaxRevisions
    /\ SaveArticle(c.id, c.version, revisions + 1)
    /\ copy' = [copy EXCEPT ![m] = NoCopy]
    /\ revisions' = revisions + 1
    /\ UNCHANGED page

DeleteArticle(m) ==
    LET c == copy[m] IN
    /\ c.id # 0
    /\ EraseArticle(c.id, c.version)
    /\ copy' = [copy EXCEPT ![m] = NoCopy]
    /\ page' = [page EXCEPT !.stable = @ \ {c.id}]
    /\ UNCHANGED revisions

(* missOrConflict: the manager reads again.                                    *)
Conflict(m) ==
    /\ copy[m].id # 0 /\ ~Matches(copy[m].id, copy[m].version)
    /\ copy' = [copy EXCEPT ![m] = NoCopy]
    /\ UNCHANGED <<article, revisions, page>>

-------------------------------------------------------------------------------
(* List: the limit + 1 newest articles below the cursor; the extra one says    *)
(* whether there is a next page.                                               *)
Below(after) == {i \in Articles : after = 0 \/ i < after}
Newest(S, n) == {i \in S : Cardinality({j \in S : j > i}) < n}
NextCursor(S) ==
    IF Cardinality(S) > ArticlePage
    THEN CHOOSE i \in Newest(S, ArticlePage) : \A j \in Newest(S, ArticlePage) : i <= j
    ELSE 0

StartReading ==
    /\ ~page.reading
    /\ page' = [reading |-> TRUE, after |-> 0, seen |-> {}, stable |-> Articles]
    /\ UNCHANGED <<article, copy, revisions>>

ReadPage ==
    LET rows == Below(page.after) IN
    /\ page.reading
    /\ page' = [page EXCEPT !.seen = @ \cup Newest(rows, ArticlePage),
                            !.after = NextCursor(rows), !.reading = NextCursor(rows) # 0]
    /\ UNCHANGED <<article, copy, revisions>>

KnowledgeNext ==
    \/ CreateArticle \/ StartReading \/ ReadPage
    \/ \E m \in Manager : UpdateArticle(m) \/ DeleteArticle(m) \/ Conflict(m)
    \/ \E m \in Manager, i \in ArticleId : GetArticle(m, i)

KnowledgeSpec == KnowledgeInit /\ [][KnowledgeNext]_knowledgeVars

-------------------------------------------------------------------------------
(* No update is lost: what a manager overwrites or deletes is the text it had  *)
(* read, whoever else wrote in between.                                        *)
NoLostArticle ==
    [][\A m \in Manager :
          (UpdateArticle(m) \/ DeleteArticle(m)) => article[copy[m].id].revision = copy[m].revision]_knowledgeVars

(* A reader that followed the cursors to the end has seen every article that   *)
(* was there all the time, with articles created, changed and deleted          *)
(* meanwhile.                                                                  *)
ArticlesAllListed == ~page.reading => page.stable \subseteq page.seen
===============================================================================
