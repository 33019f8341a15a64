------------------------------- MODULE Comments -------------------------------
(* The comments plugin (registry/plugins/comments): root comments and replies  *)
(* on the resources of one organization, edited under an optimistic version,   *)
(* erased in place when deleted, and mention notifications published after the *)
(* comment is stored.  A request reads first (access, parent, the current      *)
(* comment), then writes in one transaction, then publishes; requests of       *)
(* several members interleave between these steps.                             *)
EXTENDS Naturals, FiniteSets

CONSTANTS
    Author,        \* members of the organization
    Mentionable,   \* the members that mentions name
    Moderator,     \* the members whose role manages the organization
    Resource,      \* commentable resources
    CommentId,     \* 1..n: bigserial identities, in the order of creation
    NoComment,     \* no parent
    Nobody,        \* the author of a comment whose account is gone
    MaxPosts       \* bound: requests

CommentsAssumption == CommentId \subseteq Nat /\ NoComment \notin CommentId

VARIABLES
    comment,       \* [CommentId -> commentPO]
    posting,       \* [Author -> the request under way]
    told,          \* mention notifications published, or logged as failed: <<comment, member>>
    posts          \* requests so far

commentsVars == <<comment, posting, told, posts>>

(* commentPO.  body is only whether there is one.                              *)
NoRow == [status |-> "none", resource |-> NoComment, parent |-> NoComment, author |-> Nobody,
          body |-> FALSE, mentions |-> {}, version |-> 0]
IsDeleted(c) == comment[c].status = "deleted"
IsLive(c) == comment[c].status = "live"
IsRoot(c) == comment[c].parent = NoComment
Stored == {c \in CommentId : comment[c].status # "none"}

Resting == [step |-> "idle", id |-> NoComment, resource |-> NoComment, parent |-> NoComment,
            mentions |-> {}, version |-> 0, before |-> {}]

CommentsInit ==
    /\ comment = [c \in CommentId |-> NoRow]
    /\ posting = [a \in Author |-> Resting]
    /\ told = {} /\ posts = 0

Free(a) == posting[a].step = "idle"
Begins(a) == Free(a) /\ posts < MaxPosts /\ posts' = posts + 1
Post(a, request) == posting' = [posting EXCEPT ![a] = request]

-------------------------------------------------------------------------------
(* threadRoot: a reply to a reply joins its root's thread.                     *)
ParentFits(parent, r) == IsLive(parent) /\ comment[parent].resource = r
ThreadRoot(parent) == IF IsRoot(parent) THEN parent ELSE comment[parent].parent

(* service.Create up to the transaction: access, mentions and parent are read. *)
(* Access to a resource is its checker's answer, here that it is granted.      *)
CreateChecks(a, r, parent, mentions) ==
    /\ Begins(a)
    /\ parent # NoComment => ParentFits(parent, r)
    /\ Post(a, [Resting EXCEPT !.step = "create", !.resource = r, !.mentions = mentions,
                               !.parent = IF parent = NoComment THEN NoComment ELSE ThreadRoot(parent)])
    /\ UNCHANGED <<comment, told>>

(* repository.Create: the root is locked and checked again, then the row is    *)
(* inserted with the next identity.                                            *)
RootAssumed(p, r) == TRUE                          \* mutant of RootStands
RootStands(p, r) == IsLive(p) /\ IsRoot(p) /\ comment[p].resource = r

NextId == CHOOSE c \in CommentId \ Stored : \A d \in CommentId \ Stored : c <= d

CreateStores(a) ==
    LET q == posting[a] IN
    /\ q.step = "create"
    /\ IF q.parent # NoComment /\ ~RootStands(q.parent, q.resource)
       THEN Post(a, Resting) /\ UNCHANGED comment             \* ErrInvalidParent
       ELSE /\ Stored # CommentId
            /\ comment' = [comment EXCEPT ![NextId] =
                   [status |-> "live", resource |-> q.resource, parent |-> q.parent, author |-> a,
                    body |-> TRUE, mentions |-> q.mentions, version |-> 1]]
            /\ Post(a, [Resting EXCEPT !.step = "publish", !.id = NextId, !.mentions = q.mentions])
    /\ UNCHANGED <<told, posts>>

(* service.Update up to the write: the author, and the version of If-Match.    *)
(* before is the mentions of the comment as it was read.                       *)
UpdateChecks(a, c, mentions, version) ==
    /\ Begins(a)
    /\ IsLive(c) /\ comment[c].author = a
    /\ version \in 1..comment[c].version
    /\ Post(a, [Resting EXCEPT !.step = "update", !.id = c, !.mentions = mentions,
                               !.version = version, !.before = comment[c].mentions])
    /\ UNCHANGED <<comment, told>>

(* repository.Update: one conditional statement.                               *)
UpdateMatches(c, version) == comment[c].version = version /\ IsLive(c)

UpdateStores(a) ==
    LET q == posting[a] IN
    /\ q.step = "update"
    /\ IF UpdateMatches(q.id, q.version)
       THEN /\ comment' = [comment EXCEPT ![q.id].mentions = q.mentions, ![q.id].body = TRUE,
                                          ![q.id].version = @ + 1]
            /\ Post(a, [Resting EXCEPT !.step = "publish", !.id = q.id, !.mentions = q.mentions \ q.before])
       ELSE UNCHANGED comment /\ Post(a, Resting)   \* ErrCommentNotFound, ErrVersionConflict
    /\ UNCHANGED <<told, posts>>

(* service.Delete reads the comment; repository.SoftDelete erases it.          *)
DeleteChecks(a, c) ==
    /\ Begins(a)
    /\ IsLive(c) /\ (comment[c].author = a \/ a \in Moderator)
    /\ Post(a, [Resting EXCEPT !.step = "delete", !.id = c])
    /\ UNCHANGED <<comment, told>>

DeleteStores(a) ==
    LET c == posting[a].id IN
    /\ posting[a].step = "delete"
    /\ IF IsLive(c)
       THEN comment' = [comment EXCEPT ![c].status = "deleted", ![c].body = FALSE,
                                       ![c].mentions = {}, ![c].version = @ + 1]
       ELSE UNCHANGED comment
    /\ Post(a, Resting)
    /\ UNCHANGED <<told, posts>>

(* publishMentions: never the author, once per comment and member (the         *)
(* idempotency key); a failure is only logged.                                 *)
PublishMentions(a) ==
    LET q == posting[a] IN
    /\ q.step = "publish"
    /\ told' = told \cup {<<q.id, m>> : m \in q.mentions \ {a}}
    /\ Post(a, Resting)
    /\ UNCHANGED <<comment, posts>>

(* The author's account is deleted: the foreign key sets author_id to null.    *)
AuthorLeaves(a) ==
    /\ Free(a)
    /\ \E c \in Stored : comment[c].author = a
    /\ comment' = [c \in CommentId |-> IF comment[c].author = a THEN [comment[c] EXCEPT !.author = Nobody]
                                       ELSE comment[c]]
    /\ UNCHANGED <<posting, told, posts>>

CommentsNext ==
    \E a \in Author :
        \/ CreateStores(a) \/ UpdateStores(a) \/ DeleteStores(a) \/ PublishMentions(a) \/ AuthorLeaves(a)
        \/ \E r \in Resource, parent \in Stored \cup {NoComment}, m \in SUBSET Mentionable : CreateChecks(a, r, parent, m)
        \/ \E c \in Stored : \/ DeleteChecks(a, c)
                             \/ \E m \in SUBSET Mentionable, v \in 1..MaxPosts : UpdateChecks(a, c, m, v)

CommentsSpec == CommentsInit /\ [][CommentsNext]_commentsVars

-------------------------------------------------------------------------------
(* A deleted comment holds no text and no mentions, however late the edits in  *)
(* flight when it was deleted; every comment has an older live-or-erased root  *)
(* of its own resource, and threads are one level deep.                        *)
ThreadsSound ==
    \A c \in Stored :
        /\ IsDeleted(c) => ~comment[c].body /\ comment[c].mentions = {}
        /\ ~IsRoot(c) => LET p == comment[c].parent IN
                         p \in Stored /\ p < c /\ IsRoot(p) /\ comment[p].resource = comment[c].resource

(* Once its requests are over, everyone a live comment mentions was told of    *)
(* it, or the failure was logged: an edit publishes exactly the mentions it    *)
(* added, though it compares with a comment it read before its write.          *)
MentionsTold ==
    \A c \in Stored :
        (IsLive(c) /\ \A a \in Author : posting[a].id # c) =>
            \A m \in comment[c].mentions \ {comment[c].author} :
                <<c, m>> \in told \/ comment[c].author = Nobody

CommentsSound == ThreadsSound /\ MentionsTold

(* A reply never lands on a comment that is not a live root, though its parent *)
(* was checked before the transaction.                                         *)
RepliesOnLiveRoots ==
    [][\A c \in CommentId :
          (comment[c].status = "none" /\ comment'[c].status = "live" /\ comment'[c].parent # NoComment)
             => IsLive(comment'[c].parent) /\ IsRoot(comment'[c].parent)]_commentsVars
===============================================================================
