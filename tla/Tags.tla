--------------------------------- MODULE Tags ---------------------------------
(* The tags plugin (registry/plugins/tags): an organization's tags, changed    *)
(* under an optimistic version, and their assignments to resources.  A         *)
(* replacement of a resource's tags is a transaction of several statements;    *)
(* it holds an advisory lock on the resource and share locks on the tags it    *)
(* assigns.  Other transactions run between its statements.                    *)
EXTENDS Naturals, FiniteSets

CONSTANTS
    Tag,            \* tag identities
    TagName,        \* names, up to case
    Tagged,         \* the resources of registered types
    Tagger,         \* requests that can be under way at a time
    MaxTagVersion,  \* bound: versions of a tag
    MaxTagIds       \* maxTagsPerResource

TagsAssumption == IsFiniteSet(Tag) /\ MaxTagIds \in Nat

VARIABLES
    tag,            \* [Tag -> tagPO], version 0 when there is none (an id is used once)
    assigned,       \* tag_assignments: <<resource, tag>>
    tagging,        \* [Tagger -> the replacement or detachment under way]
    etag            \* versions clients have read: <<tag, version>>

tagsVars == <<tag, assigned, tagging, etag>>

NoTag == [version |-> 0, name |-> "none"]
DeletedTag == [version |-> 0, name |-> "deleted"]
NoTagging == [step |-> "idle", resource |-> "none", want |-> {}, previous |-> {}, stale |-> {}]
Exists(t) == tag[t].version > 0
Carried(r) == {t \in Tag : <<r, t>> \in assigned}

TagsInit ==
    /\ tag = [t \in Tag |-> NoTag]
    /\ assigned = {}
    /\ tagging = [w \in Tagger |-> NoTagging]
    /\ etag = {}

-------------------------------------------------------------------------------
(* Locks: lockResource's advisory lock, and SELECT ... FOR SHARE on the tags.  *)
(* A deletion waits for the assignments a replacement has deleted, too.        *)
InTransaction(w) == tagging[w].step \in {"locked", "shared", "read", "cleared"}
ResourceFree(r) == \A w \in Tagger : ~(InTransaction(w) /\ tagging[w].resource = r)
HeldShared(t) == \E w \in Tagger : tagging[w].step \in {"shared", "read", "cleared"} /\ t \in tagging[w].want
HeldStale(t) == \E w \in Tagger : tagging[w].step = "cleared" /\ t \in tagging[w].stale
LockResource(r) == ResourceFree(r)

-------------------------------------------------------------------------------
(* The tags themselves.  The unique index is on the lowercase name.            *)
NameTaken(n, except) == \E t \in Tag \ except : Exists(t) /\ tag[t].name = n

VersionMatches(t, v) == Exists(t) /\ tag[t].version = v

CreateRow(t, n) == ~NameTaken(n, {}) /\ tag' = [tag EXCEPT ![t] = [version |-> 1, name |-> n]]
UpdateRow(t, v, n) ==
    /\ VersionMatches(t, v) /\ ~NameTaken(n, {t})
    /\ tag' = [tag EXCEPT ![t] = [version |-> v + 1, name |-> n]]
(* The foreign key deletes the tag's assignments with it.                      *)
DeleteRow(t, v) ==
    /\ VersionMatches(t, v)
    /\ tag' = [tag EXCEPT ![t] = DeletedTag]
    /\ assigned' = {x \in assigned : x[2] # t}

(* The requests, with the version of If-Match. Each answer carries the ETag of *)
(* the version it shows.                                                       *)
CreateTag(t, n) ==
    /\ tag[t] = NoTag /\ CreateRow(t, n)
    /\ etag' = etag \cup {<<t, 1>>}
    /\ UNCHANGED <<assigned, tagging>>

ReadTag(t) ==
    /\ Exists(t)
    /\ etag' = etag \cup {<<t, tag[t].version>>}
    /\ UNCHANGED <<tag, assigned, tagging>>

(* An update or a deletion waits for the replacements that share the tag.      *)
UpdateTag(t, v, n) ==
    /\ <<t, v>> \in etag /\ v < MaxTagVersion /\ ~HeldShared(t)
    /\ UpdateRow(t, v, n)
    /\ etag' = etag \cup {<<t, v + 1>>}
    /\ UNCHANGED <<assigned, tagging>>

DeleteTag(t, v) ==
    /\ <<t, v>> \in etag /\ ~HeldShared(t) /\ ~HeldStale(t)
    /\ DeleteRow(t, v)
    /\ UNCHANGED <<tagging, etag>>

-------------------------------------------------------------------------------
(* ReplaceResourceTags.  checkResource is the registered checker's answer.     *)
Step(w, s) == tagging' = [tagging EXCEPT ![w].step = s]

ReplaceBegins(w, r, ids) ==
    /\ tagging[w].step = "idle"
    /\ Cardinality(ids) <= MaxTagIds
    /\ tagging' = [tagging EXCEPT ![w] = [NoTagging EXCEPT !.step = "replace", !.resource = r, !.want = ids]]
    /\ UNCHANGED <<tag, assigned, etag>>

ReplaceLocks(w) ==
    /\ tagging[w].step = "replace" /\ LockResource(tagging[w].resource)
    /\ Step(w, "locked")
    /\ UNCHANGED <<tag, assigned, etag>>

(* Every tag must be there, or the transaction is rolled back.                 *)
ReplaceShares(w) ==
    /\ tagging[w].step = "locked"
    /\ IF \A t \in tagging[w].want : Exists(t)
       THEN Step(w, "shared")
       ELSE tagging' = [tagging EXCEPT ![w] = NoTagging]     \* ErrInvalidAssignment
    /\ UNCHANGED <<tag, assigned, etag>>

ReplaceReads(w) ==
    /\ tagging[w].step = "shared"
    /\ tagging' = [tagging EXCEPT ![w].step = "read", ![w].previous = Carried(tagging[w].resource)]
    /\ UNCHANGED <<tag, assigned, etag>>

(* The assignments that go are deleted, as this statement finds them, those    *)
(* not there before inserted, and the transaction commits.                     *)
ReplaceClears(w) ==
    LET q == tagging[w] IN
    /\ q.step = "read"
    /\ tagging' = [tagging EXCEPT ![w].step = "cleared", ![w].stale = Carried(q.resource) \ q.want]
    /\ UNCHANGED <<tag, assigned, etag>>

ReplaceCommits(w) ==
    LET q == tagging[w] IN
    /\ q.step = "cleared"
    /\ assigned' = {x \in assigned : ~(x[1] = q.resource /\ x[2] \in q.stale)}
                     \cup {<<q.resource, t>> : t \in q.want \ q.previous}
    /\ tagging' = [tagging EXCEPT ![w] = NoTagging]
    /\ UNCHANGED <<tag, etag>>

(* The checker does not find the resource, a statement fails, or the request   *)
(* is cancelled: the transaction is rolled back.                               *)
ReplaceFails(w) ==
    /\ tagging[w].step # "idle"
    /\ tagging' = [tagging EXCEPT ![w] = NoTagging]
    /\ UNCHANGED <<tag, assigned, etag>>

(* DetachResource, which owning modules call when they delete a resource.      *)
DetachResource(r) ==
    /\ LockResource(r) /\ Carried(r) # {}
    /\ assigned' = {x \in assigned : x[1] # r}
    /\ UNCHANGED <<tag, tagging, etag>>

TagsNext ==
    \/ \E t \in Tag : ReadTag(t) \/ \E n \in TagName : CreateTag(t, n)
    \/ \E t \in Tag, v \in 1..MaxTagVersion : DeleteTag(t, v) \/ \E n \in TagName : UpdateTag(t, v, n)
    \/ \E w \in Tagger : ReplaceLocks(w) \/ ReplaceShares(w) \/ ReplaceReads(w) \/ ReplaceClears(w) \/ ReplaceCommits(w)
                           \/ ReplaceFails(w)
    \/ \E w \in Tagger, r \in Tagged, ids \in SUBSET Tag : ReplaceBegins(w, r, ids)
    \/ \E r \in Tagged : DetachResource(r)

TagsSpec == TagsInit /\ [][TagsNext]_tagsVars

-------------------------------------------------------------------------------
(* Every assignment is of a tag that exists, with deletions running beside     *)
(* replacements, and no resource carries more than maxTagsPerResource tags:    *)
(* concurrent replacements never add up.                                       *)
AssignmentsSound ==
    /\ \A x \in assigned : Exists(x[2])
    /\ \A r \in Tagged : Cardinality(Carried(r)) <= MaxTagIds

(* A replacement leaves exactly the set it was asked for.                      *)
ReplacementIsExact ==
    [][\A w \in Tagger : ReplaceCommits(w) => {t \in Tag : <<tagging[w].resource, t>> \in assigned'} = tagging[w].want]_tagsVars
===============================================================================
