------------------------------ MODULE MCServices ------------------------------
(* The services: usage, settings, assets, rate limits, the comments, tags and  *)
(* knowledge-base plugins, and what a server is brought up with, migrations    *)
(* and configuration. A behaviour plays one of them, the scene it begins with. *)
EXTENDS Naturals, TLC

CONSTANTS
    EventId, Amount, Meter, MaxSafe, DefaultLimit, NoLimit, MaxEventAge, FutureSkew, Retention, Period,
    MaxMoment, MaxQuotas,
    SettingScope, Choice, Default, Editor, MaxEdits,
    Good, Bad, NoObject, AssetWorker, AssetLease, PendingTTL, GrantTTL, Overrun, MaxTick,
    Identity, Replica, Desks, NoBucket, Quota, Window, MaxBuckets, CleanupEvery, CleanupBatch, FailureIs, MaxTime,
    Author, Mentionable, Moderator, Resource, CommentId, NoComment, Nobody, MaxPosts,
    Tag, TagName, Tagged, Tagger, MaxTagVersion, MaxTagIds,
    ArticleId, Manager, ArticlePage, MaxRevisions,
    Migration, MaxOperations,
    Environment, Production, Number, Junk, NoConfig

VARIABLES
    scene,
    receipt, counter, quota, owner, meter, moment, total, recorded, recounted,
    override, edit, settingOwner,
    asset, staging, final, job, tick, granted, ownerLeft,
    bucket, local, cleaner, customer, time, sharedSpent, localSpent, cleaned,
    comment, posting, told, posts,
    tag, assigned, tagging, etag,
    article, copy, revisions, page,
    tableExists, records, schema, migrator, torn, operations,
    group, files, malformed, ignore, process, applied, loaded, appEnv, config, current, configEdits

U == INSTANCE Usage
T == INSTANCE Settings WITH owner <- settingOwner
A == INSTANCE Assets
R == INSTANCE RateLimiter
D == INSTANCE Comments
G == INSTANCE Tags
W == INSTANCE Knowledge
M == INSTANCE Migrations WITH Production <- TRUE
C == INSTANCE Configuration WITH edits <- configEdits, MaxEdits <- 2

ASSUME ServicesAssumption ==
    /\ U!UsageAssumption /\ T!SettingsAssumption /\ A!AssetsAssumption
    /\ R!RateLimitAssumption /\ D!CommentsAssumption /\ G!TagsAssumption /\ W!KnowledgeAssumption

usageVars == <<receipt, counter, quota, owner, meter, moment, total, recorded, recounted>>
settingsVars == <<override, edit, settingOwner>>
assetsVars == <<asset, staging, final, job, tick, granted, ownerLeft>>
ratesVars == <<bucket, local, cleaner, customer, time, sharedSpent, localSpent, cleaned>>
commentsVars == <<comment, posting, told, posts>>
tagsVars == <<tag, assigned, tagging, etag>>
knowledgeVars == <<article, copy, revisions, page>>
migrationsVars == <<tableExists, records, schema, migrator, torn, operations>>
configurationVars == <<group, files, malformed, ignore, process, applied, loaded, appEnv, config, current, configEdits>>
vars == <<scene, usageVars, settingsVars, assetsVars, ratesVars, commentsVars, tagsVars,
            knowledgeVars, migrationsVars, configurationVars>>

Init ==
    /\ scene \in {"usage", "settings", "assets", "rates", "comments", "tags", "knowledge",
            "migrations", "configuration"}
    /\ U!UsageInit
    /\ T!SettingsInit
    /\ A!AssetsInit
    /\ R!RateInit
    /\ D!CommentsInit
    /\ G!TagsInit
    /\ W!KnowledgeInit
    /\ M!MigrationInit
    /\ C!ConfigurationInit
    /\ scene # "configuration" => group = "queue" /\ ignore = FALSE
    /\ ignore => group = "queue"

UsageScene ==
    /\ scene = "usage" /\ U!UsageNext
    /\ UNCHANGED <<scene, settingsVars, assetsVars, ratesVars, commentsVars, tagsVars,
            knowledgeVars, migrationsVars, configurationVars>>
SettingsScene ==
    /\ scene = "settings" /\ T!SettingsNext
    /\ UNCHANGED <<scene, usageVars, assetsVars, ratesVars, commentsVars, tagsVars, knowledgeVars,
            migrationsVars, configurationVars>>
AssetsScene ==
    /\ scene = "assets" /\ A!AssetsNext
    /\ UNCHANGED <<scene, usageVars, settingsVars, ratesVars, commentsVars, tagsVars,
            knowledgeVars, migrationsVars, configurationVars>>
RatesScene ==
    /\ scene = "rates" /\ R!RateNext
    /\ UNCHANGED <<scene, usageVars, settingsVars, assetsVars, commentsVars, tagsVars,
            knowledgeVars, migrationsVars, configurationVars>>
CommentsScene ==
    /\ scene = "comments" /\ D!CommentsNext
    /\ UNCHANGED <<scene, usageVars, settingsVars, assetsVars, ratesVars, tagsVars, knowledgeVars,
            migrationsVars, configurationVars>>
TagsScene ==
    /\ scene = "tags" /\ G!TagsNext
    /\ UNCHANGED <<scene, usageVars, settingsVars, assetsVars, ratesVars, commentsVars,
            knowledgeVars, migrationsVars, configurationVars>>
KnowledgeScene ==
    /\ scene = "knowledge" /\ W!KnowledgeNext
    /\ UNCHANGED <<scene, usageVars, settingsVars, assetsVars, ratesVars, commentsVars, tagsVars,
            migrationsVars, configurationVars>>
MigrationsScene ==
    /\ scene = "migrations" /\ M!MigrationNext
    /\ UNCHANGED <<scene, usageVars, settingsVars, assetsVars, ratesVars, commentsVars, tagsVars,
            knowledgeVars, configurationVars>>
ConfigurationScene ==
    /\ scene = "configuration" /\ C!ConfigurationNext
    /\ UNCHANGED <<scene, usageVars, settingsVars, assetsVars, ratesVars, commentsVars, tagsVars,
            knowledgeVars, migrationsVars>>

Next ==
    \/ UsageScene \/ SettingsScene \/ AssetsScene \/ RatesScene \/ CommentsScene
    \/ TagsScene \/ KnowledgeScene \/ MigrationsScene \/ ConfigurationScene

Spec == Init /\ [][Next]_vars

(* Counters are exact, a fact counts once whatever is pruned, a quota holds,   *)
(* nothing is left of a deleted owner, and no two requests wait for each other *)
(* (Record, Consume, SetQuota, PruneReceipts, DeleteUserData).                 *)
UsageSound ==
    /\ [](scene = "usage" => U!CounterExact /\ U!RecordedOnce /\ U!NothingAfterDeletion /\ U!NoLockCycle)
    /\ U!QuotaHeld

(* A client replaces the value it has seen, and a deleted account leaves no    *)
(* setting (Set, Reset and the account's deletion).                            *)
SettingsSound == []T!NoSettingOfNobody /\ T!NoLostSetting

(* A ready asset serves what was inspected, and a deleted one stays so, with   *)
(* late uploads, lost leases and workers that die (FinalizePending, Prune).    *)
AssetsSound == []A!ReadyIsInspected /\ A!DeletedIsGone

(* Nobody is admitted beyond the quota in a window, and clean-ups are spaced   *)
(* (PostgresStore.Take, MemoryStore.Take, scheduleCleanup).                    *)
RatesSound == []R!QuotaKept /\ R!CleanupSpaced

(* The plugins that keep content: threads are sound, mentions told, and        *)
(* replies land on live roots; assignments are of tags that exist and exactly  *)
(* the set asked for; no article's update is lost and pages miss none          *)
(* (comments, tags and knowledge-base repositories).                           *)
ContentSound ==
    /\ [](scene = "comments" => D!CommentsSound) /\ D!RepliesOnLiveRoots
    /\ []G!AssignmentsSound /\ G!ReplacementIsExact
    /\ []W!ArticlesAllListed /\ W!NoLostArticle

(* A migration that is recorded was applied and one that was applied is        *)
(* recorded, unless a run was torn between the two, and batches are recorded   *)
(* in order (Migrator.Run, Rollback, Reset, Refresh, Fresh).                   *)
MigrationsSound == M!RecordsMatchSchema /\ M!RecordsInOrder

(* A getter answers what the highest layer assigns after any edits and         *)
(* reloads, and the timers in force nest (env.LoadFresh, Config.validate).     *)
ConfigurationSound == scene = "configuration" => C!ConfigurationSound
===============================================================================
