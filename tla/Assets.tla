-------------------------------- MODULE Assets --------------------------------
(* One private asset (api/internal/modules/asset): its row, its objects in *)
(* the store (staging, which upload grants write to, and final), and the  *)
(* operations that lease the row, work on the objects, and finish fenced. *)
EXTENDS Naturals, FiniteSets

CONSTANTS
  Good, Bad,      \* contents an upload may bring: acceptable or not
  NoObject,       \* the store holds nothing under the key
  AssetWorker,    \* requests and prunes that overlap
  AssetLease,     \* assetOperationLease
  PendingTTL, GrantTTL, \* policy
  Overrun,        \* TRUE: an operation may go on when its lease is over
  MaxTick         \* bound: the clock stops here

AssetsAssumption ==
  /\ NoObject \notin Good \cup Bad /\ Overrun \in BOOLEAN /\ "free" \notin AssetWorker
  /\ AssetLease \in Nat \ {0} /\ PendingTTL \in Nat \ {0} /\ GrantTTL \in Nat \ {0}

VARIABLES
  asset,    \* the row of assets
  staging, final, \* the objects
  job,      \* operations under way, by the request that runs them
  tick,     \* the time
  granted,  \* uploads are accepted before this time
  ownerLeft \* the account of the owner is deleted

assetsVars == <<asset, staging, final, job, tick, granted, ownerLeft>>

NoJob == [at |-> "none"]
NoLeaseholder == "free"
FreshAsset == [status |-> "none", checksum |-> NoObject, expires |-> 0, stagingKey |-> FALSE,
               finalKey |-> FALSE, op |-> NoLeaseholder, until |-> 0]

AssetsInit ==
  /\ asset = FreshAsset
  /\ staging = NoObject /\ final = NoObject
  /\ job = [w \in AssetWorker |-> NoJob]
  /\ tick = 0 /\ granted = 0 /\ ownerLeft = FALSE

Goes(w, at) == job' = [job EXCEPT ![w].at = at]
Ends(w) == job' = [job EXCEPT ![w] = NoJob]

(* An operation works on objects within its lease, unless it overruns. *)
InLease(w) == Overrun \/ tick < job[w].until

-----------------------------------------------------------------------------
(* CreateUploadIntent: the same key again gets a new grant while pending. *)
CreateUploadIntent ==
  /\ ~ownerLeft
  /\ \/ /\ asset.status = "none"
        /\ asset' = [FreshAsset EXCEPT !.status = "pending", !.expires = tick + PendingTTL,
                                       !.stagingKey = TRUE, !.finalKey = TRUE]
     \/ asset.status = "pending" /\ asset.expires > tick /\ UNCHANGED asset
  /\ granted' = tick + GrantTTL
  /\ UNCHANGED <<staging, final, job, tick, ownerLeft>>

(* The client stores what it likes, as long as its grant lasts. *)
Upload(content) ==
  /\ tick < granted /\ staging' = content
  /\ UNCHANGED <<asset, final, job, tick, granted, ownerLeft>>

(* claim: no lease, or one that is over. *)
Claim(w, kind) ==
  /\ job[w] = NoJob
  /\ asset.op = NoLeaseholder \/ asset.until <= tick
  /\ asset' = [asset EXCEPT !.op = w, !.until = tick + AssetLease]
  /\ job' = [job EXCEPT ![w] = [at |-> kind, until |-> tick + AssetLease, seen |-> asset, sum |-> NoObject]]
  /\ UNCHANGED <<staging, final, tick, granted, ownerLeft>>

ClaimCompletion(w) ==
  /\ asset.status = "pending" /\ asset.expires > tick /\ Claim(w, "stat")
ClaimDeletion(w) ==
  /\ asset.status \in {"pending", "ready", "rejected"} /\ Claim(w, "delete")
ClaimPrune(w) ==
  /\ asset.expires <= tick
  /\ \/ asset.status \in {"pending", "rejected", "deleted"} /\ (asset.stagingKey \/ asset.finalKey)
     \/ asset.status = "ready" /\ asset.stagingKey
  /\ Claim(w, "prune")

-----------------------------------------------------------------------------
(* Complete. The staged bytes are frozen under the final key first; an    *)
(* earlier attempt may have done that already.                            *)
StatSource(w) ==
  /\ job[w].at = "stat" /\ InLease(w)
  /\ Goes(w, IF staging # NoObject THEN "copy" ELSE IF final # NoObject THEN "inspect" ELSE "reject")
  /\ UNCHANGED <<asset, staging, final, tick, granted, ownerLeft>>

CopyToFinal(w) ==
  /\ job[w].at = "copy" /\ InLease(w) /\ staging # NoObject
  /\ final' = staging /\ Goes(w, "inspect")
  /\ UNCHANGED <<asset, staging, tick, granted, ownerLeft>>

Inspect(w) ==
  /\ job[w].at = "inspect" /\ InLease(w) /\ final # NoObject
  /\ job' = [job EXCEPT ![w].at = IF final \in Good THEN "drop" ELSE "reject", ![w].sum = final]
  /\ UNCHANGED <<asset, staging, final, tick, granted, ownerLeft>>

(* The staged object is removed as far as that works. *)
DropStaging(w) ==
  /\ job[w].at = "drop" /\ InLease(w)
  /\ staging' \in {staging, NoObject} /\ Goes(w, "ready")
  /\ UNCHANGED <<asset, final, tick, granted, ownerLeft>>

DropBoth(w) ==
  /\ job[w].at = "reject" /\ InLease(w)
  /\ staging' \in {staging, NoObject} /\ final' \in {final, NoObject} /\ Goes(w, "rejected")
  /\ UNCHANGED <<asset, tick, granted, ownerLeft>>

(* Delete, and a prune of anything but a ready asset; a ready one keeps   *)
(* its final object.                                                      *)
DeleteObjects(w) ==
  /\ job[w].at \in {"delete", "prune"} /\ InLease(w)
  /\ \/ job[w].at = "delete" /\ final' = NoObject /\ Goes(w, "deleted")
     \/ /\ job[w].at = "prune" /\ Goes(w, "pruned")
        /\ final' = IF job[w].seen.status = "ready" THEN final ELSE NoObject
  /\ staging' = NoObject
  /\ UNCHANGED <<asset, tick, granted, ownerLeft>>

-----------------------------------------------------------------------------
(* finish: the row is written only under the token of the lease.          *)
Released == [asset EXCEPT !.op = NoLeaseholder, !.until = 0]
Finished(w) ==
  CASE job[w].at = "ready" -> [Released EXCEPT !.status = "ready", !.checksum = job[w].sum]
    [] job[w].at = "rejected" -> [Released EXCEPT !.status = "rejected", !.checksum = NoObject]
    [] job[w].at = "deleted" -> [Released EXCEPT !.status = "deleted", !.checksum = NoObject]
    [] job[w].at = "pruned" ->
         [Released EXCEPT !.status = IF @ = "pending" THEN "rejected" ELSE @,
                          !.stagingKey = FALSE,
                          !.finalKey = IF job[w].seen.status = "ready" THEN @ ELSE FALSE]

(* Mutant of Finish: by id alone. *)
FinishUnfenced(w) ==
  /\ job[w].at \in {"ready", "rejected", "deleted", "pruned"}
  /\ asset' = Finished(w) /\ Ends(w)
  /\ UNCHANGED <<staging, final, tick, granted, ownerLeft>>

Finish(w) ==
  /\ job[w].at \in {"ready", "rejected", "deleted", "pruned"}
  /\ asset' = IF asset.op = w THEN Finished(w) ELSE asset
  /\ Ends(w)
  /\ UNCHANGED <<staging, final, tick, granted, ownerLeft>>

(* An error on the way gives the lease back. *)
ReleaseOperation(w) ==
  /\ job[w] # NoJob
  /\ asset' = IF asset.op = w THEN Released ELSE asset
  /\ Ends(w)
  /\ UNCHANGED <<staging, final, tick, granted, ownerLeft>>

(* The process dies, or even that fails: the lease has to run out. *)
WorkerDies(w) ==
  /\ job[w] # NoJob /\ Ends(w)
  /\ UNCHANGED <<asset, staging, final, tick, granted, ownerLeft>>

(* CheckAccountDeletion: only when no asset is left but deleted ones. *)
OwnerLeaves ==
  /\ ~ownerLeft /\ asset.status \in {"none", "deleted"}
  /\ ownerLeft' = TRUE
  /\ UNCHANGED <<asset, staging, final, job, tick, granted>>

TickPasses ==
  /\ tick < MaxTick /\ tick' = tick + 1
  /\ UNCHANGED <<asset, staging, final, job, granted, ownerLeft>>

-----------------------------------------------------------------------------
Complete(w) == ClaimCompletion(w) \/ StatSource(w) \/ CopyToFinal(w) \/ Inspect(w)
               \/ DropStaging(w) \/ DropBoth(w)
DeleteAsset(w) == ClaimDeletion(w) \/ DeleteObjects(w)
PruneAsset(w) == ClaimPrune(w)

AssetsNext ==
  \/ CreateUploadIntent \/ OwnerLeaves \/ TickPasses
  \/ \E content \in Good \cup Bad : Upload(content)
  \/ \E w \in AssetWorker : Complete(w) \/ DeleteAsset(w) \/ PruneAsset(w)
                            \/ Finish(w) \/ ReleaseOperation(w) \/ WorkerDies(w)
AssetsSpec == AssetsInit /\ [][AssetsNext]_assetsVars

-----------------------------------------------------------------------------
(* What a ready asset serves is what was inspected, whatever is uploaded   *)
(* meanwhile, wherever an earlier attempt died. (While it is deleted, its  *)
(* object goes first.)                                                     *)
ReadyIsInspected ==
  asset.status = "ready" /\ final # NoObject => final = asset.checksum /\ final \in Good

(* A deleted asset stays deleted and its final object does not return. *)
DeletedIsGone ==
  [][asset.status = "deleted" => asset'.status = "deleted" /\ final' = NoObject]_assetsVars
=============================================================================
