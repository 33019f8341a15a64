------------------------------ MODULE MCTooling -------------------------------
(* What the server is built with: plugins and starters, the calendar of its     *)
(* schedule, pagination, the cache and the event bus. A behaviour plays one of  *)
(* them, the scene it begins with.                                              *)
EXTENDS Naturals, Sequences, TLC

CONSTANTS
    pNeeded, pNeeding, Plugin, Theme, Absent, MaxFaults,
    Base, Optional, Stranger, CoreAssets, Shell,
    Minutes, Hours, Days, MaxCalls,
    Row, Stamp, PageAsked, PerPageAsked, DefaultPerPage, MaxPerPage, MaxInt, MaxChanges,
    CacheKey, Shared, Rememberer, Nil, MaxEntries, MaxBytes, MaxItemBytes, CacheTTL, MaxSecond,
    Priority, Publisher, MaxSubscriptions, MaxRetries

VARIABLES
    scene,
    tree, offered, staged, original, cmd, template, before, outcome, manual, pluginEdits, faults,
    depends, file, shell, registry, starterEdits,
    field, meaning, expression, calls,
    stored, changes, walk,
    lru, recency, second, flight, remember,
    handlers, subscribed, busClosed, publication, strays

(* Plugin q requires p in both of its versions, and a file is renamed between  *)
(* versions; starters ship one asset each; the environment file names three    *)
(* optional starters in any order, an unknown one, or has two lines.           *)
PluginNeeds == [x \in Plugin |-> [n \in 1..2 |-> IF x = pNeeding THEN {pNeeded} ELSE {}]]
PluginFiles == <<{"main", "old"}, {"main", "new"}>>
StarterAssets == [n \in Optional \cup {Base} |-> {n}]
o1 == CHOOSE o \in Optional : TRUE
o2 == CHOOSE o \in Optional \ {o1} : TRUE
o3 == CHOOSE o \in Optional \ {o1, o2} : TRUE
EnvironmentFiles == {<<<<o2, o1, o3>>>>, <<<<Stranger>>>>, <<<<o1>>, <<o2>>>>}

(* Patterns and names, part by part: one wildcard, and any number of parts.    *)
SubscribedPattern == {<<"a", "*">>, <<"**", "b">>, <<"a", "**", "b">>, <<"a", "**">>}
EventName == {<<"a">>, <<"a", "b">>, <<"b", "a", "b">>}

P == INSTANCE PluginRegistry WITH edits <- pluginEdits,
         Needs <- PluginNeeds, Includes <- <<pNeeded, pNeeding>>, Ships <- PluginFiles, MaxEdits <- 1
S == INSTANCE Starters WITH edits <- starterEdits,
         Ships <- StarterAssets, InitialFile <- EnvironmentFiles, MaxEdits <- 1
E == INSTANCE ScheduleCalendar
G == INSTANCE Pagination
C == INSTANCE Cache
B == INSTANCE EventBus

ASSUME ToolingAssumption ==
    /\ P!ManifestAssumption /\ G!PaginationAssumption
    /\ C!CapacityAssumption

pluginsVars == <<tree, offered, staged, original, cmd, template, before, outcome, manual, pluginEdits, faults>>
startersVars == <<depends, file, shell, registry, starterEdits>>
calendarVars == <<field, meaning, expression, calls>>
paginationVars == <<stored, changes, walk>>
cacheVars == <<lru, recency, second, flight, remember>>
busVars == <<handlers, subscribed, busClosed, publication, strays>>
vars == <<scene, pluginsVars, startersVars, calendarVars, paginationVars, cacheVars, busVars>>

Init ==
    /\ scene \in {"plugins", "starters", "calendar", "pagination", "cache", "bus"}
    /\ P!RegistryInit
    /\ S!StartersInit
    /\ E!Init
    /\ G!PaginationInit
    /\ C!CacheInit
    /\ B!BusInit
    /\ scene # "starters" => depends = [o \in Optional |-> {}] /\ file = <<<<Stranger>>>>

PluginsScene ==
    /\ scene = "plugins" /\ P!RegistryNext
    /\ UNCHANGED <<scene, startersVars, calendarVars, paginationVars, cacheVars, busVars>>
StartersScene ==
    /\ scene = "starters" /\ S!StartersNext
    /\ UNCHANGED <<scene, pluginsVars, calendarVars, paginationVars, cacheVars, busVars>>
CalendarScene ==
    /\ scene = "calendar" /\ E!Next
    /\ UNCHANGED <<scene, pluginsVars, startersVars, paginationVars, cacheVars, busVars>>
PaginationScene ==
    /\ scene = "pagination" /\ G!PaginationNext
    /\ UNCHANGED <<scene, pluginsVars, startersVars, calendarVars, cacheVars, busVars>>
CacheScene ==
    /\ scene = "cache" /\ C!CacheNext
    /\ UNCHANGED <<scene, pluginsVars, startersVars, calendarVars, paginationVars, busVars>>
BusScene ==
    /\ scene = "bus" /\ B!BusNext
    /\ UNCHANGED <<scene, pluginsVars, startersVars, calendarVars, paginationVars, cacheVars>>

Next ==
    \/ PluginsScene \/ StartersScene \/ CalendarScene \/ PaginationScene \/ CacheScene
    \/ BusScene

Spec == Init /\ [][Next]_vars

(* A failed plugin command leaves the tree as it was, requirements hold and    *)
(* the contract matches the lock; and no command drops what the builder wrote  *)
(* (install, update, upgrade, remove).                                         *)
RegistrySound == [](scene = "plugins" => P!RegistrySound) /\ P!EditsKept

(* Starters are assembled after what they depend on, with one owner an asset,  *)
(* and starter commands leave exactly the selection asked for.                 *)
StartersSound == [](scene = "starters" => S!AssemblyOrdered) /\ S!RewriteIsExact

(* What is computed from numbers comes out as it is meant: an expression is    *)
(* due at the minutes its builder calls mean; a page holds the rows its        *)
(* metadata announces, a walk over keyset pages returns every row that stayed  *)
(* once, and the window of links has no gap without an ellipsis (Event, IsDue, *)
(* Paginate, CursorPaginate, getURLWindow).                                    *)
ComputedSound ==
    /\ scene = "calendar" => E!DueAsMeant
    /\ scene = "pagination" => G!PaginationSound

(* The list of the cache is the order of use, within both limits, and two      *)
(* misses never load twice (LRU, Remember).                                    *)
CacheSound == scene = "cache" => C!ListIsRecency /\ C!NoRedundantLoad

(* A publication calls, in order, exactly the handlers that were subscribed    *)
(* when it began and whose pattern means its name (Publish, matchParts).       *)
BusSound == scene = "bus" => B!DeliveredInOrder
===============================================================================
