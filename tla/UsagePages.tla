------------------------------- MODULE UsagePages -------------------------------
(***************************************************************************)
(* The pages that show usage (UsageOverview, RequestEvents, KeyUsage) in   *)
(* the tabs of one browser: filters that the URL gives, else the memory in *)
(* localStorage, which the tabs share; and the loads that each change of   *)
(* the query starts, whose answers come in any order.                      *)
(*                                                                         *)
(* Between a new route and the page at rest a tab renders, and then runs   *)
(* its effects; another tab may act between any two of these steps.        *)
(*                                                                         *)
(* A behaviour follows one page and session type, for each has a memory of *)
(* its own.  The parameters that are remembered are "range" ("window" on   *)
(* KeyUsage), whose default is never written into the URL, and "key_id",   *)
(* which stands for the others.  What is not remembered is "spot": the     *)
(* number of the events' page, or on KeyUsage the key of the path.         *)
(***************************************************************************)
EXTENDS Naturals, Sequences

CONSTANTS
    Tabs,           \* tabs of one browser
    Keys,           \* values of "key_id"
    MaxMoves        \* bound: what the users of the tabs do

VARIABLES
    kind,           \* the page: "overview", "events" or "key"
    memory,         \* localStorage: the remembered parameters
    url,            \* per tab: the parameters of its route, or Away
    effective,      \* per tab: effectiveParams, memoized by the last render
    phase,          \* per tab: what React has to do: "render", "effect" or "rest"
    queried,        \* per tab: the query that the effect last loaded
    loads,          \* per tab: loads under way, oldest first
    busy,           \* per tab: "loading"
    failed,         \* per tab: an error is shown
    shown,          \* per tab: the query whose answer is shown
    moves,
    asked,          \* ghost, per tab: the filters its user has asked for
    last,           \* ghost: the filters last in force in a tab
    crossed,        \* ghost: tabs in whose unrendered route another tab's filters got
    stale           \* ghost: tabs that show an answer a newer one had preceded

vars == <<kind, memory, url, effective, phase, queried, loads, busy, failed, shown, moves,
          asked, last, crossed, stale>>

(* "" is an absent parameter, "7d" the default range.                       *)
Ranges == {"", "7d", "24h"}
Params == [range: Ranges, key_id: Keys \cup {""}]
Urls == [range: Ranges, key_id: Keys \cup {""}, spot: {1, 2}]
Away == [range |-> "", key_id |-> "", spot |-> 0]
NoParams == [range |-> "", key_id |-> ""]

(* Addresses of the page under study.                                       *)
Addresses == {u \in Urls : /\ kind = "overview" => u.spot = 1
                           /\ kind = "key" => u.key_id = ""}

Mounted(t) == url[t] # Away

(* selectFilterParams, hasFilterParams, readUsageRange.                     *)
Filters(u) == [range |-> u.range, key_id |-> u.key_id]
HasFilterParams(u) == Filters(u) # NoParams
Meant(u) == [range |-> IF u.range = "" THEN "7d" ELSE u.range, key_id |-> u.key_id]

(* What a load asks for: KeyUsage loads both of its windows at once.        *)
Query(u) == IF kind = "key" THEN [filters |-> Meant(NoParams), spot |-> u.spot]
            ELSE [filters |-> Meant(u), spot |-> u.spot]
NoAnswer == Query(Away)

(* The part of an address that useSearchParams reads.                       *)
Search(u) == [filters |-> Filters(u), page |-> IF kind = "key" THEN 0 ELSE u.spot]

(* patchSearchParams: a default is deleted.                                 *)
Patched(u, range, key, spot) ==
    [range |-> IF range = "7d" THEN "" ELSE range, key_id |-> key, spot |-> spot]

(* effectiveParams: a URL with a filter is taken as it is, another is       *)
(* completed from the memory m.                                             *)
EffectiveParams(u, m) ==
    IF HasFilterParams(u) THEN u
    ELSE [range |-> m.range, key_id |-> m.key_id, spot |-> u.spot]

Init ==
    /\ kind \in {"overview", "events", "key"}
    /\ memory = NoParams
    /\ url = [t \in Tabs |-> Away]
    /\ effective = [t \in Tabs |-> Away]
    /\ phase = [t \in Tabs |-> "rest"]
    /\ queried = [t \in Tabs |-> NoAnswer]
    /\ loads = [t \in Tabs |-> <<>>]
    /\ busy = [t \in Tabs |-> FALSE]
    /\ failed = [t \in Tabs |-> FALSE]
    /\ shown = [t \in Tabs |-> NoAnswer]
    /\ moves = 0
    /\ asked = [t \in Tabs |-> Meant(NoParams)]
    /\ last = Meant(NoParams)
    /\ crossed = {}
    /\ stale = {}

Move == moves < MaxMoves /\ moves' = moves + 1

(* React has rendered, and run its effects, before the tab's next event.    *)
AtRest(t) == phase[t] = "rest"

(* A route without filters is yet to be completed from the memory.          *)
Pending(t) == phase[t] = "render" /\ ~HasFilterParams(url[t])

(* The tab writes the filters of p.  They get into the routes that other    *)
(* tabs have pending, whatever these were meant to show; own are the tabs   *)
(* whose routes were met by such a write before.                            *)
Writes(t, p, own) ==
    /\ memory' = Filters(p)
    /\ last' = Meant(p)
    /\ crossed' = own \cup {s \in Tabs \ {t} : Pending(s)}

(* The tab's route becomes u.  The parameters are memoized for as long as   *)
(* the search is the same, and with them the path of KeyUsage alone runs    *)
(* the effect again; the same address does nothing.                         *)
Routes(t, u) ==
    /\ url' = [url EXCEPT ![t] = u]
    /\ \/ /\ ~Mounted(t) \/ Search(u) # Search(url[t])
          /\ phase' = [phase EXCEPT ![t] = "render"]
          /\ UNCHANGED effective
       \/ /\ Mounted(t) /\ Search(u) = Search(url[t]) /\ u # url[t]
          /\ phase' = [phase EXCEPT ![t] = "effect"]
          /\ effective' = [effective EXCEPT ![t].spot = u.spot]
       \/ /\ u = url[t]
          /\ UNCHANGED <<phase, effective>>

(* A link, Back, Forward or a bookmark: any address, with filters or none.  *)
(* Without it asks for the filters last in force, unless the tab has its    *)
(* own for this search.                                                     *)
Arrive(t) ==
    /\ AtRest(t) /\ Move
    /\ \E u \in Addresses :
        /\ Routes(t, u)
        /\ IF Mounted(t) /\ Search(u) = Search(url[t]) THEN UNCHANGED <<asked, crossed>>
           ELSE /\ asked' = [asked EXCEPT ![t] = IF HasFilterParams(u) THEN Meant(u) ELSE last]
                /\ crossed' = crossed \ {t}
    /\ UNCHANGED <<kind, memory, last, queried, loads, busy, failed, shown, stale>>

(* The hook's parameters are computed: the memory is that of this moment.   *)
Render(t) ==
    /\ phase[t] = "render"
    /\ effective' = [effective EXCEPT ![t] = EffectiveParams(url[t], memory)]
    /\ phase' = [phase EXCEPT ![t] = "effect"]
    /\ UNCHANGED <<kind, memory, url, queried, loads, busy, failed, shown, moves, asked, last,
                   crossed, stale>>

(* load: asks for q; the loads under way go on.                             *)
Starts(t, q) ==
    /\ loads' = [loads EXCEPT ![t] = Append(@, [query |-> q, passed |-> FALSE])]
    /\ busy' = [busy EXCEPT ![t] = TRUE]
    /\ failed' = [failed EXCEPT ![t] = FALSE]

(* The effect of a page depends on every part of its query.                 *)
(* Mutant: it misses the page's number or the key.                          *)
MissingDependency(t) ==
    queried[t] = NoAnswer \/ Query(effective[t]).filters # queried[t].filters
Depends(t) == queried[t] = NoAnswer \/ Query(effective[t]) # queried[t]

(* The effects of the hook and of the page: the parameters are remembered   *)
(* and put into the route, which is then rendered again, and the page loads *)
(* if its query is new.                                                     *)
Effect(t) ==
    /\ phase[t] = "effect"
    /\ Writes(t, effective[t], crossed)
    /\ url' = [url EXCEPT ![t] = effective[t]]
    /\ phase' = [phase EXCEPT ![t] = IF effective[t] = url[t] THEN "rest" ELSE "render"]
    /\ IF Depends(t)
       THEN Starts(t, Query(effective[t])) /\ queried' = [queried EXCEPT ![t] = Query(effective[t])]
       ELSE UNCHANGED <<loads, busy, failed, queried>>
    /\ UNCHANGED <<kind, effective, shown, moves, asked, stale>>

(* The page is left; its loads find nobody.                                 *)
Leave(t) ==
    /\ Mounted(t) /\ AtRest(t) /\ Move
    /\ url' = [url EXCEPT ![t] = Away]
    /\ effective' = [effective EXCEPT ![t] = Away]
    /\ queried' = [queried EXCEPT ![t] = NoAnswer]
    /\ loads' = [loads EXCEPT ![t] = <<>>]
    /\ busy' = [busy EXCEPT ![t] = FALSE]
    /\ failed' = [failed EXCEPT ![t] = FALSE]
    /\ shown' = [shown EXCEPT ![t] = NoAnswer]
    /\ stale' = stale \ {t}
    /\ crossed' = crossed \ {t}
    /\ asked' = [asked EXCEPT ![t] = Meant(NoParams)]
    /\ UNCHANGED <<kind, memory, phase, last>>

(* updateFilters: the memory first, or a filter set back to its default     *)
(* would be completed from it.                                              *)
(* Mutant: the memory is left to the effect.                                *)
UpdateRouteOnly(t, next) ==
    /\ Routes(t, next)
    /\ last' = Meant(next)
    /\ crossed' = crossed \ {t}
    /\ UNCHANGED memory

UpdateFilters(t, next) == Writes(t, next, crossed \ {t}) /\ Routes(t, next)

(* The controls are disabled, and on KeyUsage not there, while the page is  *)
(* busy.                                                                    *)
Ready(t) == Mounted(t) /\ AtRest(t) /\ ~busy[t]

(* KeyUsage has the two windows to choose from, the others ranges and keys. *)
Choices == [range: Ranges \ {""}, key_id: IF kind = "key" THEN {""} ELSE Keys \cup {""}]

(* Another filter starts again at the first of the events' two pages.       *)
ChooseFilter(t) ==
    /\ Ready(t) /\ Move
    /\ \E choice \in Choices :
        /\ UpdateFilters(t, Patched(effective[t], choice.range, choice.key_id,
                                    IF kind = "events" THEN 1 ELSE effective[t].spot))
        /\ asked' = [asked EXCEPT ![t] = choice]
    /\ UNCHANGED <<kind, queried, loads, busy, failed, shown, stale>>

(* The other page, of what is filtered now.                                 *)
TurnPage(t) ==
    /\ kind = "events" /\ Ready(t) /\ shown[t] # NoAnswer /\ Move
    /\ UpdateFilters(t, [effective[t] EXCEPT !.spot = 3 - @])
    /\ asked' = [asked EXCEPT ![t] = Meant(effective[t])]
    /\ UNCHANGED <<kind, queried, loads, busy, failed, shown, stale>>

Refresh(t) ==
    /\ kind # "key" /\ Ready(t) /\ Move
    /\ Starts(t, Query(effective[t]))
    /\ UNCHANGED <<kind, memory, url, effective, phase, queried, shown, asked, last, crossed, stale>>

(* A load ends, whichever it is.  KeyUsage stays busy until its newest ends,*)
(* the others until any does; all of them show what they are given.         *)
Ends(t, i) ==
    /\ loads' = [loads EXCEPT ![t] =
                    [j \in 1 .. Len(@) - 1 |->
                        IF j < i THEN [@[j] EXCEPT !.passed = TRUE] ELSE @[j + 1]]]
    /\ stale' = IF loads[t][i].passed THEN stale \cup {t} ELSE stale \ {t}
    /\ UNCHANGED <<kind, memory, url, effective, phase, queried, moves, asked, last, crossed>>

Idle(t, i) == [busy EXCEPT ![t] = @ /\ kind = "key" /\ i # Len(loads[t])]

Answered(t, i) ==
    /\ Ends(t, i)
    /\ shown' = [shown EXCEPT ![t] = loads[t][i].query]
    /\ busy' = Idle(t, i)
    /\ UNCHANGED failed

(* Mutant: a failure does not end the loading.                              *)
FailedBusy(t, i) ==
    /\ Ends(t, i)
    /\ failed' = [failed EXCEPT ![t] = TRUE]
    /\ UNCHANGED <<shown, busy>>

Failed(t, i) ==
    /\ Ends(t, i)
    /\ failed' = [failed EXCEPT ![t] = TRUE]
    /\ busy' = Idle(t, i)
    /\ UNCHANGED shown

Answers(t) == \E i \in DOMAIN loads[t] : Answered(t, i) \/ Failed(t, i)

Next == \E t \in Tabs : \/ Arrive(t) \/ Leave(t) \/ ChooseFilter(t) \/ TurnPage(t) \/ Refresh(t)
                        \/ Render(t) \/ Effect(t) \/ Answers(t)

Spec == Init /\ [][Next]_vars

(* Every request is answered or fails in the end.                           *)
FairSpec == Spec /\ \A t \in Tabs : WF_vars(Answers(t))

(***************************************************************************)
(* Properties.                                                             *)
(***************************************************************************)

Queries == [filters: Params, spot: {0, 1, 2}]

(* Every variable keeps its type; the events' page is one that exists, a    *)
(* page that was left has no load, and no key is remembered where there is  *)
(* none to choose.                                                          *)
TypeOK ==
    /\ kind \in {"overview", "events", "key"}
    /\ memory \in Params /\ last \in Params
    /\ kind = "key" => memory.key_id = ""
    /\ url \in [Tabs -> Addresses \cup {Away}]
    /\ effective \in [Tabs -> Addresses \cup {Away}]
    /\ phase \in [Tabs -> {"render", "effect", "rest"}]
    /\ queried \in [Tabs -> Queries]
    /\ loads \in [Tabs -> Seq([query: Queries, passed: BOOLEAN])]
    /\ \A t \in Tabs : loads[t] # <<>> => Mounted(t)
    /\ busy \in [Tabs -> BOOLEAN] /\ failed \in [Tabs -> BOOLEAN]
    /\ shown \in [Tabs -> Queries]
    /\ asked \in [Tabs -> Params] /\ moves \in Nat
    /\ crossed \subseteq Tabs /\ stale \subseteq Tabs

(* The filters in force in a tab at rest, which its URL tells too, are      *)
(* those its user asked for: an explicit URL's (usageFilterMemory.ts:100),  *)
(* the choice made in the controls, its default included, and on arrival    *)
(* without filters at another search those last in force in any tab.  A     *)
(* route without filters that another tab's write met before it was         *)
(* rendered takes that tab's filters instead, a choice of the defaults too. *)
FiltersAsAsked ==
    \A t \in Tabs \ crossed : Mounted(t) /\ AtRest(t) =>
        Meant(effective[t]) = asked[t] /\ url[t] = effective[t]

(* A page with nothing under way and no error shows the answer to the query *)
(* of its URL, unless an older answer came after a newer one.               *)
QuietShowsAsked ==
    \A t \in Tabs : Mounted(t) /\ AtRest(t) /\ loads[t] = <<>> /\ ~failed[t] /\ t \notin stale
                        => shown[t] = Query(url[t])

(* A page that is loading stops loading, whatever fails and whatever its    *)
(* user does meanwhile.                                                     *)
LoadingEnds == \A t \in Tabs : busy[t] ~> ~busy[t]

================================================================================
