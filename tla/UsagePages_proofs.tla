--------------------------- MODULE UsagePages_proofs ---------------------------
(***************************************************************************)
(* UsagePages for any number of tabs, keys and moves.                      *)
(***************************************************************************)
EXTENDS UsagePages, TLAPS

Loads == [query: Queries, passed: BOOLEAN]

--------------------------------------------------------------------------------
(* The operators on addresses.                                               *)

(* What an address consists of, and what makes one.                          *)
LEMMA AddressParts ==
    ASSUME NEW u \in Addresses
    PROVE  /\ u \in Urls
           /\ u = [range |-> u.range, key_id |-> u.key_id, spot |-> u.spot]
           /\ u.range \in Ranges /\ u.key_id \in Keys \cup {""} /\ u.spot \in {1, 2}
           /\ kind = "overview" => u.spot = 1
           /\ kind = "key" => u.key_id = ""
  BY DEF Addresses, Urls

LEMMA IsAddress ==
    ASSUME NEW r \in Ranges, NEW k \in Keys \cup {""}, NEW n \in {1, 2},
           kind = "overview" => n = 1, kind = "key" => k = ""
    PROVE  [range |-> r, key_id |-> k, spot |-> n] \in Addresses
  <1>1. [range |-> r, key_id |-> k, spot |-> n] \in Urls
    BY DEF Urls
  <1> QED
    BY <1>1 DEF Addresses

(* What the hook makes of an address and a memory is an address of the page *)
(* with the same spot; it stands for the address's filters if there are any *)
(* and for the memory's otherwise.                                          *)
LEMMA EffectiveAddress ==
    ASSUME NEW u \in Addresses, NEW m \in Params, kind = "key" => m.key_id = ""
    PROVE  /\ EffectiveParams(u, m) \in Addresses
           /\ Meant(EffectiveParams(u, m)) =
                IF HasFilterParams(u) THEN Meant(u) ELSE Meant(m)
  <1>1. m.range \in Ranges /\ m.key_id \in Keys \cup {""}
    BY DEF Params
  <1>2. CASE HasFilterParams(u)
    BY <1>2 DEF EffectiveParams
  <1>3. CASE ~HasFilterParams(u)
    <2> DEFINE e == [range |-> m.range, key_id |-> m.key_id, spot |-> u.spot]
    <2>1. EffectiveParams(u, m) = e
      BY <1>3 DEF EffectiveParams
    <2>2. e \in Addresses
      BY <1>1, AddressParts, IsAddress
    <2>3. Meant(e) = Meant(m)
      BY DEF Meant
    <2> QED
      BY <1>3, <2>1, <2>2, <2>3
  <1> QED
    BY <1>2, <1>3

LEMMA MeantTyped ==
    ASSUME NEW r \in Ranges, NEW k \in Keys \cup {""}
    PROVE  [range |-> IF r = "" THEN "7d" ELSE r, key_id |-> k] \in Params
  BY DEF Params, Ranges

LEMMA FiltersTyped ==
    ASSUME NEW u \in Addresses
    PROVE  /\ Filters(u) \in Params
           /\ kind = "key" => Filters(u).key_id = ""
           /\ Meant(Filters(u)) = Meant(u)
           /\ Meant(u) \in Params
           /\ Query(u) \in Queries
           /\ u # Away
  <1>1. u.range \in Ranges /\ u.key_id \in Keys \cup {""} /\ u.spot \in {1, 2}
    BY AddressParts
  <1>2. Filters(u) \in Params
    BY <1>1 DEF Filters, Params
  <1>3. kind = "key" => Filters(u).key_id = ""
    BY AddressParts DEF Filters
  <1>4. Meant(Filters(u)) = Meant(u)
    BY DEF Meant, Filters
  <1>5. Meant(u) \in Params
    BY <1>1, MeantTyped DEF Meant
  <1>6. Meant(NoParams) \in Params
    BY DEF Meant, NoParams, Params, Ranges
  <1>7. Query(u) \in Queries
    BY <1>1, <1>5, <1>6 DEF Query, Queries
  <1>8. u # Away
    <2>1. Away.spot = 0
      BY DEF Away
    <2>2. u.spot = 1 \/ u.spot = 2
      BY <1>1, Zenon
    <2> QED
      BY <2>1, <2>2
  <1> QED
    BY <1>2, <1>3, <1>4, <1>5, <1>7, <1>8

LEMMA NoLoads == <<>> \in Seq(Loads)
  OBVIOUS

(* What stands for no page at all.                                          *)
LEMMA NothingTyped ==
    /\ Meant(NoParams) \in Params /\ NoParams \in Params
    /\ NoAnswer \in Queries
  <1>1. Meant(NoParams) \in Params /\ NoParams \in Params /\ Meant(Away) \in Params
    BY DEF Meant, NoParams, Away, Params, Ranges
  <1>2. Away.spot \in {0, 1, 2}
    BY DEF Away
  <1> QED
    BY <1>1, <1>2 DEF NoAnswer, Query, Queries

(* A choice made in the controls is what the address it leads to stands for.*)
LEMMA PatchedAddress ==
    ASSUME NEW u \in Addresses, NEW choice \in Choices
    PROVE  LET next == Patched(u, choice.range, choice.key_id,
                               IF kind = "events" THEN 1 ELSE u.spot)
           IN  /\ next \in Addresses
               /\ Meant(next) = choice
               /\ choice \in Params
  <1> DEFINE r == IF choice.range = "7d" THEN "" ELSE choice.range
             n == IF kind = "events" THEN 1 ELSE u.spot
             next == [range |-> r, key_id |-> choice.key_id, spot |-> n]
  <1>1. /\ choice.range \in Ranges \ {""} /\ choice.key_id \in Keys \cup {""}
        /\ kind = "key" => choice.key_id = ""
        /\ choice = [range |-> choice.range, key_id |-> choice.key_id]
    BY DEF Choices
  <1>2. r \in Ranges
    BY <1>1 DEF Ranges
  <1>3. n \in {1, 2} /\ (kind = "overview" => n = 1)
    BY AddressParts
  <1>4. next \in Addresses
    <2> HIDE DEF r, n
    <2> QED
      BY <1>1, <1>2, <1>3, IsAddress
  <1>5. (IF r = "" THEN "7d" ELSE r) = choice.range
    BY <1>1
  <1>6. Meant(next) = choice
    <2> HIDE DEF r, n
    <2> QED
      BY <1>1, <1>5 DEF Meant
  <1>7. choice \in Params
    BY <1>1 DEF Params
  <1> QED
    BY <1>4, <1>6, <1>7 DEF Patched

LEMMA TurnedAddress ==
    ASSUME NEW u \in Addresses, kind = "events"
    PROVE  LET next == [u EXCEPT !.spot = 3 - @]
           IN  /\ next \in Addresses
               /\ Meant(next) = Meant(u)
  <1> DEFINE n == 3 - u.spot
             next == [range |-> u.range, key_id |-> u.key_id, spot |-> n]
  <1>1. /\ u = [range |-> u.range, key_id |-> u.key_id, spot |-> u.spot]
        /\ u.range \in Ranges /\ u.key_id \in Keys \cup {""} /\ u.spot \in {1, 2}
    BY AddressParts
  <1>2. n \in {1, 2}
    <2>1. CASE u.spot = 1
      BY <2>1
    <2>2. CASE u.spot = 2
      BY <2>2
    <2> QED
      BY <1>1, <2>1, <2>2
  <1>3. [u EXCEPT !.spot = n] = next
    <2> HIDE DEF n
    <2> DEFINE v == [range |-> u.range, key_id |-> u.key_id, spot |-> u.spot]
    <2>1. [v EXCEPT !.spot = n] = next
      OBVIOUS
    <2>2. u = v
      BY <1>1
    <2> HIDE DEF v, next
    <2> QED
      BY <2>1, <2>2
  <1> HIDE DEF n
  <1>4. next \in Addresses
    BY <1>1, <1>2, IsAddress
  <1>5. Meant(next) = Meant(u)
    BY DEF Meant
  <1> QED
    BY <1>3, <1>4, <1>5 DEF n

--------------------------------------------------------------------------------
(* Type correctness, and how the phase of a tab relates its route to the     *)
(* parameters memoized for it.                                               *)

Shaped(t) ==
    /\ phase[t] = "render" => Mounted(t)
    /\ phase[t] = "effect" => Mounted(t) /\ effective[t] # Away
    /\ phase[t] = "rest" => url[t] = effective[t]

TypeInv == TypeOK /\ \A t \in Tabs : Shaped(t)

LEMMA MovesTyped ==
    ASSUME TypeOK, Move
    PROVE  moves' \in Nat
  <1>1. moves \in Nat
    BY DEF TypeOK
  <1>2. moves' = moves + 1
    BY DEF Move
  <1> QED
    BY <1>1, <1>2

LEMMA TypeInit ==
    ASSUME Init
    PROVE  TypeInv
  <1>1. <<>> \in Seq([query: Queries, passed: BOOLEAN])
    OBVIOUS
  <1>2. /\ url \in [Tabs -> Addresses \cup {Away}]
        /\ effective \in [Tabs -> Addresses \cup {Away}]
        /\ \A t \in Tabs : ~(loads[t] # <<>>) /\ Shaped(t)
    BY DEF Init, Shaped
  <1>3. kind = "key" => memory.key_id = ""
    BY DEF Init, NoParams
  <1> QED
    BY <1>1, <1>2, <1>3, NothingTyped DEF Init, TypeOK, TypeInv

LEMMA StartsTyped ==
    ASSUME TypeOK, NEW t \in Tabs, NEW q \in Queries, Starts(t, q)
    PROVE  /\ loads' \in [Tabs -> Seq(Loads)]
           /\ busy' \in [Tabs -> BOOLEAN]
           /\ failed' \in [Tabs -> BOOLEAN]
  <1> DEFINE new == [query |-> q, passed |-> FALSE]
  <1>1. new \in Loads
    BY DEF Loads
  <1>2. loads[t] \in Seq(Loads)
    BY DEF TypeOK, Loads
  <1>3. Append(loads[t], new) \in Seq(Loads)
    BY <1>1, <1>2
  <1> QED
    BY <1>3 DEF Starts, TypeOK, Loads

(* The same search means the same filters; what else an address tells is    *)
(* its spot.                                                                *)
LEMMA SameSearch ==
    ASSUME NEW u \in Addresses, NEW v \in Addresses, Search(u) = Search(v)
    PROVE  Filters(u) = Filters(v) /\ Meant(u) = Meant(v)
  <1>1. Filters(u) = Filters(v)
    BY DEF Search
  <1>2. u.range = v.range /\ u.key_id = v.key_id
    BY <1>1 DEF Filters
  <1> QED
    BY <1>1, <1>2 DEF Meant

(* What a new route does to the tab: it is to be rendered, or has the       *)
(* search, and so the filters, that it had.                                 *)
LEMMA RoutesParts ==
    ASSUME TypeInv, NEW t \in Tabs, NEW u \in Addresses, AtRest(t), Routes(t, u)
    PROVE  /\ url' \in [Tabs -> Addresses \cup {Away}]
           /\ effective' \in [Tabs -> Addresses \cup {Away}]
           /\ phase' \in [Tabs -> {"render", "effect", "rest"}]
           /\ url'[t] = u /\ Mounted(t)'
           /\ \A s \in Tabs \ {t} :
                url'[s] = url[s] /\ effective'[s] = effective[s] /\ phase'[s] = phase[s]
           /\ Shaped(t)'
           /\ \/ phase'[t] = "render" /\ ~(Mounted(t) /\ Search(u) = Search(url[t]))
              \/ /\ phase'[t] \in {"effect", "rest"}
                 /\ Mounted(t) /\ Search(u) = Search(url[t])
                 /\ Meant(effective'[t]) = Meant(effective[t])
           /\ phase'[t] = "rest" => effective'[t] = effective[t]
  <1>1. /\ url' = [url EXCEPT ![t] = u] /\ u # Away
        /\ url[t] \in Addresses \cup {Away} /\ effective[t] = url[t] /\ phase[t] = "rest"
        /\ TypeOK
    BY FiltersTyped DEF Routes, TypeInv, Shaped, TypeOK, AtRest
  <1>2. url'[t] = u /\ \A s \in Tabs \ {t} : url'[s] = url[s]
    BY <1>1 DEF TypeOK
  <1>3. CASE /\ ~Mounted(t) \/ Search(u) # Search(url[t])
             /\ phase' = [phase EXCEPT ![t] = "render"]
             /\ UNCHANGED effective
    <2>1. phase'[t] = "render" /\ \A s \in Tabs \ {t} : phase'[s] = phase[s]
      BY <1>1, <1>3 DEF TypeOK
    <2>2. Shaped(t)' /\ Mounted(t)'
      BY <1>1, <1>2, <2>1 DEF Shaped, Mounted
    <2> QED
      BY <1>1, <1>2, <1>3, <2>1, <2>2 DEF TypeOK
  <1>4. CASE /\ Mounted(t) /\ Search(u) = Search(url[t]) /\ u # url[t]
             /\ phase' = [phase EXCEPT ![t] = "effect"]
             /\ effective' = [effective EXCEPT ![t].spot = u.spot]
    <2> DEFINE e == effective[t]
               new == [range |-> e.range, key_id |-> e.key_id, spot |-> u.spot]
    <2>1. e \in Addresses
      BY <1>1, <1>4 DEF Mounted
    <2>2. new \in Addresses
      BY <2>1, AddressParts, IsAddress
    <2>3. [e EXCEPT !.spot = u.spot] = new
      <3> DEFINE v == [range |-> e.range, key_id |-> e.key_id, spot |-> e.spot]
      <3>1. [v EXCEPT !.spot = u.spot] = new
        OBVIOUS
      <3>2. e = v
        BY <2>1, AddressParts
      <3> HIDE DEF v, new, e
      <3> QED
        BY <3>1, <3>2
    <2>4. Meant(new) = Meant(e)
      BY DEF Meant
    <2> HIDE DEF new
    <2>5. effective' = [effective EXCEPT ![t] = new]
      BY <1>4, <2>3
    <2>6. effective'[t] = new /\ \A s \in Tabs \ {t} : effective'[s] = effective[s]
      BY <1>1, <2>5 DEF TypeOK
    <2>7. phase'[t] = "effect" /\ \A s \in Tabs \ {t} : phase'[s] = phase[s]
      BY <1>1, <1>4 DEF TypeOK
    <2>8. Shaped(t)' /\ Mounted(t)'
      <3>1. new # Away
        BY <2>2, FiltersTyped
      <3> QED
        BY <1>1, <1>2, <2>6, <2>7, <3>1 DEF Shaped, Mounted
    <2>9. effective' \in [Tabs -> Addresses \cup {Away}]
      BY <1>1, <2>2, <2>5 DEF TypeOK
    <2> QED
      BY <1>1, <1>2, <1>4, <2>4, <2>6, <2>7, <2>8, <2>9 DEF TypeOK
  <1>5. CASE u = url[t] /\ UNCHANGED <<phase, effective>>
    <2>1. Mounted(t) /\ Search(u) = Search(url[t])
      BY <1>1, <1>5 DEF Mounted
    <2>2. Shaped(t)' /\ Mounted(t)'
      BY <1>1, <1>2, <1>5 DEF Shaped, Mounted
    <2> QED
      BY <1>1, <1>2, <1>5, <2>1, <2>2 DEF TypeOK
  <1> QED
    BY <1>3, <1>4, <1>5 DEF Routes

(* What the other tabs keep.                                                *)
LEMMA ShapedKept ==
    ASSUME NEW s \in Tabs, Shaped(s), url'[s] = url[s], effective'[s] = effective[s],
           phase'[s] = phase[s]
    PROVE  Shaped(s)'
  BY DEF Shaped, Mounted

(* A choice of filters, or of the page: the route and the memory follow it. *)
LEMMA UpdateTyped ==
    ASSUME TypeInv, NEW t \in Tabs, NEW u \in Addresses, Ready(t), UpdateFilters(t, u),
           moves' \in Nat, NEW wants \in Params, asked' = [asked EXCEPT ![t] = wants],
           UNCHANGED <<kind, queried, loads, busy, failed, shown, stale>>
    PROVE  TypeInv'
  <1>1. TypeOK /\ AtRest(t) /\ Addresses' = Addresses /\ Routes(t, u)
    BY DEF TypeInv, Ready, UpdateFilters, Addresses
  <1>2. /\ memory' = Filters(u) /\ last' = Meant(u) /\ crossed' \subseteq Tabs
    BY <1>1 DEF UpdateFilters, Writes, TypeOK
  <1>3. Filters(u) \in Params /\ Meant(u) \in Params /\ (kind = "key" => Filters(u).key_id = "")
    BY FiltersTyped
  <1>4. /\ url' \in [Tabs -> Addresses \cup {Away}]
        /\ effective' \in [Tabs -> Addresses \cup {Away}]
        /\ phase' \in [Tabs -> {"render", "effect", "rest"}]
        /\ Mounted(t)' /\ Shaped(t)'
        /\ \A s \in Tabs \ {t} :
             url'[s] = url[s] /\ effective'[s] = effective[s] /\ phase'[s] = phase[s]
    BY <1>1, RoutesParts
  <1>5. \A s \in Tabs : Shaped(s)'
    BY <1>4, ShapedKept DEF TypeInv
  <1>6. \A s \in Tabs : loads'[s] # <<>> => Mounted(s)'
    BY <1>1, <1>4 DEF TypeOK, Mounted
  <1> QED
    BY <1>1, <1>2, <1>3, <1>4, <1>5, <1>6 DEF TypeInv, TypeOK

(* A choice and a page turned are such an address, which stands for what    *)
(* the user has asked for.                                                  *)
LEMMA ChooseUpdates ==
    ASSUME TypeInv, NEW t \in Tabs, ChooseFilter(t)
    PROVE  \E u \in Addresses : /\ UpdateFilters(t, u) /\ Ready(t)
                                /\ Meant(u) \in Params
                                /\ asked' = [asked EXCEPT ![t] = Meant(u)]
  <1>1. PICK choice \in Choices :
          /\ UpdateFilters(t, Patched(effective[t], choice.range, choice.key_id,
                                      IF kind = "events" THEN 1 ELSE effective[t].spot))
          /\ asked' = [asked EXCEPT ![t] = choice]
    BY DEF ChooseFilter
  <1>2. Ready(t) /\ effective[t] \in Addresses
    <2>1. Ready(t)
      BY DEF ChooseFilter
    <2>2. url[t] = effective[t] /\ url[t] \in Addresses
      BY <2>1 DEF Ready, AtRest, Mounted, TypeInv, Shaped, TypeOK
    <2> QED
      BY <2>1, <2>2
  <1> DEFINE next == Patched(effective[t], choice.range, choice.key_id,
                             IF kind = "events" THEN 1 ELSE effective[t].spot)
  <1>3. next \in Addresses /\ Meant(next) = choice /\ choice \in Params
    BY <1>2, PatchedAddress
  <1> HIDE DEF next
  <1>4. UpdateFilters(t, next)
    BY <1>1 DEF next
  <1> QED
    BY <1>1, <1>2, <1>3, <1>4

LEMMA TurnUpdates ==
    ASSUME TypeInv, NEW t \in Tabs, TurnPage(t)
    PROVE  \E u \in Addresses : /\ UpdateFilters(t, u) /\ Ready(t)
                                /\ Meant(u) \in Params
                                /\ asked' = [asked EXCEPT ![t] = Meant(u)]
  <1>1. /\ Ready(t) /\ kind = "events"
        /\ asked' = [asked EXCEPT ![t] = Meant(effective[t])]
    BY DEF TurnPage
  <1>2. effective[t] \in Addresses
    <2>1. url[t] = effective[t] /\ url[t] \in Addresses
      BY <1>1 DEF Ready, AtRest, Mounted, TypeInv, Shaped, TypeOK
    <2> QED
      BY <2>1
  <1> DEFINE next == [effective[t] EXCEPT !.spot = 3 - @]
  <1>3. next \in Addresses /\ Meant(next) = Meant(effective[t])
    BY <1>1, <1>2, TurnedAddress
  <1>4. UpdateFilters(t, next)
    BY DEF TurnPage
  <1>5. Meant(next) \in Params
    BY <1>3, FiltersTyped
  <1> HIDE DEF next
  <1> QED
    BY <1>1, <1>3, <1>4, <1>5

(* What is left of the loads under way when one of them ends.               *)
LEMMA EndsLoads ==
    ASSUME TypeOK, NEW t \in Tabs, NEW i \in DOMAIN loads[t], Ends(t, i)
    PROVE  /\ loads' \in [Tabs -> Seq(Loads)]
           /\ \A s \in Tabs \ {t} : loads'[s] = loads[s]
           /\ Len(loads'[t]) = Len(loads[t]) - 1
           /\ \A j \in 1 .. Len(loads[t]) - 1 :
                loads'[t][j] = IF j < i THEN [loads[t][j] EXCEPT !.passed = TRUE]
                               ELSE loads[t][j + 1]
           /\ loads[t][i] \in Loads
  <1> DEFINE rest == [j \in 1 .. Len(loads[t]) - 1 |->
                         IF j < i THEN [loads[t][j] EXCEPT !.passed = TRUE]
                         ELSE loads[t][j + 1]]
  <1>1. loads[t] \in Seq(Loads) /\ Len(loads[t]) \in Nat \ {0} /\ i \in 1 .. Len(loads[t])
    <2>1. loads[t] \in Seq(Loads)
      BY DEF TypeOK, Loads
    <2> QED
      BY <2>1
  <1>2. \A j \in 1 .. Len(loads[t]) : loads[t][j] \in Loads
    BY <1>1
  <1>3. \A j \in 1 .. Len(loads[t]) - 1 : rest[j] \in Loads
    <2>1. \A l \in Loads : [l EXCEPT !.passed = TRUE] \in Loads
      BY DEF Loads
    <2>2. \A j \in 1 .. Len(loads[t]) - 1 : j \in 1 .. Len(loads[t]) /\ j + 1 \in 1 .. Len(loads[t])
      BY <1>1
    <2> QED
      BY <1>2, <2>1, <2>2
  <1>4. rest \in Seq(Loads) /\ Len(rest) = Len(loads[t]) - 1
    <2>1. PICK k \in Nat : k = Len(loads[t]) - 1
      BY <1>1
    <2>2. rest \in [1 .. k -> Loads]
      BY <1>3, <2>1
    <2> QED
      BY <2>1, <2>2
  <1>5. loads' = [loads EXCEPT ![t] = rest]
    BY DEF Ends
  <1> HIDE DEF rest
  <1>6. loads'[t] = rest /\ loads' \in [Tabs -> Seq(Loads)]
    BY <1>4, <1>5 DEF TypeOK, Loads
  <1> QED
    BY <1>1, <1>2, <1>4, <1>5, <1>6 DEF rest, TypeOK, Loads

LEMMA TypeStep ==
    ASSUME TypeInv, [Next]_vars
    PROVE  TypeInv'
  <1> USE DEF TypeInv
  <1>1. ASSUME NEW t \in Tabs, Arrive(t)
        PROVE  TypeInv'
    <2>1. PICK u \in Addresses :
            /\ Routes(t, u)
            /\ IF Mounted(t) /\ Search(u) = Search(url[t]) THEN UNCHANGED <<asked, crossed>>
               ELSE /\ asked' = [asked EXCEPT ![t] = IF HasFilterParams(u) THEN Meant(u) ELSE last]
                    /\ crossed' = crossed \ {t}
      BY <1>1 DEF Arrive
    <2>2. Meant(u) \in Params /\ last \in Params /\ Addresses' = Addresses
      BY <1>1, FiltersTyped DEF TypeOK, Arrive, Addresses
    <2>3. asked' \in [Tabs -> Params] /\ crossed' \subseteq Tabs
      BY <2>1, <2>2 DEF TypeOK
    <2>4. moves' \in Nat /\ AtRest(t)
      BY <1>1, MovesTyped DEF Arrive
    <2>5. /\ url' \in [Tabs -> Addresses \cup {Away}]
          /\ effective' \in [Tabs -> Addresses \cup {Away}]
          /\ phase' \in [Tabs -> {"render", "effect", "rest"}]
          /\ Mounted(t)' /\ Shaped(t)'
          /\ \A s \in Tabs \ {t} :
               url'[s] = url[s] /\ effective'[s] = effective[s] /\ phase'[s] = phase[s]
      BY <2>1, <2>4, RoutesParts
    <2>6. \A s \in Tabs : Shaped(s)'
      BY <2>5, ShapedKept
    <2>7. \A s \in Tabs : loads'[s] # <<>> => Mounted(s)'
      BY <1>1, <2>5 DEF TypeOK, Mounted, Arrive
    <2> QED
      BY <1>1, <2>2, <2>3, <2>4, <2>5, <2>6, <2>7 DEF Arrive, TypeOK
  <1>2. ASSUME NEW t \in Tabs, Leave(t)
        PROVE  TypeInv'
    <2>1. <<>> \in Seq(Loads) /\ Meant(NoParams) \in Params /\ NoAnswer \in Queries
      BY NoLoads, NothingTyped
    <2>2. Addresses' = Addresses /\ moves' \in Nat
      BY <1>2, MovesTyped DEF Leave, Addresses
    <2>3. \A s \in Tabs : loads'[s] # <<>> => Mounted(s)'
      BY <1>2 DEF Leave, TypeOK, Mounted
    <2>4. /\ url'[t] = Away /\ effective'[t] = Away /\ phase'[t] = "rest"
          /\ \A s \in Tabs \ {t} :
               url'[s] = url[s] /\ effective'[s] = effective[s] /\ phase'[s] = phase[s]
      BY <1>2 DEF Leave, TypeOK, AtRest
    <2>5. Shaped(t)'
      BY <2>4 DEF Shaped
    <2>6. \A s \in Tabs : Shaped(s)'
      BY <2>4, <2>5, ShapedKept
    <2> QED
      BY <1>2, <2>1, <2>2, <2>3, <2>6 DEF Leave, TypeOK, Loads
  <1>3. ASSUME NEW t \in Tabs, ChooseFilter(t) \/ TurnPage(t)
        PROVE  TypeInv'
    <2>1. PICK u \in Addresses : /\ UpdateFilters(t, u) /\ Ready(t)
                                 /\ Meant(u) \in Params
                                 /\ asked' = [asked EXCEPT ![t] = Meant(u)]
      BY <1>3, ChooseUpdates, TurnUpdates
    <2>2. moves' \in Nat /\ UNCHANGED <<kind, queried, loads, busy, failed, shown, stale>>
      BY <1>3, MovesTyped DEF ChooseFilter, TurnPage
    <2> QED
      BY <2>1, <2>2, UpdateTyped
  <1>4. ASSUME NEW t \in Tabs, Refresh(t)
        PROVE  TypeInv'
    <2>1. /\ Starts(t, Query(effective[t])) /\ Mounted(t) /\ moves' \in Nat
          /\ effective[t] \in Addresses
      <3>1. Starts(t, Query(effective[t])) /\ Mounted(t) /\ moves' \in Nat /\ AtRest(t)
        BY <1>4, MovesTyped DEF Refresh, Ready
      <3> QED
        BY <3>1 DEF AtRest, Shaped, Mounted, TypeOK
    <2>2. Query(effective[t]) \in Queries
      BY <2>1, FiltersTyped
    <2>3. loads' \in [Tabs -> Seq(Loads)] /\ busy' \in [Tabs -> BOOLEAN]
            /\ failed' \in [Tabs -> BOOLEAN]
      BY <2>1, <2>2, StartsTyped
    <2>4. \A s \in Tabs : loads'[s] # <<>> => Mounted(s)'
      BY <1>4, <2>1 DEF Refresh, Starts, TypeOK, Mounted
    <2>5. \A s \in Tabs : Shaped(s)'
      BY <1>4, ShapedKept DEF Refresh
    <2> QED
      BY <1>4, <2>1, <2>3, <2>4, <2>5 DEF Refresh, TypeOK, Loads, Addresses
  <1>5. ASSUME NEW t \in Tabs, Render(t)
        PROVE  TypeInv'
    <2> DEFINE new == EffectiveParams(url[t], memory)
    <2>1. url[t] \in Addresses /\ phase[t] = "render" /\ Mounted(t)
      BY <1>5 DEF Render, Shaped, Mounted, TypeOK
    <2>2. new \in Addresses /\ new # Away
      <3>1. new \in Addresses
        BY <2>1, EffectiveAddress DEF TypeOK
      <3> HIDE DEF new
      <3> QED
        BY <3>1, FiltersTyped
    <2> HIDE DEF new
    <2>3. effective' = [effective EXCEPT ![t] = new] /\ phase' = [phase EXCEPT ![t] = "effect"]
            /\ UNCHANGED <<kind, memory, url, queried, loads, busy, failed, shown, moves, asked,
                           last, crossed, stale>>
      BY <1>5 DEF Render, new
    <2>4. /\ effective'[t] = new /\ phase'[t] = "effect"
          /\ \A s \in Tabs \ {t} : effective'[s] = effective[s] /\ phase'[s] = phase[s]
      BY <2>3 DEF TypeOK
    <2>5. Shaped(t)'
      BY <2>1, <2>2, <2>3, <2>4 DEF Shaped, Mounted
    <2>6. \A s \in Tabs : Shaped(s)'
      BY <2>3, <2>4, <2>5, ShapedKept
    <2> QED
      BY <2>2, <2>3, <2>6 DEF TypeOK, Addresses, Mounted
  <1>6. ASSUME NEW t \in Tabs, Effect(t)
        PROVE  TypeInv'
    <2>1. /\ phase[t] = "effect" /\ Mounted(t) /\ effective[t] \in Addresses
      BY <1>6 DEF Effect, Shaped, TypeOK
    <2>2. /\ url' = [url EXCEPT ![t] = effective[t]]
          /\ phase' = [phase EXCEPT ![t] = IF effective[t] = url[t] THEN "rest" ELSE "render"]
          /\ memory' = Filters(effective[t]) /\ last' = Meant(effective[t])
          /\ crossed' = crossed \cup {s \in Tabs \ {t} : Pending(s)}
          /\ UNCHANGED <<kind, effective, shown, moves, asked, stale>>
      BY <1>6 DEF Effect, Writes
    <2>3. /\ Filters(effective[t]) \in Params /\ Meant(effective[t]) \in Params
          /\ (kind = "key" => Filters(effective[t]).key_id = "")
          /\ Query(effective[t]) \in Queries /\ effective[t] # Away
      BY <2>1, FiltersTyped
    <2>4. /\ loads' \in [Tabs -> Seq(Loads)] /\ busy' \in [Tabs -> BOOLEAN]
          /\ failed' \in [Tabs -> BOOLEAN] /\ queried' \in [Tabs -> Queries]
          /\ \A s \in Tabs \ {t} : loads'[s] = loads[s]
      <3>1. CASE Depends(t)
        <4>1. /\ Starts(t, Query(effective[t]))
              /\ queried' = [queried EXCEPT ![t] = Query(effective[t])]
          BY <1>6, <3>1 DEF Effect
        <4> QED
          BY <2>3, <4>1, StartsTyped DEF TypeOK, Starts
      <3>2. CASE ~Depends(t)
        BY <1>6, <3>2 DEF Effect, TypeOK, Loads
      <3> QED
        BY <3>1, <3>2
    <2>5. /\ url'[t] = effective[t]
          /\ \A s \in Tabs \ {t} : url'[s] = url[s] /\ phase'[s] = phase[s]
          /\ phase'[t] = IF effective[t] = url[t] THEN "rest" ELSE "render"
      BY <2>2 DEF TypeOK
    <2>6. Shaped(t)'
      BY <2>2, <2>3, <2>5 DEF Shaped, Mounted
    <2>7. \A s \in Tabs : Shaped(s)'
      BY <2>2, <2>5, <2>6, ShapedKept
    <2>8. \A s \in Tabs : loads'[s] # <<>> => Mounted(s)'
      BY <2>3, <2>4, <2>5 DEF TypeOK, Mounted
    <2>9. /\ url' \in [Tabs -> Addresses \cup {Away}] /\ Addresses' = Addresses
          /\ phase' \in [Tabs -> {"render", "effect", "rest"}]
          /\ crossed' \subseteq Tabs
      BY <2>1, <2>2 DEF TypeOK, Addresses
    <2> QED
      BY <2>2, <2>3, <2>4, <2>7, <2>8, <2>9 DEF TypeOK, Loads
  <1>7. ASSUME NEW t \in Tabs, NEW i \in DOMAIN loads[t], Answered(t, i) \/ Failed(t, i)
        PROVE  TypeInv'
    <2>1. Ends(t, i) /\ busy' = Idle(t, i)
      BY <1>7 DEF Answered, Failed
    <2>2. /\ loads' \in [Tabs -> Seq(Loads)] /\ loads[t][i] \in Loads
          /\ \A s \in Tabs \ {t} : loads'[s] = loads[s]
      BY <2>1, EndsLoads
    <2>3. loads[t] # <<>>
      OBVIOUS
    <2>4. busy' \in [Tabs -> BOOLEAN]
      BY <2>1 DEF Idle, TypeOK
    <2>5. shown' \in [Tabs -> Queries] /\ failed' \in [Tabs -> BOOLEAN]
      BY <1>7, <2>2 DEF Answered, Failed, TypeOK, Loads
    <2>6. /\ UNCHANGED <<kind, memory, url, effective, phase, queried, moves, asked, last, crossed>>
          /\ stale' \subseteq Tabs
      BY <2>1 DEF Ends, TypeOK
    <2>7. \A s \in Tabs : loads'[s] # <<>> => Mounted(s)'
      BY <2>2, <2>3, <2>6 DEF TypeOK, Mounted
    <2>8. \A s \in Tabs : Shaped(s)'
      BY <2>6, ShapedKept
    <2> QED
      BY <2>2, <2>4, <2>5, <2>6, <2>7, <2>8 DEF TypeOK, Loads, Addresses
  <1>8. CASE UNCHANGED vars
    BY <1>8 DEF vars, TypeOK, Addresses, Mounted, Shaped
  <1> QED
    BY <1>1, <1>2, <1>3, <1>4, <1>5, <1>6, <1>7, <1>8 DEF Next, Answers

(* Every variable keeps its type.                                           *)
THEOREM PagesTyped == Spec => []TypeOK
  <1>1. TypeInv => TypeOK
    BY DEF TypeInv
  <1> QED
    BY <1>1, TypeInit, TypeStep, PTL DEF Spec

--------------------------------------------------------------------------------
(* The filters in force.  The tabs share the memory, so that what was last  *)
(* in force in any of them is what a route without filters comes to; what   *)
(* the user of a tab asked for is told by its route until it is rendered,   *)
(* and by the parameters memoized from then on.                             *)

Holds(t) ==
    /\ phase[t] = "render" =>
         asked[t] = IF HasFilterParams(url[t]) THEN Meant(url[t]) ELSE last
    /\ phase[t] \in {"effect", "rest"} /\ Mounted(t) => Meant(effective[t]) = asked[t]

Held == last = Meant(memory) /\ \A t \in Tabs \ crossed : Holds(t)

HoldInv == TypeInv /\ Held

LEMMA HoldInit ==
    ASSUME Init
    PROVE  HoldInv
  <1>1. TypeInv
    BY TypeInit
  <1>2. last = Meant(memory) /\ \A t \in Tabs : ~Mounted(t) /\ phase[t] = "rest"
    BY DEF Init, Mounted
  <1> QED
    BY <1>1, <1>2 DEF HoldInv, Held, Holds

(* A write by another tab leaves a tab what it holds, unless it crosses it. *)
LEMMA HoldsKept ==
    ASSUME NEW s \in Tabs, Holds(s), url'[s] = url[s], effective'[s] = effective[s],
           phase'[s] = phase[s], asked'[s] = asked[s], last' = last \/ ~Pending(s)
    PROVE  Holds(s)'
  BY DEF Holds, Mounted, Pending, HasFilterParams, Filters, Meant

(* What was written is what is in force.                                    *)
LEMMA WritesHold ==
    ASSUME HoldInv, NEW t \in Tabs, NEW p \in Addresses, NEW own, Writes(t, p, own),
           own \ {t} = crossed \ {t},
           \A s \in Tabs \ {t} : /\ url'[s] = url[s] /\ effective'[s] = effective[s]
                                 /\ phase'[s] = phase[s] /\ asked'[s] = asked[s],
           t \notin own => Holds(t)'
    PROVE  Held'
  <1>1. /\ memory' = Filters(p) /\ last' = Meant(p)
        /\ crossed' = own \cup {s \in Tabs \ {t} : Pending(s)}
    BY DEF Writes
  <1>2. last' = Meant(memory)'
    BY <1>1, FiltersTyped DEF Meant
  <1>3. ASSUME NEW s \in Tabs \ crossed'
        PROVE  Holds(s)'
    <2>1. CASE s = t
      BY <1>1, <2>1
    <2>2. CASE s # t
      <3>1. s \notin crossed /\ ~Pending(s)
        BY <1>1, <1>3, <2>2
      <3>2. Holds(s)
        BY <3>1 DEF HoldInv, Held
      <3> QED
        BY <2>2, <3>1, <3>2, HoldsKept
    <2> QED
      BY <2>1, <2>2
  <1> QED
    BY <1>2, <1>3 DEF Held

LEMMA UpdateHolds ==
    ASSUME HoldInv, NEW t \in Tabs, NEW u \in Addresses, Ready(t), UpdateFilters(t, u),
           asked' = [asked EXCEPT ![t] = Meant(u)]
    PROVE  Held'
  <1>1. /\ TypeInv /\ AtRest(t) /\ Mounted(t) /\ Routes(t, u)
        /\ Writes(t, u, crossed \ {t}) /\ last' = Meant(u)
    BY DEF HoldInv, Ready, UpdateFilters, Writes
  <1>2. /\ url'[t] = u
        /\ \A s \in Tabs \ {t} :
             url'[s] = url[s] /\ effective'[s] = effective[s] /\ phase'[s] = phase[s]
        /\ \/ phase'[t] = "render"
           \/ /\ phase'[t] \in {"effect", "rest"}
              /\ Search(u) = Search(url[t])
              /\ Meant(effective'[t]) = Meant(effective[t])
    BY <1>1, RoutesParts
  <1>3. asked'[t] = Meant(u) /\ \A s \in Tabs \ {t} : asked'[s] = asked[s]
    BY <1>1 DEF TypeInv, TypeOK
  <1>4. url[t] = effective[t] /\ url[t] \in Addresses
    BY <1>1 DEF TypeInv, TypeOK, Shaped, AtRest, Mounted
  <1>5. Holds(t)'
    <2>1. CASE phase'[t] = "render"
      BY <1>1, <1>2, <1>3, <2>1 DEF Holds, HasFilterParams, Filters, Meant
    <2>2. CASE /\ phase'[t] \in {"effect", "rest"}
               /\ Search(u) = Search(url[t])
               /\ Meant(effective'[t]) = Meant(effective[t])
      <3>1. Meant(u) = Meant(url[t])
        BY <1>4, <2>2, SameSearch
      <3>2. Meant(effective'[t]) = asked'[t]
        BY <1>3, <1>4, <2>2, <3>1
      <3> QED
        BY <2>2, <3>2 DEF Holds, Meant
    <2> QED
      BY <1>2, <2>1, <2>2
  <1> QED
    BY <1>1, <1>2, <1>3, <1>5, WritesHold

LEMMA HoldStep ==
    ASSUME HoldInv, [Next]_vars
    PROVE  HoldInv'
  <1>1. TypeInv /\ TypeInv' /\ TypeOK
    BY TypeStep DEF HoldInv, TypeInv
  <1>2. ASSUME NEW t \in Tabs, Arrive(t)
        PROVE  Held'
    <2>1. PICK u \in Addresses :
            /\ Routes(t, u)
            /\ IF Mounted(t) /\ Search(u) = Search(url[t]) THEN UNCHANGED <<asked, crossed>>
               ELSE /\ asked' = [asked EXCEPT ![t] = IF HasFilterParams(u) THEN Meant(u) ELSE last]
                    /\ crossed' = crossed \ {t}
      BY <1>2 DEF Arrive
    <2>2. AtRest(t) /\ UNCHANGED <<memory, last>>
      BY <1>2 DEF Arrive
    <2>3. /\ url'[t] = u
          /\ \A s \in Tabs \ {t} :
               url'[s] = url[s] /\ effective'[s] = effective[s] /\ phase'[s] = phase[s]
          /\ \/ phase'[t] = "render" /\ ~(Mounted(t) /\ Search(u) = Search(url[t]))
             \/ /\ phase'[t] \in {"effect", "rest"}
                /\ Mounted(t) /\ Search(u) = Search(url[t])
                /\ Meant(effective'[t]) = Meant(effective[t])
      BY <1>1, <2>1, <2>2, RoutesParts
    <2>4. \A s \in Tabs \ {t} : asked'[s] = asked[s] /\ (s \in crossed' <=> s \in crossed)
      BY <1>1, <2>1 DEF TypeOK
    <2>5. \A s \in Tabs \ {t} : s \notin crossed' => Holds(s)'
      BY <2>2, <2>3, <2>4, HoldsKept DEF HoldInv, Held
    <2>6. t \notin crossed' => Holds(t)'
      <3>1. CASE phase'[t] = "render" /\ ~(Mounted(t) /\ Search(u) = Search(url[t]))
        <4>1. asked'[t] = IF HasFilterParams(u) THEN Meant(u) ELSE last
          BY <1>1, <2>1, <3>1 DEF TypeOK
        <4> QED
          BY <2>2, <2>3, <3>1, <4>1 DEF Holds, HasFilterParams, Filters, Meant
      <3>2. CASE /\ phase'[t] \in {"effect", "rest"}
                 /\ Mounted(t) /\ Search(u) = Search(url[t])
                 /\ Meant(effective'[t]) = Meant(effective[t])
        <4>1. UNCHANGED <<asked, crossed>>
          BY <2>1, <3>2
        <4>2. t \notin crossed => Meant(effective[t]) = asked[t]
          BY <2>2, <3>2 DEF HoldInv, Held, Holds, AtRest
        <4>3. t \notin crossed' => Meant(effective'[t]) = asked'[t]
          BY <3>2, <4>1, <4>2
        <4> QED
          BY <3>2, <4>3 DEF Holds, Meant
      <3> QED
        BY <2>3, <3>1, <3>2
    <2>7. last' = Meant(memory)'
      BY <2>2 DEF HoldInv, Held, Meant
    <2> QED
      BY <2>5, <2>6, <2>7 DEF Held
  <1>3. ASSUME NEW t \in Tabs, Leave(t)
        PROVE  Held'
    <2>1. /\ url'[t] = Away /\ phase'[t] = "rest" /\ UNCHANGED <<memory, last>>
          /\ \A s \in Tabs \ {t} :
               /\ url'[s] = url[s] /\ effective'[s] = effective[s] /\ phase'[s] = phase[s]
               /\ asked'[s] = asked[s] /\ (s \in crossed' <=> s \in crossed)
      BY <1>1, <1>3 DEF Leave, TypeOK, AtRest
    <2>2. Holds(t)'
      BY <2>1 DEF Holds, Mounted
    <2>3. \A s \in Tabs \ {t} : s \notin crossed' => Holds(s)'
      BY <2>1, HoldsKept DEF HoldInv, Held
    <2>4. last' = Meant(memory)'
      BY <2>1 DEF HoldInv, Held, Meant
    <2> QED
      BY <2>2, <2>3, <2>4 DEF Held
  <1>4. ASSUME NEW t \in Tabs, ChooseFilter(t) \/ TurnPage(t)
        PROVE  Held'
    <2>1. PICK u \in Addresses : /\ UpdateFilters(t, u) /\ Ready(t)
                                 /\ asked' = [asked EXCEPT ![t] = Meant(u)]
      BY <1>1, <1>4, ChooseUpdates, TurnUpdates
    <2> QED
      BY <2>1, UpdateHolds
  <1>5. ASSUME NEW t \in Tabs, Render(t)
        PROVE  Held'
    <2> DEFINE new == EffectiveParams(url[t], memory)
    <2>1. /\ url[t] \in Addresses /\ phase[t] = "render"
          /\ memory \in Params /\ (kind = "key" => memory.key_id = "")
          /\ last = Meant(memory)
      <3>1. phase[t] = "render" /\ Shaped(t)
        BY <1>1, <1>5 DEF Render, TypeInv
      <3>2. Mounted(t)
        BY <3>1 DEF Shaped
      <3> QED
        BY <1>1, <3>1, <3>2 DEF Mounted, TypeOK, HoldInv, Held
    <2>2. Meant(new) = IF HasFilterParams(url[t]) THEN Meant(url[t]) ELSE last
      BY <2>1, EffectiveAddress
    <2> HIDE DEF new
    <2>3. /\ effective'[t] = new /\ phase'[t] = "effect"
          /\ UNCHANGED <<memory, url, asked, last, crossed>>
          /\ \A s \in Tabs \ {t} : effective'[s] = effective[s] /\ phase'[s] = phase[s]
      BY <1>1, <1>5 DEF Render, TypeOK, new
    <2>4. t \notin crossed => Meant(new) = asked[t]
      BY <2>1, <2>2 DEF HoldInv, Held, Holds
    <2>5. t \notin crossed' => Holds(t)'
      BY <2>3, <2>4 DEF Holds, Meant
    <2>6. \A s \in Tabs \ {t} : s \notin crossed' => Holds(s)'
      BY <2>3, HoldsKept DEF HoldInv, Held
    <2>7. last' = Meant(memory)'
      BY <2>3 DEF HoldInv, Held, Meant
    <2> QED
      BY <2>5, <2>6, <2>7 DEF Held
  <1>6. ASSUME NEW t \in Tabs, Effect(t)
        PROVE  Held'
    <2> DEFINE e == effective[t]
    <2>1. phase[t] = "effect" /\ e \in Addresses /\ Mounted(t)
      <3>1. phase[t] = "effect" /\ Shaped(t)
        BY <1>1, <1>6 DEF Effect, TypeInv
      <3>2. Mounted(t) /\ effective[t] # Away
        BY <3>1 DEF Shaped
      <3> QED
        BY <1>1, <3>1, <3>2 DEF TypeOK
    <2>2. /\ url'[t] = e /\ effective' = effective /\ asked' = asked
          /\ phase'[t] \in {"rest", "render"}
          /\ Writes(t, e, crossed) /\ last' = Meant(e)
          /\ \A s \in Tabs \ {t} : url'[s] = url[s] /\ phase'[s] = phase[s]
      BY <1>1, <1>6 DEF Effect, Writes, TypeOK
    <2>3. t \notin crossed => Meant(e) = asked[t]
      BY <2>1 DEF HoldInv, Held, Holds
    <2>4. t \notin crossed => Holds(t)'
      BY <2>2, <2>3 DEF Holds, Meant
    <2> HIDE DEF e
    <2> QED
      BY <2>1, <2>2, <2>4, WritesHold
  <1>7. ASSUME UNCHANGED <<memory, last, url, effective, phase, asked, crossed>>
        PROVE  Held'
    BY <1>7, HoldsKept DEF HoldInv, Held, Meant
  <1>8. ASSUME NEW t \in Tabs, Refresh(t)
        PROVE  Held'
    BY <1>7, <1>8 DEF Refresh
  <1>9. ASSUME NEW t \in Tabs, Answers(t)
        PROVE  Held'
    BY <1>7, <1>9 DEF Answers, Answered, Failed, Ends
  <1>10. ASSUME UNCHANGED vars
         PROVE  Held'
    BY <1>7, <1>10 DEF vars
  <1>11. Held'
    BY <1>2, <1>3, <1>4, <1>5, <1>6, <1>8, <1>9, <1>10 DEF Next
  <1> QED
    BY <1>1, <1>11 DEF HoldInv

(* The filters in force in every tab at rest are those its user asked for,  *)
(* however many tabs write the memory, between whatever renders and effects *)
(* of the others; but for a route without filters that such a write met     *)
(* before it was rendered.                                                  *)
THEOREM FiltersHold == Spec => []FiltersAsAsked
  <1>1. HoldInv => FiltersAsAsked
    BY DEF HoldInv, Held, Holds, TypeInv, Shaped, FiltersAsAsked, AtRest
  <1> QED
    BY <1>1, HoldInit, HoldStep, PTL DEF Spec

--------------------------------------------------------------------------------
(* What a quiet page shows.  The newest load of a page is for the query its *)
(* effect last had; once it has ended, every load still under way is an     *)
(* older one.  The query of a page at rest is that of its route.            *)

Awaits(t) ==
    /\ loads[t] # <<>>
    /\ ~loads[t][Len(loads[t])].passed
    /\ loads[t][Len(loads[t])].query = queried[t]

Served(t) ==
    /\ \A j \in 1 .. Len(loads[t]) : loads[t][j].passed
    /\ failed[t] \/ t \in stale \/ shown[t] = queried[t]

Shows(t) ==
    /\ queried[t] # NoAnswer => Awaits(t) \/ Served(t)
    /\ Mounted(t) /\ AtRest(t) => queried[t] = Query(effective[t])

ShowInv == TypeInv /\ \A t \in Tabs : Shows(t)

LEMMA ShowInit ==
    ASSUME Init
    PROVE  ShowInv
  BY TypeInit DEF Init, Mounted, ShowInv, Shows

(* An address asks for something.                                           *)
LEMMA AddressAsks ==
    ASSUME NEW u \in Addresses
    PROVE  Query(u) # NoAnswer
  <1>1. Query(u).spot = u.spot /\ NoAnswer.spot = 0
    BY DEF NoAnswer, Query, Away
  <1>2. u.spot \in {1, 2}
    BY AddressParts
  <1> QED
    BY <1>1, <1>2

(* What the queries and the loads of the tab do not change.                 *)
LEMMA ShowKept ==
    ASSUME ShowInv, NEW s \in Tabs, kind' = kind, queried'[s] = queried[s],
           loads'[s] = loads[s], failed'[s] = failed[s], shown'[s] = shown[s],
           s \in stale' <=> s \in stale,
           (Mounted(s) /\ AtRest(s))' =>
                Mounted(s) /\ AtRest(s) /\ effective'[s] = effective[s]
    PROVE  Shows(s)'
  BY DEF ShowInv, Shows, Awaits, Served, Query, Meant, NoAnswer

LEMMA RoutesShow ==
    ASSUME ShowInv, NEW t \in Tabs, NEW u \in Addresses, AtRest(t), Routes(t, u),
           UNCHANGED <<kind, queried, loads, failed, shown, stale>>
    PROVE  \A s \in Tabs : Shows(s)'
  <1>1. /\ \A s \in Tabs \ {t} :
             url'[s] = url[s] /\ effective'[s] = effective[s] /\ phase'[s] = phase[s]
        /\ phase'[t] \in {"effect", "rest"} => Mounted(t)
        /\ phase'[t] = "rest" => effective'[t] = effective[t]
    BY RoutesParts DEF ShowInv
  <1>2. \A s \in Tabs : (Mounted(s) /\ AtRest(s))' =>
                            Mounted(s) /\ AtRest(s) /\ effective'[s] = effective[s]
    BY <1>1 DEF Mounted, AtRest
  <1> QED
    BY <1>2, ShowKept

LEMMA StartsAwaited ==
    ASSUME TypeOK, NEW t \in Tabs, NEW q \in Queries, Starts(t, q)
    PROVE  /\ loads'[t] # <<>>
           /\ ~loads'[t][Len(loads'[t])].passed
           /\ loads'[t][Len(loads'[t])].query = q
           /\ \A s \in Tabs \ {t} : loads'[s] = loads[s] /\ failed'[s] = failed[s]
  <1> DEFINE new == [query |-> q, passed |-> FALSE]
             all == Append(loads[t], new)
  <1>1. new \in Loads /\ ~new.passed /\ new.query = q /\ loads[t] \in Seq(Loads)
    BY DEF Loads, TypeOK
  <1>2. loads'[t] = all
    BY DEF Starts, TypeOK
  <1> HIDE DEF new
  <1>3. all # <<>> /\ all[Len(all)] = new
    BY <1>1
  <1>4. \A s \in Tabs \ {t} : loads'[s] = loads[s] /\ failed'[s] = failed[s]
    BY DEF Starts, TypeOK
  <1> HIDE DEF all
  <1> QED
    BY <1>1, <1>2, <1>3, <1>4

LEMMA EndsShow ==
    ASSUME ShowInv, NEW t \in Tabs, NEW i \in DOMAIN loads[t], Answered(t, i) \/ Failed(t, i)
    PROVE  \A s \in Tabs : Shows(s)'
  <1> DEFINE n == Len(loads[t])
  <1>1. /\ TypeOK /\ Ends(t, i) /\ loads[t] \in Seq(Loads) /\ n \in Nat /\ i \in 1 .. n
        /\ UNCHANGED <<kind, url, effective, phase, queried>>
    <2>1. /\ TypeOK /\ Ends(t, i) /\ loads[t] \in Seq(Loads)
          /\ UNCHANGED <<kind, url, effective, phase, queried>>
      BY DEF Answered, Failed, Ends, ShowInv, TypeInv, TypeOK, Loads
    <2> QED
      BY <2>1
  <1>2. /\ \A s \in Tabs \ {t} : loads'[s] = loads[s]
        /\ Len(loads'[t]) = n - 1 /\ loads'[t] \in Seq(Loads)
        /\ \A j \in 1 .. n - 1 :
             loads'[t][j] = IF j < i THEN [loads[t][j] EXCEPT !.passed = TRUE]
                            ELSE loads[t][j + 1]
    BY <1>1, EndsLoads
  <1>3. \A s \in Tabs \ {t} : /\ shown'[s] = shown[s] /\ failed'[s] = failed[s]
                             /\ (s \in stale' <=> s \in stale)
    BY <1>1 DEF Answered, Failed, Ends, TypeOK
  <1>4. t \in stale' <=> loads[t][i].passed
    BY <1>1 DEF Ends
  <1>5. failed'[t] \/ shown'[t] = loads[t][i].query
    BY <1>1 DEF Answered, Failed, TypeOK
  <1>6. Mounted(t)' /\ AtRest(t)' => queried'[t] = Query(effective[t])'
    BY <1>1 DEF ShowInv, Shows, Mounted, AtRest, Query, Meant
  <1>7. \A l \in Loads : [l EXCEPT !.passed = TRUE].passed
    BY DEF Loads
  <1>8. \A j \in 1 .. n : loads[t][j] \in Loads
    BY <1>1
  <1>9. ASSUME NEW s \in Tabs \ {t}
        PROVE  Shows(s)'
    <2>1. kind' = kind /\ queried'[s] = queried[s] /\ loads'[s] = loads[s]
          /\ ((Mounted(s) /\ AtRest(s))' =>
                Mounted(s) /\ AtRest(s) /\ effective'[s] = effective[s])
      BY <1>1, <1>2 DEF Mounted, AtRest
    <2> QED
      BY <1>3, <2>1, ShowKept
  <1>10. CASE Awaits(t) /\ i = n
    <2>1. ASSUME NEW j \in 1 .. n - 1
          PROVE  loads'[t][j].passed
      <3>1. j < i /\ j \in 1 .. n
        BY <1>1, <1>10
      <3>2. loads'[t][j] = [loads[t][j] EXCEPT !.passed = TRUE]
        BY <1>2, <3>1
      <3> QED
        BY <1>7, <1>8, <3>1, <3>2
    <2>2. failed'[t] \/ shown'[t] = queried'[t]
      BY <1>1, <1>5, <1>10 DEF Awaits
    <2>3. Served(t)'
      BY <1>2, <2>1, <2>2 DEF Served
    <2> QED
      BY <1>6, <1>9, <2>3 DEF Shows
  <1>11. CASE Awaits(t) /\ i # n
    <2>1. n - 1 \in 1 .. n - 1 /\ ~(n - 1 < i) /\ (n - 1) + 1 = n
      BY <1>1, <1>11
    <2>2. loads'[t][n - 1] = loads[t][n]
      BY <1>2, <2>1
    <2>3. Len(loads'[t]) = n - 1 /\ loads'[t] # <<>>
      BY <1>2, <2>1
    <2>4. Awaits(t)'
      BY <1>1, <1>11, <2>2, <2>3 DEF Awaits
    <2> QED
      BY <1>6, <1>9, <2>4 DEF Shows
  <1>12. CASE Served(t)
    <2>1. ASSUME NEW j \in 1 .. n - 1
          PROVE  loads'[t][j].passed
      <3>1. j \in 1 .. n /\ j + 1 \in 1 .. n
        BY <1>1
      <3>2. loads'[t][j] = IF j < i THEN [loads[t][j] EXCEPT !.passed = TRUE]
                           ELSE loads[t][j + 1]
        BY <1>2
      <3>3. loads[t][j + 1].passed /\ [loads[t][j] EXCEPT !.passed = TRUE].passed
        BY <1>7, <1>8, <1>12, <3>1 DEF Served
      <3> QED
        BY <3>2, <3>3
    <2>2. t \in stale'
      BY <1>1, <1>4, <1>12 DEF Served
    <2>3. Served(t)'
      BY <1>2, <2>1, <2>2 DEF Served
    <2> QED
      BY <1>6, <1>9, <2>3 DEF Shows
  <1>13. CASE queried[t] = NoAnswer
    <2>1. queried'[t] = NoAnswer'
      BY <1>1, <1>13 DEF NoAnswer, Query, Meant
    <2> QED
      BY <1>6, <1>9, <2>1 DEF Shows
  <1> QED
    BY <1>10, <1>11, <1>12, <1>13 DEF ShowInv, Shows

LEMMA ShowStep ==
    ASSUME ShowInv, [Next]_vars
    PROVE  ShowInv'
  <1> DEFINE Goal == \A s \in Tabs : Shows(s)'
  <1>1. TypeInv /\ TypeInv' /\ TypeOK
    BY TypeStep DEF ShowInv, TypeInv
  <1>2. ASSUME NEW t \in Tabs, Arrive(t)
        PROVE  Goal
    <2>1. PICK u \in Addresses : Routes(t, u)
      BY <1>2 DEF Arrive
    <2>2. AtRest(t) /\ UNCHANGED <<kind, queried, loads, failed, shown, stale>>
      BY <1>2 DEF Arrive
    <2> QED
      BY <2>1, <2>2, RoutesShow
  <1>3. ASSUME NEW t \in Tabs, Leave(t)
        PROVE  Goal
    <2>1. ~Mounted(t)' /\ queried'[t] = NoAnswer /\ kind' = kind
      BY <1>1, <1>3 DEF Leave, Mounted, TypeOK
    <2>2. \A s \in Tabs \ {t} :
             /\ url'[s] = url[s] /\ effective'[s] = effective[s] /\ phase'[s] = phase[s]
             /\ queried'[s] = queried[s] /\ loads'[s] = loads[s]
             /\ failed'[s] = failed[s] /\ shown'[s] = shown[s]
             /\ (s \in stale' <=> s \in stale)
      BY <1>1, <1>3 DEF Leave, TypeOK
    <2>3. Shows(t)'
      BY <2>1 DEF Shows, NoAnswer, Query, Meant
    <2>4. \A s \in Tabs \ {t} : Shows(s)'
      BY <2>1, <2>2, ShowKept DEF Mounted, AtRest
    <2> QED
      BY <2>3, <2>4
  <1>4. ASSUME NEW t \in Tabs, ChooseFilter(t) \/ TurnPage(t)
        PROVE  Goal
    <2>1. PICK u \in Addresses : UpdateFilters(t, u) /\ Ready(t)
      BY <1>1, <1>4, ChooseUpdates, TurnUpdates
    <2>2. /\ AtRest(t) /\ Routes(t, u)
          /\ UNCHANGED <<kind, queried, loads, failed, shown, stale>>
      BY <1>4, <2>1 DEF ChooseFilter, TurnPage, Ready, UpdateFilters
    <2> QED
      BY <2>2, RoutesShow
  <1>5. ASSUME NEW t \in Tabs, Refresh(t)
        PROVE  Goal
    <2>1. Starts(t, Query(effective[t])) /\ Mounted(t) /\ AtRest(t)
            /\ UNCHANGED <<kind, url, effective, phase, queried, shown, stale>>
      BY <1>5 DEF Refresh, Ready
    <2>2. effective[t] \in Addresses /\ queried[t] = Query(effective[t])
      BY <1>1, <2>1 DEF TypeInv, Shaped, AtRest, Mounted, TypeOK, ShowInv, Shows
    <2>3. /\ loads'[t] # <<>>
          /\ ~loads'[t][Len(loads'[t])].passed
          /\ loads'[t][Len(loads'[t])].query = Query(effective[t])
          /\ \A s \in Tabs \ {t} : loads'[s] = loads[s] /\ failed'[s] = failed[s]
      BY <1>1, <2>1, <2>2, FiltersTyped, StartsAwaited
    <2>4. Awaits(t)'
      BY <2>1, <2>2, <2>3 DEF Awaits
    <2>5. queried'[t] = Query(effective[t])'
      BY <2>1, <2>2 DEF Query, Meant
    <2>6. Shows(t)'
      BY <2>4, <2>5 DEF Shows
    <2>7. \A s \in Tabs \ {t} : Shows(s)'
      BY <2>1, <2>3, ShowKept DEF Mounted, AtRest
    <2> QED
      BY <2>6, <2>7
  <1>6. ASSUME NEW t \in Tabs, Render(t)
        PROVE  Goal
    <2>1. /\ phase'[t] = "effect"
          /\ UNCHANGED <<kind, url, queried, loads, failed, shown, stale>>
          /\ \A s \in Tabs \ {t} : effective'[s] = effective[s] /\ phase'[s] = phase[s]
      BY <1>1, <1>6 DEF Render, TypeOK
    <2>2. \A s \in Tabs : (Mounted(s) /\ AtRest(s))' =>
                              Mounted(s) /\ AtRest(s) /\ effective'[s] = effective[s]
      BY <2>1 DEF Mounted, AtRest
    <2> QED
      BY <2>1, <2>2, ShowKept
  <1>7. ASSUME NEW t \in Tabs, Effect(t)
        PROVE  Goal
    <2>1. effective[t] \in Addresses /\ phase[t] = "effect"
      <3>1. phase[t] = "effect" /\ Shaped(t)
        BY <1>1, <1>7 DEF Effect, TypeInv
      <3>2. effective[t] # Away
        BY <3>1 DEF Shaped
      <3> QED
        BY <1>1, <3>1, <3>2 DEF TypeOK
    <2>2. /\ UNCHANGED <<kind, effective, shown, stale>>
          /\ \A s \in Tabs \ {t} : url'[s] = url[s] /\ phase'[s] = phase[s]
      BY <1>1, <1>7 DEF Effect, TypeOK
    <2>3. \A s \in Tabs \ {t} :
             ((Mounted(s) /\ AtRest(s))' =>
                Mounted(s) /\ AtRest(s) /\ effective'[s] = effective[s])
      BY <2>2 DEF Mounted, AtRest
    <2>4. Query(effective[t])' = Query(effective[t])
      BY <2>2 DEF Query, Meant
    <2>5. CASE Depends(t)
      <3>1. /\ Starts(t, Query(effective[t]))
            /\ queried' = [queried EXCEPT ![t] = Query(effective[t])]
        BY <1>7, <2>5 DEF Effect
      <3>2. /\ loads'[t] # <<>>
            /\ ~loads'[t][Len(loads'[t])].passed
            /\ loads'[t][Len(loads'[t])].query = Query(effective[t])
            /\ \A s \in Tabs \ {t} : loads'[s] = loads[s] /\ failed'[s] = failed[s]
        BY <1>1, <2>1, <3>1, FiltersTyped, StartsAwaited
      <3>3. /\ queried'[t] = Query(effective[t])
            /\ \A s \in Tabs \ {t} : queried'[s] = queried[s]
        BY <1>1, <3>1 DEF TypeOK
      <3>4. Shows(t)'
        BY <2>4, <3>2, <3>3 DEF Shows, Awaits
      <3>5. \A s \in Tabs \ {t} : Shows(s)'
        BY <2>2, <2>3, <3>2, <3>3, ShowKept
      <3> QED
        BY <3>4, <3>5
    <2>6. CASE ~Depends(t)
      <3>1. UNCHANGED <<loads, busy, failed, queried>>
        BY <1>7, <2>6 DEF Effect
      <3>2. queried[t] = Query(effective[t]) /\ queried[t] # NoAnswer
        BY <2>6 DEF Depends
      <3>3. Awaits(t) \/ Served(t)
        BY <3>2 DEF ShowInv, Shows
      <3>4. Awaits(t)' \/ Served(t)'
        BY <2>2, <3>1, <3>3 DEF Awaits, Served
      <3>5. Shows(t)'
        BY <2>4, <3>1, <3>2, <3>4 DEF Shows
      <3>6. \A s \in Tabs \ {t} : Shows(s)'
        BY <2>2, <2>3, <3>1, ShowKept
      <3> QED
        BY <3>5, <3>6
    <2> QED
      BY <2>5, <2>6
  <1>8. ASSUME NEW t \in Tabs, Answers(t)
        PROVE  Goal
    BY <1>8, EndsShow DEF Answers
  <1>9. ASSUME UNCHANGED vars
        PROVE  Goal
    BY <1>9, ShowKept DEF vars, Mounted, AtRest
  <1>10. Goal
    BY <1>2, <1>3, <1>4, <1>5, <1>6, <1>7, <1>8, <1>9 DEF Next
  <1> QED
    BY <1>1, <1>10 DEF ShowInv

(* A page at rest with nothing under way and no error shows the answer to   *)
(* the query of its route, whatever order the answers came in, unless an    *)
(* older answer came after a newer one.                                     *)
THEOREM QuietShows == Spec => []QuietShowsAsked
  <1>1. ASSUME ShowInv
        PROVE  QuietShowsAsked
    <2> SUFFICES ASSUME NEW t \in Tabs, Mounted(t), AtRest(t), loads[t] = <<>>, ~failed[t],
                        t \notin stale
                 PROVE  shown[t] = Query(url[t])
      BY DEF QuietShowsAsked
    <2>1. url[t] = effective[t] /\ url[t] \in Addresses
      BY <1>1 DEF ShowInv, TypeInv, Shaped, AtRest, Mounted, TypeOK
    <2>2. queried[t] = Query(url[t]) /\ queried[t] # NoAnswer
      BY <1>1, <2>1, AddressAsks DEF ShowInv, Shows
    <2> QED
      BY <1>1, <2>2 DEF ShowInv, Shows, Awaits, Served
  <1> QED
    BY <1>1, ShowInit, ShowStep, PTL DEF Spec

================================================================================
