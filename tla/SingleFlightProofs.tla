------------------------ MODULE SingleFlightProofs ------------------------
(***************************************************************************)
(* The key of a unit is in the map exactly while one live guard owns it,   *)
(* and nobody fetches what it found in flight, for any number of requests, *)
(* pages, runs, failures, cancellations and evictions.                     *)
(***************************************************************************)
EXTENDS SingleFlight, TLAPS, NaturalsInduction, WellFoundedInduction

Request == [pc : Places, unit : Pages, follows : SUBSET Pages,
            left : SUBSET Pages, waits : Nat, on : Nat, late : BOOLEAN,
            err : BOOLEAN]
Led == [at : Stages, flight : Nat]

\* The types the argument needs; flights are numbered by admission.
FlightType ==
  /\ want \in [Callers -> SUBSET Pages]
  /\ entry \in [Pages -> Nat] /\ started \in Nat
  /\ caller \in [Callers -> Request]
  /\ lead \in [Callers -> [Pages -> Led]]

\* A request owns a guard only while it loads the unit or completes, and only
\* a leader completes.
GuardPlaces ==
  \A c \in Callers, u \in Pages :
    /\ lead[c][u].flight # None => lead[c][u].at \notin {"none", "free"}
    /\ lead[c][u].at \in {"remove", "signal"} => lead[c][u].flight # None

\* A request that waits for another has dropped all its guards.
Waiting == {"lookup", "create", "recheck", "await", "reprobe"}
WaitsWithout ==
  \A c \in Callers : caller[c].pc \in Waiting =>
    \A u \in Pages : lead[c][u].flight = None

\* KeyOwned alone is not inductive: that Remove empties the guards needs
\* GuardPlaces, and that the fetch without the key overwrites no guard needs
\* WaitsWithout.
OwnInv == FlightType /\ GuardPlaces /\ WaitsWithout /\ KeyOwned

-----------------------------------------------------------------------------

(* A set of pages that is not empty has a lowest one.                      *)
LEMMA LowestIn ==
  ASSUME NEW S, S \subseteq Nat, S # {}
  PROVE  Lowest(S) \in S
<1> DEFINE R == {p \in Nat \X Nat : p[1] < p[2]}
<1>1. R = OpToRel(<, Nat)
  BY Zenon DEF OpToRel
<1>2. IsWellFoundedOn(R, Nat)
  BY <1>1, NatLessThanWellFounded, Zenon
<1>3. PICK u \in S : \A v \in S : ~(<<v, u>> \in R)
  <2> HIDE DEF R
  <2> QED BY <1>2, WFMin, Zenon
<1>4. \A v \in S : v < u => <<v, u>> \in R
  OBVIOUS
<1>5. \A v \in S : ~(v < u)
  <2> HIDE DEF R
  <2> QED BY <1>3, <1>4, Zenon
<1>6. \A v \in S : u <= v
  BY <1>5
<1> QED BY <1>6 DEF Lowest

(* The next unit of a read is a page number, wherever the request goes.    *)
LEMMA ProbedType ==
  ASSUME FlightType, NEW c \in Callers, NEW request \in Request,
         Probed(c, request)
  PROVE  /\ caller' \in [Callers -> Request]
         /\ caller'[c].pc \notin Waiting
         /\ \A d \in Callers \ {c} : caller'[d] = caller[d]
<1> DEFINE rest == {u \in want[c] : u > request.unit}
           new == IF rest = {} THEN [request EXCEPT !.pc = "settle"]
                  ELSE [request EXCEPT !.pc = "probe", !.unit = Lowest(rest)]
<1>1. caller' = [caller EXCEPT ![c] = new]
  BY DEF Probed
<1>2. rest \subseteq Pages /\ rest \subseteq Nat
  BY BoundsAssumption DEF FlightType
<1>3. rest # {} => Lowest(rest) \in Pages
  BY <1>2, LowestIn
<1>4. new \in Request /\ new.pc \notin Waiting
  <2> HIDE DEF rest
  <2> QED BY <1>3 DEF Request, Places, Waiting
<1> HIDE DEF new
<1> QED BY <1>1, <1>4 DEF FlightType

(* The units of R are dropped later: no guard is given up by Ended.        *)
LEMMA EndedKeeps ==
  ASSUME FlightType, GuardPlaces, NEW c \in Callers, NEW R
  PROVE  /\ Ended(c, R) \in [Pages -> Led]
         /\ \A u \in Pages :
              /\ Ended(c, R)[u].flight = lead[c][u].flight
              /\ Ended(c, R)[u].at = "signal" <=> lead[c][u].at = "signal"
              /\ Ended(c, R)[u].flight # None =>
                   Ended(c, R)[u].at \notin {"none", "free"}
              /\ Ended(c, R)[u].at \in {"remove", "signal"} =>
                   Ended(c, R)[u].flight # None
<1>1. ASSUME NEW u \in Pages
      PROVE  LET e == Ended(c, R)[u] IN
             /\ e \in Led
             /\ e.flight = lead[c][u].flight
             /\ e.at = "signal" <=> lead[c][u].at = "signal"
             /\ e.flight # None => e.at \notin {"none", "free"}
             /\ e.at \in {"remove", "signal"} => e.flight # None
  <2> DEFINE l == lead[c][u]
  <2>1. /\ l \in Led
        /\ l.flight # None => l.at \notin {"none", "free"}
        /\ l.at \in {"remove", "signal"} => l.flight # None
    BY DEF FlightType, GuardPlaces
  <2>2. Ended(c, R)[u] = IF u \notin R \/ l.at \in {"remove", "signal"} THEN l
                         ELSE IF l.flight = None
                         THEN [Idle EXCEPT !.at = "free"]
                         ELSE [l EXCEPT !.at = "remove"]
    BY DEF Ended
  <2> HIDE DEF l
  <2>3. CASE u \notin R \/ l.at \in {"remove", "signal"}
    BY <2>1, <2>2, <2>3 DEF l
  <2>4. CASE ~(u \notin R \/ l.at \in {"remove", "signal"}) /\ l.flight = None
    <3>1. Ended(c, R)[u] = [at |-> "free", flight |-> None]
      BY <2>2, <2>4 DEF Idle
    <3> QED BY <2>1, <2>4, <3>1 DEF l, Led, Stages, None
  <2>5. CASE ~(u \notin R \/ l.at \in {"remove", "signal"}) /\ l.flight # None
    <3>1. Ended(c, R)[u] = [l EXCEPT !.at = "remove"]
      BY <2>2, <2>5
    <3> QED BY <2>1, <2>5, <3>1 DEF l, Led, Stages, None
  <2> QED BY <2>3, <2>4, <2>5
<1>2. Ended(c, R) \in [Pages -> Led]
  <2>1. Ended(c, R) = [u \in Pages |-> Ended(c, R)[u]]
    BY DEF Ended
  <2> QED BY <1>1, <2>1
<1> QED BY <1>1, <1>2

(* A step that keeps the map, every guard and the places of the requests   *)
(* that wait keeps the invariant.                                          *)
LEMMA GuardsKept ==
  ASSUME OwnInv, UNCHANGED <<want, entry, started>>,
         caller' \in [Callers -> Request], lead' \in [Callers -> [Pages -> Led]],
         \A c \in Callers, u \in Pages :
           /\ lead'[c][u].flight = lead[c][u].flight
           /\ lead'[c][u].at = "signal" <=> lead[c][u].at = "signal",
         GuardPlaces',
         \A c \in Callers : caller'[c].pc \in Waiting =>
           \/ caller[c].pc \in Waiting
           \/ \A u \in Pages : lead[c][u].flight = None
  PROVE  OwnInv'
<1>1. \A u \in Pages : Guards(u)' = Guards(u)
  BY DEF Guards
<1>2. KeyOwned'
  BY <1>1 DEF KeyOwned, OwnInv
<1>3. FlightType'
  BY DEF OwnInv, FlightType
<1>4. WaitsWithout'
  BY DEF OwnInv, WaitsWithout
<1> QED BY <1>2, <1>3, <1>4 DEF OwnInv

(* A step of a request that changes only its place and what it follows.    *)
LEMMA OnlyCaller ==
  ASSUME OwnInv, UNCHANGED <<want, entry, started, lead>>,
         caller' \in [Callers -> Request],
         \A c \in Callers : caller'[c].pc \in Waiting =>
           \/ caller[c].pc \in Waiting
           \/ \A u \in Pages : lead[c][u].flight = None
  PROVE  OwnInv'
<1>1. GuardPlaces'
  BY DEF OwnInv, GuardPlaces
<1>2. lead' \in [Callers -> [Pages -> Led]]
  BY DEF OwnInv, FlightType
<1> QED BY <1>1, <1>2, GuardsKept

(* A run, or all that the request has, ends.                               *)
LEMMA RunEnds ==
  ASSUME OwnInv, NEW c \in Callers, NEW R,
         UNCHANGED <<want, entry, started>>,
         lead' = [lead EXCEPT ![c] = Ended(c, R)],
         caller' \in [Callers -> Request],
         \A d \in Callers : caller'[d].pc \in Waiting => caller[d].pc \in Waiting
  PROVE  OwnInv'
<1> DEFINE e == Ended(c, R)
<1>1. /\ e \in [Pages -> Led]
      /\ \A u \in Pages :
           /\ e[u].flight = lead[c][u].flight
           /\ e[u].at = "signal" <=> lead[c][u].at = "signal"
           /\ e[u].flight # None => e[u].at \notin {"none", "free"}
           /\ e[u].at \in {"remove", "signal"} => e[u].flight # None
  BY EndedKeeps DEF OwnInv
<1>2. lead' = [lead EXCEPT ![c] = e]
  OBVIOUS
<1> HIDE DEF e
<1>3. lead' \in [Callers -> [Pages -> Led]]
  BY <1>1, <1>2 DEF OwnInv, FlightType
<1>4. \A d \in Callers : lead'[d] = IF d = c THEN e ELSE lead[d]
  BY <1>2 DEF OwnInv, FlightType
<1>5. GuardPlaces'
  BY <1>1, <1>4 DEF OwnInv, GuardPlaces, None
<1>6. \A d \in Callers, u \in Pages :
        /\ lead'[d][u].flight = lead[d][u].flight
        /\ lead'[d][u].at = "signal" <=> lead[d][u].at = "signal"
  BY <1>1, <1>4
<1> QED BY <1>3, <1>5, <1>6, GuardsKept

-----------------------------------------------------------------------------

(* One step keeps OwnInv.                                                  *)
LEMMA OwnStep ==
  ASSUME OwnInv, [Next]_vars
  PROVE  OwnInv'
<1> USE DEF config, flights
<1>t. FlightType /\ GuardPlaces /\ WaitsWithout /\ KeyOwned
  BY DEF OwnInv
<1>1. CASE UNCHANGED vars
  BY <1>1, <1>t, OnlyCaller DEF vars, FlightType
<1>2. ASSUME NEW u \in Pages, Evict(u) PROVE OwnInv'
  BY <1>2, <1>t, OnlyCaller DEF Evict, FlightType
<1>3. ASSUME NEW c \in Callers, NEW u \in Pages, CommitDetached(c, u)
      PROVE  OwnInv'
  BY <1>3, <1>t, OnlyCaller DEF CommitDetached, FlightType
<1>4. ASSUME NEW c \in Callers, Step(c) \/ Cancel(c)
      PROVE  OwnInv'
  <2>r. caller[c] \in Request /\ lead[c] \in [Pages -> Led]
    BY <1>t DEF FlightType
  <2>d. ASSUME Drop(c), UNCHANGED <<want, entry, started>>
        PROVE  OwnInv'
    <3>1. caller' \in [Callers -> Request] /\ caller'[c].pc = "settle"
      BY <2>d, <1>t, <2>r DEF Drop, FlightType, Request, Places
    <3>2. \A d \in Callers : caller'[d].pc \in Waiting => caller[d].pc \in Waiting
      BY <2>d, <1>t, <3>1 DEF Drop, FlightType, Waiting
    <3> QED BY <2>d, <3>1, <3>2, RunEnds DEF Drop
  <2>f. ASSUME NEW u \in Pages, RunFails(c, u), UNCHANGED <<want, entry, started>>
        PROVE  OwnInv'
    <3>1. caller' \in [Callers -> Request]
      BY <2>f, <1>t, <2>r DEF RunFails, FlightType, Request
    <3>2. \A d \in Callers : caller'[d].pc = caller[d].pc
      BY <2>f, <1>t, <2>r DEF RunFails, FlightType, Request
    <3> QED BY <2>f, <3>1, <3>2, RunEnds DEF RunFails
  <2>l. ASSUME NEW g \in [Pages -> Led], lead' = [lead EXCEPT ![c] = g],
               UNCHANGED <<want, entry, started, caller>>,
               \A u \in Pages :
                 /\ g[u].flight = lead[c][u].flight
                 /\ \/ g[u] = lead[c][u]
                    \/ g[u].at = "commit" /\ lead[c][u].at = "fetch"
                    \/ g[u].at = "kept" /\ lead[c][u].at = "commit"
        PROVE  OwnInv'
    <3>1. \A d \in Callers : lead'[d] = IF d = c THEN g ELSE lead[d]
      BY <2>l, <1>t DEF FlightType
    <3>2. lead' \in [Callers -> [Pages -> Led]]
      BY <2>l, <1>t DEF FlightType
    <3>3. GuardPlaces'
      BY <3>1, <2>l, <1>t DEF GuardPlaces
    <3>4. \A d \in Callers, u \in Pages :
            /\ lead'[d][u].flight = lead[d][u].flight
            /\ lead'[d][u].at = "signal" <=> lead[d][u].at = "signal"
      BY <3>1, <2>l
    <3>5. caller' \in [Callers -> Request]
      BY <2>l, <1>t DEF FlightType
    <3> QED BY <2>l, <3>2, <3>3, <3>4, <3>5, GuardsKept
  <2>1. CASE Probe(c)
    <3>1. CASE Hit(c)
      BY <3>1, <2>1, <1>t, <2>r, ProbedType, OnlyCaller DEF Probe
    <3>2. CASE ~Hit(c)
      <4>1. caller' = [caller EXCEPT ![c].pc = "admit"]
        BY <3>2, <2>1 DEF Probe, Goto
      <4>2. caller' \in [Callers -> Request]
        BY <4>1, <1>t, <2>r DEF FlightType, Request, Places
      <4>3. \A d \in Callers : caller'[d].pc \in Waiting => caller[d].pc \in Waiting
        BY <4>1, <1>t, <2>r DEF FlightType, Waiting, Request
      <4> QED BY <4>2, <4>3, <2>1, OnlyCaller DEF Probe
    <3> QED BY <3>1, <3>2
  <2>2. CASE ReadFails(c)
    BY <2>2, <2>d DEF ReadFails
  <2>3. CASE Lead(c)
    <3>0. PICK k \in Pages, n \in Nat : k = Unit(c) /\ n = started + 1
      BY <1>t, <2>r DEF FlightType, Request, Unit
    <3>1. /\ entry[k] = None /\ started' = n /\ n \in Nat /\ n # None
          /\ entry' = [entry EXCEPT ![k] = n]
          /\ lead' = [lead EXCEPT ![c][k] = [at |-> "fetch", flight |-> n]]
          /\ Probed(c, caller[c]) /\ want' = want
      BY <2>3, <3>0, <1>t DEF Lead, FlightType, None
    <3>2. /\ caller' \in [Callers -> Request]
          /\ caller'[c].pc \notin Waiting
          /\ \A d \in Callers \ {c} : caller'[d] = caller[d]
      BY <3>1, <1>t, <2>r, ProbedType
    <3>3. [at |-> "fetch", flight |-> n] \in Led
      BY <3>1 DEF Led, Stages
    <3>4. FlightType'
      BY <3>1, <3>2, <3>3, <1>t DEF FlightType
    <3>5. \A d \in Callers, u \in Pages :
            lead'[d][u] = IF d = c /\ u = k THEN [at |-> "fetch", flight |-> n]
                          ELSE lead[d][u]
      BY <3>1, <1>t DEF FlightType
    <3>6. GuardPlaces'
      BY <3>1, <3>5, <1>t DEF GuardPlaces, None
    <3>7. WaitsWithout'
      BY <3>2, <3>5, <1>t DEF WaitsWithout
    <3>8. ASSUME NEW u \in Pages, u # k
          PROVE  Guards(u)' = Guards(u) /\ entry'[u] = entry[u]
                 /\ \A d \in Callers : lead'[d][u] = lead[d][u]
      BY <3>1, <3>5, <3>8, <1>t DEF Guards, FlightType
    <3>9. Guards(k)' = {c} /\ entry'[k] = n /\ lead'[c][k].flight = n
      BY <3>1, <3>5, <1>t DEF Guards, FlightType, KeyOwned
    <3>10. KeyOwned'
      BY <3>1, <3>8, <3>9, <1>t DEF KeyOwned
    <3> QED BY <3>4, <3>6, <3>7, <3>10 DEF OwnInv
  <2>4. CASE Follow(c)
    <3> DEFINE request == [caller[c] EXCEPT !.follows = @ \cup {Unit(c)},
                                            !.left = @ \cup {Unit(c)},
                                            !.waits = IF @ < 2 THEN @ + 1 ELSE @]
    <3>1. Probed(c, request) /\ UNCHANGED <<want, entry, started, lead>>
      BY <2>4 DEF Follow
    <3>2. request \in Request
      <4> DEFINE w == IF caller[c].waits < 2 THEN caller[c].waits + 1
                      ELSE caller[c].waits
      <4>1. w \in Nat /\ Unit(c) \in Pages
        BY <2>r DEF Request, Unit
      <4>2. request = [caller[c] EXCEPT !.follows = @ \cup {Unit(c)},
                                        !.left = @ \cup {Unit(c)}, !.waits = w]
        OBVIOUS
      <4> HIDE DEF w, request
      <4> QED BY <2>r, <4>1, <4>2 DEF Request
    <3> HIDE DEF request
    <3> QED BY <3>1, <3>2, <1>t, ProbedType, OnlyCaller
  <2>5. CASE Settle(c)
    <3> DEFINE S == caller[c].left
               new == IF caller[c].err \/ S = {}
                      THEN [caller[c] EXCEPT !.pc = "done"]
                      ELSE [caller[c] EXCEPT !.pc = "lookup", !.unit = Lowest(S)]
    <3>1. /\ caller' = [caller EXCEPT ![c] = new] /\ Active(c) = {}
          /\ UNCHANGED <<want, entry, started, lead>>
      BY <2>5 DEF Settle
    <3>2. S # {} => Lowest(S) \in Pages
      <4>1. S \subseteq Pages /\ S \subseteq Nat
        BY <2>r, BoundsAssumption DEF Request
      <4> QED BY <4>1, LowestIn
    <3>3. new \in Request
      BY <3>2, <2>r DEF Request, Places
    <3>4. \A u \in Pages : lead[c][u].flight = None
      BY <3>1, <1>t DEF Active, GuardPlaces
    <3> HIDE DEF new
    <3>5. caller' \in [Callers -> Request] /\ \A d \in Callers \ {c} : caller'[d] = caller[d]
      BY <3>1, <3>3, <1>t DEF FlightType
    <3> QED BY <3>1, <3>4, <3>5, OnlyCaller
  <2>6. CASE Lookup(c) \/ Create(c) \/ Recheck(c) \/ Wake(c)
    <3>1. caller[c].pc \in Waiting
      BY <2>6 DEF Lookup, Create, Recheck, Wake, At, Waiting
    <3>2. UNCHANGED <<want, entry, started, lead>>
      BY <2>6 DEF Lookup, Create, Recheck, Wake
    <3>3. caller' \in [Callers -> Request]
      <4>1. CASE Lookup(c)
        <5>1. entry[Unit(c)] \in Nat
          BY <1>t, <2>r DEF FlightType, Request, Unit
        <5> QED BY <4>1, <5>1, <1>t, <2>r DEF Lookup, FlightType, Request, Places
      <4>2. CASE Create(c)
        <5> DEFINE late == caller[c].on \in signalled
        <5>1. late \in BOOLEAN
          OBVIOUS
        <5>2. caller' = [caller EXCEPT ![c].pc = "recheck", ![c].late = late]
          BY <4>2 DEF Create
        <5> HIDE DEF late
        <5> QED BY <5>1, <5>2, <1>t, <2>r DEF FlightType, Request, Places
      <4>3. CASE Recheck(c)
        BY <4>3, <1>t, <2>r DEF Recheck, Woken, FlightType, Request, Places, None
      <4>4. CASE Wake(c)
        BY <4>4, <1>t, <2>r DEF Wake, Woken, FlightType, Request, Places, None
      <4> QED BY <2>6, <4>1, <4>2, <4>3, <4>4
    <3>4. \A d \in Callers \ {c} : caller'[d] = caller[d]
      BY <2>6, <1>t DEF Lookup, Create, Recheck, Wake, FlightType
    <3> QED BY <3>1, <3>2, <3>3, <3>4, OnlyCaller
  <2>7. CASE Reprobe(c)
    <3> DEFINE k == Unit(c)
               place == IF ~Hit(c) /\ AsksAgain(c) THEN "admit" ELSE "settle"
    <3>1. /\ caller[c].pc \in Waiting
          /\ caller' = [caller EXCEPT ![c].left = @ \ {k}, ![c].pc = place]
          /\ UNCHANGED <<want, entry, started>>
      BY <2>7 DEF Reprobe, At, Waiting
    <3>2. place \in {"admit", "settle"}
      OBVIOUS
    <3> HIDE DEF place
    <3>3. caller' \in [Callers -> Request] /\ caller'[c].pc \notin Waiting
      BY <3>1, <3>2, <1>t, <2>r DEF FlightType, Request, Places, Waiting
    <3>4. \A d \in Callers \ {c} : caller'[d] = caller[d]
      BY <3>1, <1>t DEF FlightType
    <3>5. CASE lead' = lead
      BY <3>1, <3>3, <3>4, <3>5, OnlyCaller
    <3>6. CASE lead' = [lead EXCEPT ![c][k] = [Idle EXCEPT !.at = "fetch"]]
      <4>1. lead' = [lead EXCEPT ![c][k] = [at |-> "fetch", flight |-> None]]
        <5>1. [Idle EXCEPT !.at = "fetch"] = [at |-> "fetch", flight |-> None]
          BY DEF Idle
        <5> QED BY <3>6, <5>1
      <4>2. [at |-> "fetch", flight |-> None] \in Led
        BY DEF Led, Stages, None
      <4> HIDE DEF k
      <4>3. lead' \in [Callers -> [Pages -> Led]]
        BY <4>1, <4>2, <1>t DEF FlightType
      <4>4. \A d \in Callers, u \in Pages :
              lead'[d][u] = IF d = c /\ u = k THEN [at |-> "fetch", flight |-> None]
                            ELSE lead[d][u]
        BY <4>1, <1>t DEF FlightType
      <4>5. \A u \in Pages : lead[c][u].flight = None
        BY <3>1, <1>t DEF WaitsWithout
      <4>6. GuardPlaces'
        BY <4>4, <1>t DEF GuardPlaces
      <4>7. \A d \in Callers, u \in Pages :
              /\ lead'[d][u].flight = lead[d][u].flight
              /\ lead'[d][u].at = "signal" <=> lead[d][u].at = "signal"
        BY <4>4, <4>5, <1>t DEF GuardPlaces
      <4> QED BY <3>1, <3>3, <3>4, <4>3, <4>6, <4>7, GuardsKept
    <3> QED BY <2>7, <3>5, <3>6 DEF Reprobe
  <2>8. ASSUME NEW u \in Pages, Fetch(c, u)
        PROVE  OwnInv'
    <3> DEFINE g == [v \in Pages |->
                       IF v \in Run(c, u) /\ lead[c][v].at = "fetch"
                       THEN [lead[c][v] EXCEPT !.at = "commit"] ELSE lead[c][v]]
    <3>1. lead' = [lead EXCEPT ![c] = g] /\ UNCHANGED <<want, entry, started, caller>>
      BY <2>8, <1>t DEF Fetch, FlightType
    <3>2. \A v \in Pages : /\ g[v] \in Led /\ g[v].flight = lead[c][v].flight
                           /\ \/ g[v] = lead[c][v]
                              \/ g[v].at = "commit" /\ lead[c][v].at = "fetch"
      BY <2>r DEF Led, Stages
    <3>3. g \in [Pages -> Led]
      BY <3>2
    <3> HIDE DEF g
    <3> QED BY <3>1, <3>2, <3>3, <2>l
  <2>9. ASSUME NEW u \in Pages, FetchFails(c, u) \/ CommitFails(c, u)
        PROVE  OwnInv'
    BY <2>9, <2>f DEF FetchFails, CommitFails
  <2>10. ASSUME NEW u \in Pages, Commit(c, u)
         PROVE  OwnInv'
    <3>1. CASE lead' = [lead EXCEPT ![c] = Ended(c, Run(c, u))]
      BY <3>1, <2>10, <1>t, RunEnds DEF Commit, FlightType
    <3>2. CASE lead' = [lead EXCEPT ![c][u].at = "kept"]
      <4> DEFINE g == [lead[c] EXCEPT ![u].at = "kept"]
      <4>1. lead' = [lead EXCEPT ![c] = g] /\ UNCHANGED <<want, entry, started, caller>>
        BY <3>2, <2>10, <1>t DEF Commit, FlightType
      <4>2. lead[c][u].at = "commit"
        BY <2>10 DEF Commit, Committing
      <4>3. g \in [Pages -> Led]
        BY <2>r DEF Led, Stages
      <4>4. \A v \in Pages : /\ g[v].flight = lead[c][v].flight
                             /\ \/ g[v] = lead[c][v]
                                \/ g[v].at = "kept" /\ lead[c][v].at = "commit"
        BY <4>2, <2>r DEF Led
      <4> HIDE DEF g
      <4> QED BY <4>1, <4>3, <4>4, <2>l
    <3> QED BY <2>10, <3>1, <3>2 DEF Commit
  <2>11. ASSUME NEW u \in Pages, Remove(c, u)
         PROVE  OwnInv'
    <3>1. /\ lead[c][u].at = "remove" /\ entry' = [entry EXCEPT ![u] = None]
          /\ lead' = [lead EXCEPT ![c][u].at = "signal"]
          /\ UNCHANGED <<want, started, caller>>
      BY <2>11 DEF Remove
    <3>2. FlightType'
      <4>1. entry' \in [Pages -> Nat]
        BY <3>1, <1>t DEF FlightType, None
      <4>2. [lead[c] EXCEPT ![u].at = "signal"] \in [Pages -> Led]
        BY <2>r DEF Led, Stages
      <4>3. lead' = [lead EXCEPT ![c] = [lead[c] EXCEPT ![u].at = "signal"]]
        BY <3>1, <1>t DEF FlightType
      <4>4. lead' \in [Callers -> [Pages -> Led]]
        BY <4>2, <4>3, <1>t DEF FlightType
      <4> QED BY <3>1, <4>1, <4>4, <1>t DEF FlightType
    <3>3. \A d \in Callers, v \in Pages :
            lead'[d][v] = IF d = c /\ v = u THEN [lead[c][u] EXCEPT !.at = "signal"]
                          ELSE lead[d][v]
      BY <3>1, <1>t DEF FlightType
    <3>4. lead[c][u] \in Led /\ lead[c][u].flight # None
      BY <3>1, <1>t, <2>r DEF GuardPlaces
    <3>5. lead'[c][u].at = "signal" /\ lead'[c][u].flight = lead[c][u].flight
      BY <3>3, <3>4 DEF Led
    <3>6. GuardPlaces'
      BY <3>3, <3>4, <3>5, <1>t DEF GuardPlaces, None
    <3>7. WaitsWithout'
      BY <3>1, <3>3, <3>5, <1>t DEF WaitsWithout
    <3>8. Guards(u) = {c}
      BY <3>1, <3>4, <1>t DEF Guards, KeyOwned
    <3>9. Guards(u)' = {} /\ entry'[u] = None
      BY <3>1, <3>3, <3>5, <3>8, <1>t DEF Guards, FlightType
    <3>10. ASSUME NEW v \in Pages, v # u
           PROVE  /\ Guards(v)' = Guards(v) /\ entry'[v] = entry[v]
                  /\ \A d \in Callers : lead'[d][v] = lead[d][v]
      BY <3>1, <3>3, <3>10, <1>t DEF Guards, FlightType
    <3>11. KeyOwned'
      BY <3>9, <3>10, <1>t DEF KeyOwned, None
    <3> QED BY <3>2, <3>6, <3>7, <3>11 DEF OwnInv
  <2>12. ASSUME NEW u \in Pages, Signal(c, u)
         PROVE  OwnInv'
    <3>1. /\ lead[c][u].at = "signal"
          /\ lead' = [lead EXCEPT ![c][u] = [at |-> "free", flight |-> None]]
          /\ UNCHANGED <<want, entry, started, caller>>
      BY <2>12 DEF Signal
    <3>2. [at |-> "free", flight |-> None] \in Led
      BY DEF Led, Stages, None
    <3>3. FlightType'
      BY <3>1, <3>2, <1>t DEF FlightType
    <3>4. \A d \in Callers, v \in Pages :
            lead'[d][v] = IF d = c /\ v = u THEN [at |-> "free", flight |-> None]
                          ELSE lead[d][v]
      BY <3>1, <1>t DEF FlightType
    <3>5. GuardPlaces' /\ WaitsWithout'
      BY <3>1, <3>4, <1>t DEF GuardPlaces, WaitsWithout
    <3>6. ASSUME NEW v \in Pages
          PROVE  /\ Guards(v)' = Guards(v)
                 /\ \A d \in Guards(v) : lead'[d][v] = lead[d][v]
      BY <3>1, <3>4, <1>t DEF Guards
    <3>7. KeyOwned'
      BY <3>1, <3>6, <1>t DEF KeyOwned
    <3> QED BY <3>3, <3>5, <3>7 DEF OwnInv
  <2>13. CASE Cancel(c)
    BY <2>13, <2>d DEF Cancel, Leaves
  <2> QED BY <1>4, <2>1, <2>2, <2>3, <2>4, <2>5, <2>6, <2>7, <2>8, <2>9,
             <2>10, <2>11, <2>12, <2>13 DEF Step
<1> QED BY <1>1, <1>2, <1>3, <1>4 DEF Next

(* Nobody leads at the start.                                              *)
LEMMA OwnInit == Init => OwnInv
<1> SUFFICES ASSUME Init PROVE OwnInv
  OBVIOUS
<1>1. \A c \in Callers : Begin(want[c]) \in Request /\ Begin(want[c]).pc \notin Waiting
  <2> SUFFICES ASSUME NEW c \in Callers
               PROVE  Begin(want[c]) \in Request /\ Begin(want[c]).pc \notin Waiting
    OBVIOUS
  <2>1. want[c] \subseteq Pages /\ want[c] \subseteq Nat
    BY BoundsAssumption DEF Init
  <2>2. want[c] # {} => Lowest(want[c]) \in Pages
    BY <2>1, LowestIn
  <2> QED BY <2>2, BoundsAssumption DEF Begin, Fresh, Request, Places, Waiting, None
<1>2. Idle \in Led /\ Idle.flight = None /\ Idle.at = "none"
  BY DEF Idle, Led, Stages, None
<1>3. /\ want \in [Callers -> SUBSET Pages]
      /\ entry = [u \in Pages |-> None] /\ started = 0
      /\ caller = [c \in Callers |-> Begin(want[c])]
      /\ lead = [c \in Callers |-> [u \in Pages |-> Idle]]
  BY DEF Init
<1>4. FlightType
  BY <1>1, <1>2, <1>3 DEF FlightType, None
<1>5. \A c \in Callers, u \in Pages : lead[c][u] = Idle
  BY <1>3
<1>6. GuardPlaces /\ WaitsWithout /\ KeyOwned
  BY <1>2, <1>3, <1>5 DEF GuardPlaces, WaitsWithout, KeyOwned, Guards
<1> QED BY <1>4, <1>6 DEF OwnInv

(***************************************************************************)
(* complete removes the key that its own guard's admission inserted, and   *)
(* no cancellation or failure leaves a key without a guard: a unit never   *)
(* has a second leader, nor an orphan key.                                 *)
(***************************************************************************)
THEOREM KeyAlwaysOwned == Spec => []KeyOwned
<1>1. OwnInv => KeyOwned
  BY DEF OwnInv
<1> QED BY OwnInit, OwnStep, <1>1, PTL DEF Spec

-----------------------------------------------------------------------------
(* Nobody fetches what it found in flight                                  *)

\* What holds of a request while nothing has failed: it looks at its units in
\* ascending order, leads none that it follows, and what it follows is in
\* flight or cached; a unit is cached before its guard is dropped.
CleanOf(c) ==
  /\ caller[c].left \subseteq caller[c].follows
  /\ \A u \in caller[c].follows : lead[c][u] = Idle /\ (entry[u] # None \/ u \in cached)
  /\ \A u \in Pages : lead[c][u].at \in {"kept", "remove", "signal"} => u \in cached
  /\ caller[c].pc \in Waiting => caller[c].unit \in caller[c].follows
  /\ caller[c].pc = "reprobe" => caller[c].unit \in cached
  /\ caller[c].pc \in {"probe", "admit"} =>
       /\ \A u \in Pages : u >= caller[c].unit => lead[c][u] = Idle
       /\ \A v \in caller[c].follows : v < caller[c].unit

FollowInv == OwnInv /\ faults \in Nat /\ (faults = 0 => \A c \in Callers : CleanOf(c))

(* A request that does not move stays clean while units become cached and  *)
(* keys leave the map only for cached units.                               *)
LEMMA OthersClean ==
  ASSUME FlightType, NEW d \in Callers, CleanOf(d), caller'[d] = caller[d], lead'[d] = lead[d],
         cached \subseteq cached',
         \A u \in Pages : entry'[u] = entry[u] \/ entry'[u] # None \/ u \in cached'
  PROVE  CleanOf(d)'
<1>1. caller[d].follows \subseteq Pages
  BY DEF FlightType, Request
<1> QED BY <1>1 DEF CleanOf

(* The next unit that a request looks at is a later one.                   *)
LEMMA ProbedMoves ==
  ASSUME FlightType, NEW c \in Callers, NEW request \in Request, Probed(c, request)
  PROVE  /\ caller'[c].follows = request.follows /\ caller'[c].left = request.left
         /\ \/ caller'[c].pc = "settle"
            \/ caller'[c].pc = "probe" /\ caller'[c].unit \in Pages
               /\ caller'[c].unit > request.unit
<1> DEFINE rest == {u \in want[c] : u > request.unit}
           new == IF rest = {} THEN [request EXCEPT !.pc = "settle"]
                  ELSE [request EXCEPT !.pc = "probe", !.unit = Lowest(rest)]
<1>1. caller' = [caller EXCEPT ![c] = new]
  BY DEF Probed
<1>2. rest \subseteq Pages /\ rest \subseteq Nat
  BY BoundsAssumption DEF FlightType
<1>3. rest # {} => Lowest(rest) \in rest
  BY <1>2, LowestIn
<1>4. rest # {} => Lowest(rest) \in Pages /\ Lowest(rest) > request.unit
  BY <1>2, <1>3
<1>5. /\ new.follows = request.follows /\ new.left = request.left
      /\ \/ new.pc = "settle"
         \/ new.pc = "probe" /\ new.unit \in Pages /\ new.unit > request.unit
  <2> HIDE DEF rest
  <2> QED BY <1>4 DEF Request
<1>6. caller'[c] = new
  <2> HIDE DEF new
  <2> QED BY <1>1 DEF FlightType
<1> HIDE DEF new
<1> QED BY <1>5, <1>6

(* Ending a run touches its active units only.                             *)
LEMMA EndedOnly ==
  ASSUME FlightType, NEW c \in Callers, NEW R, NEW u \in Pages
  PROVE  /\ u \notin R => Ended(c, R)[u] = lead[c][u]
         /\ Ended(c, R)[u].at \in {"kept", "remove", "signal"} =>
              u \in R \/ lead[c][u].at \in {"kept", "remove", "signal"}
BY DEF Ended

(* A step that counts no fault keeps what holds while nothing failed.      *)
LEMMA FollowStep ==
  ASSUME FollowInv, Next, faults' = faults, \A c \in Callers : CleanOf(c)
  PROVE  \A c \in Callers : CleanOf(c)'
<1> USE DEF config, flights
<1>t. FlightType /\ GuardPlaces /\ KeyOwned /\ faults \in Nat
  BY DEF FollowInv, OwnInv
<1>f. ~Fault
  BY <1>t DEF Fault
<1>1. ASSUME NEW u \in Pages, Evict(u) PROVE FALSE
  BY <1>1, <1>f DEF Evict
<1>2. ASSUME NEW c \in Callers, NEW u \in Pages, CommitDetached(c, u), NEW d \in Callers
      PROVE  CleanOf(d)'
  <2>1. cached \subseteq cached' /\ UNCHANGED <<entry, caller, lead>>
    BY <1>2, <1>f DEF CommitDetached
  <2> QED BY <2>1, <1>t, OthersClean
<1>3. ASSUME NEW c \in Callers, Cancel(c) \/ ReadFails(c) PROVE FALSE
  BY <1>3, <1>f DEF Cancel, Leaves, ReadFails
<1>4. ASSUME NEW c \in Callers, NEW u \in Pages, FetchFails(c, u) \/ CommitFails(c, u)
      PROVE  FALSE
  BY <1>4, <1>f DEF FetchFails, CommitFails, RunFails
<1>5. ASSUME NEW c \in Callers, NEW d \in Callers,
             Probe(c) \/ Lead(c) \/ Follow(c) \/ Settle(c)
      PROVE  CleanOf(d)'
  <2>r. /\ caller[c] \in Request /\ lead[c] \in [Pages -> Led] /\ Unit(c) \in Pages
        /\ Unit(c) \in Nat /\ Pages \subseteq Nat
    BY <1>t, BoundsAssumption DEF FlightType, Request, Unit
  <2>c. /\ caller[c].left \subseteq caller[c].follows
        /\ \A u \in caller[c].follows : lead[c][u] = Idle /\ (entry[u] # None \/ u \in cached)
        /\ \A u \in Pages : lead[c][u].at \in {"kept", "remove", "signal"} => u \in cached
        /\ caller[c].pc \in {"probe", "admit"} =>
             /\ \A u \in Pages : u >= Unit(c) => lead[c][u] = Idle
             /\ \A v \in caller[c].follows : v < Unit(c)
        /\ caller[c].follows \subseteq Pages
    BY <2>r DEF CleanOf, Unit, Request
  <2>1. CASE Probe(c)
    <3>1. /\ caller[c].pc = "probe" /\ UNCHANGED <<entry, cached, lead>>
          /\ \A e \in Callers : e # c => caller'[e] = caller[e]
      BY <2>1, <1>t DEF Probe, At, Probed, Goto, FlightType
    <3>2. CASE d # c
      BY <3>1, <3>2, <1>t, OthersClean
    <3>3. CASE Hit(c)
      <4>1. /\ caller'[c].follows = caller[c].follows /\ caller'[c].left = caller[c].left
            /\ \/ caller'[c].pc = "settle"
               \/ caller'[c].pc = "probe" /\ caller'[c].unit \in Pages
                  /\ caller'[c].unit > Unit(c)
        BY <2>1, <3>3, <1>t, <2>r, ProbedMoves DEF Probe, Unit
      <4>2. caller'[c].pc \notin Waiting /\ caller'[c].pc # "reprobe" /\ caller'[c].pc # "admit"
        BY <4>1 DEF Waiting
      <4>3. ASSUME caller'[c].pc = "probe"
            PROVE  /\ \A u \in Pages : u >= caller'[c].unit => lead[c][u] = Idle
                   /\ \A v \in caller[c].follows : v < caller'[c].unit
        <5>1. caller'[c].unit \in Nat /\ caller'[c].unit > Unit(c)
          BY <4>1, <4>3, <2>r
        <5>2. \A u \in Pages : u \in Nat
          BY <2>r
        <5>3. ASSUME NEW u \in Pages, u >= caller'[c].unit PROVE lead[c][u] = Idle
          <6>1. u >= Unit(c)
            BY <5>1, <5>2, <5>3, <2>r
          <6> QED BY <6>1, <2>c, <3>1
        <5>4. ASSUME NEW v \in caller[c].follows PROVE v < caller'[c].unit
          <6>1. v < Unit(c) /\ v \in Nat
            BY <2>c, <2>r, <3>1
          <6> QED BY <6>1, <5>1, <2>r
        <5> QED BY <5>3, <5>4
      <4> QED BY <3>1, <3>2, <4>1, <4>2, <4>3, <2>c DEF CleanOf
    <3>4. CASE ~Hit(c) /\ d = c
      <4>1. /\ caller'[c].pc = "admit" /\ caller'[c].unit = caller[c].unit
            /\ caller'[c].follows = caller[c].follows /\ caller'[c].left = caller[c].left
        BY <2>1, <3>4, <1>t, <2>r DEF Probe, Goto, FlightType, Request
      <4> QED BY <3>1, <3>4, <4>1, <2>c DEF CleanOf, Waiting, Unit
    <3> QED BY <3>2, <3>3, <3>4
  <2>2. CASE Lead(c)
    <3>0. PICK k \in Pages : k = Unit(c)
      BY <2>r
    <3>1. /\ caller[c].pc = "admit" /\ UNCHANGED cached /\ Probed(c, caller[c])
          /\ started' \in Nat /\ started' # None /\ entry' = [entry EXCEPT ![k] = started']
          /\ lead' = [lead EXCEPT ![c][k] = [at |-> "fetch", flight |-> started']]
      BY <2>2, <3>0, <1>t DEF Lead, At, FlightType, None
    <3>2. /\ \A u \in Pages : entry'[u] = entry[u] \/ entry'[u] # None
          /\ \A e \in Callers : e # c => caller'[e] = caller[e] /\ lead'[e] = lead[e]
      BY <3>1, <1>t DEF FlightType, Probed
    <3>3. CASE d # c
      BY <3>1, <3>2, <3>3, <1>t, OthersClean
    <3>4. CASE d = c
      <4>1. /\ caller'[c].follows = caller[c].follows /\ caller'[c].left = caller[c].left
            /\ \/ caller'[c].pc = "settle"
               \/ caller'[c].pc = "probe" /\ caller'[c].unit \in Pages
                  /\ caller'[c].unit > k
        BY <3>0, <3>1, <1>t, <2>r, ProbedMoves DEF Unit
      <4>2. caller'[c].pc \notin Waiting /\ caller'[c].pc # "reprobe" /\ caller'[c].pc # "admit"
        BY <4>1 DEF Waiting
      <4>3. \A u \in Pages : lead'[c][u] = IF u = k THEN [at |-> "fetch", flight |-> started']
                                           ELSE lead[c][u]
        BY <3>1, <1>t DEF FlightType
      <4>4. k \in Nat /\ k \notin caller[c].follows
        BY <2>c, <2>r, <3>0, <3>1
      <4>5. ASSUME caller'[c].pc = "probe"
            PROVE  /\ \A u \in Pages : u >= caller'[c].unit => lead'[c][u] = Idle
                   /\ \A v \in caller[c].follows : v < caller'[c].unit
        <5>1. caller'[c].unit \in Nat /\ caller'[c].unit > k
          BY <4>1, <4>5, <2>r
        <5>2. ASSUME NEW u \in Pages, u >= caller'[c].unit PROVE lead'[c][u] = Idle
          <6>1. u >= k /\ u # k
            BY <5>1, <5>2, <4>4, <2>r
          <6>2. lead[c][u] = Idle
            BY <6>1, <2>c, <3>0, <3>1
          <6> QED BY <6>1, <6>2, <4>3
        <5>3. ASSUME NEW v \in caller[c].follows PROVE v < caller'[c].unit
          <6>1. v < k /\ v \in Nat
            BY <2>c, <2>r, <3>0, <3>1
          <6> QED BY <6>1, <5>1, <4>4
        <5> QED BY <5>2, <5>3
      <4>6. \A u \in caller[c].follows :
              lead'[c][u] = Idle /\ (entry'[u] # None \/ u \in cached)
        BY <2>c, <3>2, <4>3, <4>4
      <4>7. \A u \in Pages : lead'[c][u].at \in {"kept", "remove", "signal"} => u \in cached
        BY <2>c, <4>3
      <4> QED BY <3>1, <3>4, <4>1, <4>2, <4>5, <4>6, <4>7, <2>c DEF CleanOf
    <3> QED BY <3>3, <3>4
  <2>3. CASE Follow(c)
    <3> DEFINE k == Unit(c)
               request == [caller[c] EXCEPT !.follows = @ \cup {k}, !.left = @ \cup {k},
                                            !.waits = IF @ < 2 THEN @ + 1 ELSE @]
    <3>1. /\ caller[c].pc = "admit" /\ UNCHANGED <<entry, cached, lead>>
          /\ Probed(c, request) /\ entry[k] # None
      BY <2>3 DEF Follow, At
    <3>2. \A e \in Callers : e # c => caller'[e] = caller[e]
      BY <3>1, <1>t DEF FlightType, Probed
    <3>3. CASE d # c
      BY <3>1, <3>2, <3>3, <1>t, OthersClean
    <3>4. CASE d = c
      <4>1. /\ request \in Request /\ request.follows = caller[c].follows \cup {k}
            /\ request.left = caller[c].left \cup {k} /\ request.unit = k
        <5> DEFINE w == IF caller[c].waits < 2 THEN caller[c].waits + 1 ELSE caller[c].waits
        <5>1. w \in Nat
          BY <2>r DEF Request
        <5>2. request = [caller[c] EXCEPT !.follows = @ \cup {k}, !.left = @ \cup {k}, !.waits = w]
          OBVIOUS
        <5> HIDE DEF w, request
        <5> QED BY <2>r, <5>1, <5>2 DEF Request, Unit
      <4> HIDE DEF request
      <4>2. /\ caller'[c].follows = caller[c].follows \cup {k}
            /\ caller'[c].left = caller[c].left \cup {k}
            /\ \/ caller'[c].pc = "settle"
               \/ caller'[c].pc = "probe" /\ caller'[c].unit \in Pages /\ caller'[c].unit > k
        BY <3>1, <4>1, <1>t, ProbedMoves
      <4>3. caller'[c].pc \notin Waiting /\ caller'[c].pc # "reprobe" /\ caller'[c].pc # "admit"
        BY <4>2 DEF Waiting
      <4>4. lead[c][k] = Idle
        BY <2>c, <2>r, <3>1
      <4>5. ASSUME caller'[c].pc = "probe"
            PROVE  /\ \A u \in Pages : u >= caller'[c].unit => lead[c][u] = Idle
                   /\ \A v \in caller[c].follows \cup {k} : v < caller'[c].unit
        <5>1. caller'[c].unit \in Nat /\ caller'[c].unit > k /\ k \in Nat
          BY <4>2, <4>5, <2>r
        <5>2. ASSUME NEW u \in Pages, u >= caller'[c].unit PROVE lead[c][u] = Idle
          <6>1. u >= k
            BY <5>1, <5>2, <2>r
          <6> QED BY <6>1, <2>c, <3>1
        <5>3. ASSUME NEW v \in caller[c].follows PROVE v < caller'[c].unit
          <6>1. v < k /\ v \in Nat
            BY <2>c, <2>r, <3>1
          <6> QED BY <6>1, <5>1
        <5> QED BY <5>1, <5>2, <5>3
      <4> HIDE DEF k
      <4> QED BY <3>1, <3>4, <4>2, <4>3, <4>4, <4>5, <2>c DEF CleanOf
    <3> QED BY <3>3, <3>4
  <2>4. CASE Settle(c)
    <3> DEFINE S == caller[c].left
    <3>1. /\ UNCHANGED <<entry, cached, lead>>
          /\ \A e \in Callers : e # c => caller'[e] = caller[e]
      BY <2>4, <1>t DEF Settle, FlightType
    <3>2. CASE d # c
      BY <3>1, <3>2, <1>t, OthersClean
    <3>3. CASE d = c
      <4>1. S # {} => Lowest(S) \in S
        <5>1. S \subseteq Nat
          BY <2>r, <2>c
        <5> QED BY <5>1, LowestIn
      <4>2. /\ caller'[c].follows = caller[c].follows /\ caller'[c].left = S
            /\ \/ caller'[c].pc = "done"
               \/ caller'[c].pc = "lookup" /\ S # {} /\ caller'[c].unit = Lowest(S)
        <5> HIDE DEF S
        <5>1. caller' = [caller EXCEPT ![c] =
                IF caller[c].err \/ S = {} THEN [caller[c] EXCEPT !.pc = "done"]
                ELSE [caller[c] EXCEPT !.pc = "lookup", !.unit = Lowest(S)]]
          BY <2>4 DEF Settle, S
        <5>2. CASE caller[c].err \/ S = {}
          <6>1. caller'[c] = [caller[c] EXCEPT !.pc = "done"]
            BY <5>1, <5>2, <1>t DEF FlightType
          <6> QED BY <6>1, <2>r DEF Request, S
        <5>3. CASE ~(caller[c].err \/ S = {})
          <6>1. caller'[c] = [caller[c] EXCEPT !.pc = "lookup", !.unit = Lowest(S)]
            BY <5>1, <5>3, <1>t DEF FlightType
          <6> QED BY <6>1, <5>3, <2>r DEF Request, S
        <5> QED BY <5>2, <5>3
      <4> QED BY <3>1, <3>3, <4>1, <4>2, <2>c DEF CleanOf, Waiting
    <3> QED BY <3>2, <3>3
  <2> QED BY <1>5, <2>1, <2>2, <2>3, <2>4
<1>6. ASSUME NEW c \in Callers, NEW d \in Callers,
             Lookup(c) \/ Create(c) \/ Recheck(c) \/ Wake(c) \/ Reprobe(c)
      PROVE  CleanOf(d)'
  <2>r. caller[c] \in Request /\ caller[c].pc \in Waiting /\ Unit(c) = caller[c].unit
    BY <1>6, <1>t DEF FlightType, Lookup, Create, Recheck, Wake, Reprobe, At, Waiting, Unit
  <2>h. Unit(c) \in caller[c].follows /\ (entry[Unit(c)] # None \/ Unit(c) \in cached)
    BY <2>r DEF CleanOf
  <2>1. UNCHANGED <<entry, cached, lead>>
    <3>1. Reprobe(c) => Hit(c)
      BY <2>r DEF Reprobe, At, Hit, CleanOf
    <3> QED BY <1>6, <3>1 DEF Lookup, Create, Recheck, Wake, Reprobe
  <2>2. \A e \in Callers : e # c => caller'[e] = caller[e]
    BY <1>6, <1>t DEF FlightType, Lookup, Create, Recheck, Wake, Reprobe
  <2>3. CASE d # c
    BY <2>1, <2>2, <2>3, <1>t, OthersClean
  <2>4. /\ caller'[c].follows = caller[c].follows /\ caller'[c].left \subseteq caller[c].left
        /\ caller'[c].unit = caller[c].unit
        /\ caller'[c].pc \in Waiting \cup {"settle"}
        /\ caller'[c].pc = "reprobe" => Unit(c) \in cached
    <3>1. CASE Lookup(c)
      BY <3>1, <2>h, <2>r, <1>t DEF Lookup, FlightType, Request, Waiting
    <3>2. CASE Create(c)
      BY <3>2, <2>r, <1>t DEF Create, FlightType, Request, Waiting
    <3>3. CASE Recheck(c)
      BY <3>3, <2>h, <2>r, <1>t DEF Recheck, Woken, FlightType, Request, Waiting
    <3>4. CASE Wake(c)
      BY <3>4, <2>r, <1>t DEF Wake, Woken, FlightType, Request, Waiting
    <3>5. CASE Reprobe(c)
      <4>1. Hit(c)
        BY <3>5, <2>r DEF Reprobe, At, Hit, CleanOf
      <4>2. caller' = [caller EXCEPT ![c].left = @ \ {Unit(c)}, ![c].pc = "settle"]
        BY <3>5, <4>1 DEF Reprobe
      <4> QED BY <4>2, <2>r, <1>t DEF FlightType, Request, Waiting
    <3> QED BY <1>6, <3>1, <3>2, <3>3, <3>4, <3>5
  <2>5. caller'[c].pc \notin {"probe", "admit"}
    BY <2>4 DEF Waiting
  <2> QED BY <2>1, <2>3, <2>4, <2>5, <2>h, <2>r DEF CleanOf
<1>7. ASSUME NEW c \in Callers, NEW d \in Callers, NEW u \in Pages,
             Fetch(c, u) \/ Commit(c, u) \/ Remove(c, u) \/ Signal(c, u)
      PROVE  CleanOf(d)'
  <2>r. /\ lead[c] \in [Pages -> Led] /\ caller' = caller /\ cached \subseteq cached'
        /\ caller[c].follows \subseteq Pages
    BY <1>7, <1>t DEF FlightType, Fetch, Commit, Remove, Signal, Request
  <2>c. /\ \A v \in caller[c].follows : lead[c][v] = Idle /\ (entry[v] # None \/ v \in cached)
        /\ \A v \in Pages : lead[c][v].at \in {"kept", "remove", "signal"} => v \in cached
    BY DEF CleanOf
  <2>1. /\ \A v \in Pages : entry'[v] = entry[v] \/ v \in cached
        /\ \A e \in Callers : e # c => lead'[e] = lead[e]
        /\ lead'[c] \in [Pages -> Led]
        /\ \A v \in Pages : lead[c][v].at = "none" => lead'[c][v] = lead[c][v]
        /\ \A v \in Pages : lead'[c][v].at \in {"kept", "remove", "signal"} => v \in cached'
    <3>1. CASE Fetch(c, u)
      <4> DEFINE g == [v \in Pages |->
                         IF v \in Run(c, u) /\ lead[c][v].at = "fetch"
                         THEN [lead[c][v] EXCEPT !.at = "commit"] ELSE lead[c][v]]
      <4>1. lead' = [lead EXCEPT ![c] = g] /\ UNCHANGED <<entry, cached>>
        BY <3>1, <1>t DEF Fetch, FlightType
      <4>2. \A v \in Pages : /\ g[v] \in Led
                             /\ \/ g[v] = lead[c][v]
                                \/ g[v].at = "commit" /\ lead[c][v].at = "fetch"
        BY <2>r DEF Led, Stages
      <4>3. g \in [Pages -> Led]
        BY <4>2
      <4> HIDE DEF g
      <4>4. lead'[c] = g /\ \A e \in Callers : e # c => lead'[e] = lead[e]
        BY <4>1, <1>t DEF FlightType
      <4> QED BY <4>1, <4>2, <4>3, <4>4, <2>c
    <3>2. CASE Commit(c, u)
      <4>1. /\ lead[c][u].at = "commit" /\ cached' = cached \cup {u} /\ entry' = entry
            /\ \A v \in Run(c, u) : v < u => lead[c][v].at = "kept"
            /\ Run(c, u) \subseteq Active(c)
        BY <3>2 DEF Commit, Committing, Run
      <4>2. \A v \in Pages : lead[c][v].at = "none" => v \notin Run(c, u) /\ v # u
        BY <4>1 DEF Active
      <4>3. CASE /\ \A v \in Run(c, u) : v <= u
                 /\ lead' = [lead EXCEPT ![c] = Ended(c, Run(c, u))]
        <5> DEFINE g == Ended(c, Run(c, u))
        <5>1. g \in [Pages -> Led]
          BY <1>t, EndedKeeps
        <5>2. \A v \in Pages :
                /\ v \notin Run(c, u) => g[v] = lead[c][v]
                /\ g[v].at \in {"kept", "remove", "signal"} =>
                     v \in Run(c, u) \/ lead[c][v].at \in {"kept", "remove", "signal"}
          BY <1>t, EndedOnly
        <5>3. ASSUME NEW v \in Run(c, u) PROVE v \in cached'
          <6>1. v \in Pages /\ v \in Nat /\ u \in Nat
            BY <4>1, BoundsAssumption DEF Active
          <6>2. v = u \/ v < u
            BY <6>1, <4>3
          <6> QED BY <6>1, <6>2, <4>1, <2>c
        <5>4. lead' = [lead EXCEPT ![c] = g]
          BY <4>3
        <5> HIDE DEF g
        <5>5. lead'[c] = g /\ \A e \in Callers : e # c => lead'[e] = lead[e]
          BY <5>4, <1>t DEF FlightType
        <5> QED BY <4>1, <4>2, <5>1, <5>2, <5>3, <5>5, <2>c
      <4>4. CASE lead' = [lead EXCEPT ![c][u].at = "kept"]
        <5> DEFINE g == [lead[c] EXCEPT ![u].at = "kept"]
        <5>1. lead' = [lead EXCEPT ![c] = g]
          BY <4>4, <1>t DEF FlightType
        <5>2. g \in [Pages -> Led] /\ \A v \in Pages : v # u => g[v] = lead[c][v]
          BY <2>r DEF Led, Stages
        <5> HIDE DEF g
        <5>3. lead'[c] = g /\ \A e \in Callers : e # c => lead'[e] = lead[e]
          BY <5>1, <1>t DEF FlightType
        <5> QED BY <4>1, <4>2, <5>2, <5>3, <2>c
      <4> QED BY <3>2, <4>3, <4>4 DEF Commit
    <3>3. CASE Remove(c, u)
      <4>1. /\ lead[c][u].at = "remove" /\ entry' = [entry EXCEPT ![u] = None]
            /\ lead' = [lead EXCEPT ![c][u].at = "signal"] /\ cached' = cached
        BY <3>3 DEF Remove
      <4> DEFINE g == [lead[c] EXCEPT ![u].at = "signal"]
      <4>2. lead' = [lead EXCEPT ![c] = g]
        BY <4>1, <1>t DEF FlightType
      <4>3. g \in [Pages -> Led] /\ \A v \in Pages : v # u => g[v] = lead[c][v]
        BY <2>r DEF Led, Stages
      <4> HIDE DEF g
      <4>4. lead'[c] = g /\ \A e \in Callers : e # c => lead'[e] = lead[e]
        BY <4>2, <1>t DEF FlightType
      <4>5. \A v \in Pages : entry'[v] = entry[v] \/ v = u
        BY <4>1, <1>t DEF FlightType
      <4> QED BY <4>1, <4>3, <4>4, <4>5, <2>c
    <3>4. CASE Signal(c, u)
      <4>1. /\ lead[c][u].at = "signal" /\ entry' = entry /\ cached' = cached
            /\ lead' = [lead EXCEPT ![c][u] = [at |-> "free", flight |-> None]]
        BY <3>4 DEF Signal
      <4>2. [at |-> "free", flight |-> None] \in Led
        BY DEF Led, Stages, None
      <4>3. /\ lead'[c] \in [Pages -> Led] /\ \A e \in Callers : e # c => lead'[e] = lead[e]
            /\ \A v \in Pages : lead'[c][v] = IF v = u THEN [at |-> "free", flight |-> None]
                                              ELSE lead[c][v]
        BY <4>1, <4>2, <1>t DEF FlightType
      <4> QED BY <4>1, <4>3, <2>c
    <3> QED BY <1>7, <3>1, <3>2, <3>3, <3>4
  <2>2. CASE d # c
    <3>1. caller'[d] = caller[d] /\ lead'[d] = lead[d] /\ CleanOf(d)
      BY <2>1, <2>2, <2>r
    <3>2. \A v \in Pages : entry'[v] = entry[v] \/ v \in cached'
      BY <2>1, <2>r
    <3> QED BY <3>1, <3>2, <2>r, <1>t, OthersClean
  <2>3. CASE d = c
    <3>1. \A v \in Pages : lead[c][v] = Idle => lead'[c][v] = Idle
      BY <2>1 DEF Idle
    <3>2. \A v \in caller[c].follows :
            lead'[c][v] = Idle /\ (entry'[v] # None \/ v \in cached')
      BY <2>1, <2>c, <2>r, <3>1
    <3> QED BY <2>1, <2>3, <2>r, <3>1, <3>2 DEF CleanOf
  <2> QED BY <2>2, <2>3
<1> QED BY <1>1, <1>2, <1>3, <1>4, <1>5, <1>6, <1>7 DEF Next, Step

\* A step counts at most one fault.
LEMMA FaultsCount ==
  ASSUME Next
  PROVE  faults' = faults \/ faults' = faults + 1
<1>1. ASSUME NEW c \in Callers,
             Probe(c) \/ Lead(c) \/ Follow(c) \/ Settle(c) \/ Lookup(c)
      PROVE  faults' = faults
  BY <1>1 DEF Probe, Lead, Follow, Settle, Lookup
<1>2. ASSUME NEW c \in Callers, Create(c) \/ Recheck(c) \/ Wake(c) \/ Reprobe(c)
      PROVE  faults' = faults
  BY <1>2 DEF Create, Recheck, Wake, Reprobe
<1>3. ASSUME NEW c \in Callers, NEW u \in Pages,
             Fetch(c, u) \/ Commit(c, u) \/ Remove(c, u) \/ Signal(c, u)
      PROVE  faults' = faults
  BY <1>3 DEF Fetch, Commit, Remove, Signal
<1>4. ASSUME NEW c \in Callers, NEW u \in Pages, FetchFails(c, u) \/ CommitFails(c, u)
      PROVE  faults' = faults + 1
  BY <1>4 DEF FetchFails, CommitFails, RunFails, Fault
<1>5. ASSUME NEW c \in Callers, ReadFails(c) PROVE faults' = faults + 1
  BY <1>5 DEF ReadFails, Fault
<1>6. ASSUME NEW c \in Callers, Cancel(c) PROVE faults' = faults + 1
  BY <1>6 DEF Cancel, Leaves, Fault
<1>7. ASSUME NEW c \in Callers, NEW u \in Pages, CommitDetached(c, u)
      PROVE  faults' = faults \/ faults' = faults + 1
  BY <1>7 DEF CommitDetached, Fault
<1>8. ASSUME NEW u \in Pages, Evict(u) PROVE faults' = faults + 1
  BY <1>8 DEF Evict, Fault
<1> QED BY <1>1, <1>2, <1>3, <1>4, <1>5, <1>6, <1>7, <1>8 DEF Next, Step

(***************************************************************************)
(* A request that found a load in flight never fetches that unit again     *)
(* when nothing failed, was cancelled or was evicted: the leader's guard,  *)
(* and that of every page of its run, outlives the commit.                 *)
(***************************************************************************)
THEOREM NoFollowerFetches == Spec => []FollowersNeverFetch
<1>1. Init => FollowInv
  <2> SUFFICES ASSUME Init PROVE FollowInv
    OBVIOUS
  <2>1. /\ faults = 0 /\ caller = [c \in Callers |-> Begin(want[c])]
        /\ lead = [c \in Callers |-> [u \in Pages |-> Idle]]
    BY DEF Init
  <2>2. Idle.at = "none"
    BY DEF Idle
  <2>3. ASSUME NEW c \in Callers PROVE CleanOf(c)
    <3>1. /\ caller[c].follows = {} /\ caller[c].left = {} /\ caller[c].pc \in {"probe", "done"}
          /\ \A u \in Pages : lead[c][u] = Idle
      BY <2>1 DEF Begin, Fresh
    <3> QED BY <2>2, <3>1 DEF CleanOf, Waiting
  <2> QED BY <2>1, <2>3, OwnInit DEF FollowInv
<1>2. FollowInv /\ [Next]_vars => FollowInv'
  <2> SUFFICES ASSUME FollowInv, [Next]_vars PROVE FollowInv'
    OBVIOUS
  <2>1. OwnInv'
    BY OwnStep DEF FollowInv
  <2>2. CASE UNCHANGED vars
    <3>1. UNCHANGED <<caller, lead, cached, entry, faults>>
      BY <2>2 DEF vars, flights
    <3> QED BY <2>1, <3>1 DEF FollowInv, CleanOf
  <2>3. CASE Next
    <3>1. faults' = faults \/ faults' = faults + 1
      BY <2>3, FaultsCount
    <3>2. faults \in Nat
      BY DEF FollowInv
    <3>3. CASE faults' = faults
      BY <2>1, <2>3, <3>2, <3>3, FollowStep DEF FollowInv
    <3>4. CASE faults' = faults + 1
      BY <2>1, <3>2, <3>4 DEF FollowInv
    <3> QED BY <3>1, <3>3, <3>4
  <2> QED BY <2>2, <2>3
<1>3. FollowInv => FollowersNeverFetch
  BY DEF FollowInv, FollowersNeverFetch, CleanOf
<1> QED BY <1>1, <1>2, <1>3, PTL DEF Spec
=============================================================================
