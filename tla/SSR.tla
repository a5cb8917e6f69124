--------------------------------- MODULE SSR ---------------------------------
(***************************************************************************)
(* The service of server-side rendering and its cache of results           *)
(* (internal/domain/service/impl/ssr_service_impl.go): requests look a     *)
(* component up, count, render and store under separate locks, while the   *)
(* cache is cleared, expires and is cleaned up.                            *)
(*                                                                         *)
(* What the placeholder engine renders is left out but for the props,      *)
(* which come back as the State of the result.                             *)
(***************************************************************************)
EXTENDS Naturals, FiniteSets

CONSTANTS
  Component, Props,
  Req,       \* goroutines that serve requests
  CacheTTL,  \* of the configuration
  MaxTime, MaxRenders, MaxClears \* bounds: the clock, requests and ClearCache calls

ASSUME SSRAssumption ==
  {CacheTTL, MaxTime, MaxRenders, MaxClears} \subseteq Nat /\ IsFiniteSet(Req)

VARIABLES
  now,
  cacheEnabled,
  cache,   \* the results, by key: framework and component; each with (history)
           \* when and after how many clears it was stored
  stats,   \* react_renders and so on
  req,     \* req[q]: where request q is, what it asks for and what it has
  clears   \* history: ClearCache calls so far

ssrVars == <<now, cacheEnabled, cache, stats, req, clears>>

Idle == [at |-> "idle", key |-> <<>>, props |-> {}, begun |-> 0, looked |-> 0,
         cached |-> FALSE, result |-> <<>>]

SSRInit ==
  /\ now = 0 /\ clears = 0
  /\ cacheEnabled \in BOOLEAN
  /\ cache = << >>
  /\ stats = [react |-> 0, angular |-> 0, hits |-> 0, misses |-> 0]
  /\ req = [q \in Req |-> Idle]

IncrementStat(name) == stats' = [stats EXCEPT ![name] = @ + 1]
-----------------------------------------------------------------------------
(* RenderReact and RenderAngular.                                          *)

Begin(q, f, c, p) ==
  /\ req[q].at \in {"idle", "answered"}
  /\ stats.react + stats.angular < MaxRenders
  /\ IncrementStat(f)
  /\ req' = [req EXCEPT ![q] = [Idle EXCEPT !.at = IF cacheEnabled THEN "lookup" ELSE "render",
                                            !.key = <<f, c>>, !.props = p, !.begun = clears]]
  /\ UNCHANGED <<now, cacheEnabled, cache, clears>>

RenderReact(q, c, p) == Begin(q, "react", c, p)
RenderAngular(q, c, p) == Begin(q, "angular", c, p)

\* An entry stays good to the last instant of its TTL.
Expired(k) == now > cache[k].at + CacheTTL

\* Mutant: the entry's time of expiry is left to cleanupCache.
getEvenExpired(q) ==
  /\ req[q].at = "lookup"
  /\ req' = [req EXCEPT ![q] = IF req[q].key \in DOMAIN cache
                               THEN [@ EXCEPT !.at = "hit", !.looked = now,
                                               !.result = cache[req[q].key]]
                               ELSE [@ EXCEPT !.at = "miss"]]
  /\ UNCHANGED <<now, cacheEnabled, cache, stats, clears>>

\* The result is copied under the lock.
getFromCache(q) ==
  /\ req[q].at = "lookup"
  /\ req' = [req EXCEPT ![q] = IF req[q].key \in DOMAIN cache /\ ~Expired(req[q].key)
                               THEN [@ EXCEPT !.at = "hit", !.looked = now,
                                               !.result = cache[req[q].key]]
                               ELSE [@ EXCEPT !.at = "miss"]]
  /\ UNCHANGED <<now, cacheEnabled, cache, stats, clears>>

CountHit(q) ==
  /\ req[q].at = "hit"
  /\ IncrementStat("hits")
  /\ req' = [req EXCEPT ![q].at = "answered", ![q].cached = TRUE]
  /\ UNCHANGED <<now, cacheEnabled, cache, clears>>

\* Mutant: a miss is not counted.
MissUncounted(q) ==
  /\ req[q].at = "miss"
  /\ req' = [req EXCEPT ![q].at = "render"]
  /\ UNCHANGED <<now, cacheEnabled, cache, stats, clears>>

CountMiss(q) ==
  /\ req[q].at = "miss"
  /\ IncrementStat("misses")
  /\ req' = [req EXCEPT ![q].at = "render"]
  /\ UNCHANGED <<now, cacheEnabled, cache, clears>>

\* Whatever is under the key, and whenever the render began.
putInCache(k, result) ==
  cache' = [i \in DOMAIN cache \cup {k} |-> IF i = k THEN result ELSE cache[i]]

Answer(q) ==
  LET result == [key |-> req[q].key, state |-> req[q].props, at |-> now, clears |-> clears]
  IN  /\ req[q].at = "render"
      /\ req' = [req EXCEPT ![q].at = "answered", ![q].result = result]
      /\ IF cacheEnabled THEN putInCache(req[q].key, result) ELSE UNCHANGED cache
      /\ UNCHANGED <<now, cacheEnabled, stats, clears>>
-----------------------------------------------------------------------------
ClearCache ==
  /\ clears < MaxClears
  /\ cache' = << >>
  /\ clears' = clears + 1
  /\ UNCHANGED <<now, cacheEnabled, stats, req>>

\* The ticker of cleanupCache.
CleanupCache ==
  /\ \E k \in DOMAIN cache : Expired(k)
  /\ cache' = [k \in {i \in DOMAIN cache : ~Expired(i)} |-> cache[k]]
  /\ UNCHANGED <<now, cacheEnabled, stats, req, clears>>

Tick ==
  /\ now < MaxTime
  /\ now' = now + 1
  /\ UNCHANGED <<cacheEnabled, cache, stats, req, clears>>

GetStatus == [renders |-> stats.react + stats.angular, hits |-> stats.hits,
              misses |-> stats.misses, cacheSize |-> Cardinality(DOMAIN cache)]

\* What the controller answers to.
SSRRequest(q) ==
  \E c \in Component, p \in Props : RenderReact(q, c, p) \/ RenderAngular(q, c, p)

RenderStep(q) == getFromCache(q) \/ CountHit(q) \/ CountMiss(q) \/ Answer(q)

SSRNext ==
  \/ \E q \in Req : SSRRequest(q) \/ RenderStep(q)
  \/ ClearCache \/ CleanupCache \/ Tick

SSRSpec == SSRInit /\ [][SSRNext]_ssrVars
-----------------------------------------------------------------------------
(* Properties.                                                             *)

\* An answer is a render of the component that was asked for, by the framework
\* that was asked.  One from the cache was stored at most CacheTTL before the
\* lookup, and after every ClearCache that came before the request: clearing
\* takes effect although renders that began earlier still store their results,
\* and cleanupCache runs late.  Only a fresh render is sure to have the
\* request's own props, for the cache's keys leave them out.
AnswersCurrent ==
  \A q \in Req :
    req[q].at = "answered" =>
      /\ req[q].result.key = req[q].key
      /\ IF req[q].cached
           THEN /\ req[q].looked <= req[q].result.at + CacheTTL
                /\ req[q].begun <= req[q].result.clears
           ELSE req[q].result.state = req[q].props

\* What GetStatus reports adds up: every counted render is a hit, a miss, or
\* of a request between its two counts; without a cache there is neither, and
\* nothing is stored.
StatsAdd ==
  LET under == {q \in Req : req[q].at \in {"lookup", "hit", "miss"}}
  IN  IF cacheEnabled
        THEN GetStatus.renders = GetStatus.hits + GetStatus.misses + Cardinality(under)
        ELSE GetStatus.hits = 0 /\ GetStatus.misses = 0 /\ GetStatus.cacheSize = 0
=============================================================================
