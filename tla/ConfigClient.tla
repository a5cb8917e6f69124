---------------------------- MODULE ConfigClient ----------------------------
(***************************************************************************)
(* The client of internal/configserver/client.go composed with the server: *)
(* the goroutine Start runs on a ticker and another goroutine of the       *)
(* application refresh one cache, and a listener hears of the changes.     *)
(***************************************************************************)
EXTENDS ConfigServer

CONSTANTS
  Ticker,     \* the goroutine of Start; Asker is the application's
  RetryCount,
  MaxAsks     \* bound: refreshes by the application

ASSUME ClientAssumption ==
  /\ Ticker # Asker /\ Nobody # Watcher /\ Asker \notin {Nobody, Watcher}
  /\ RetryCount \in Nat /\ MaxAsks \in Nat

VARIABLES
  phase,    \* "new" or, with FailFast, "strict" in NewConfigClient; "run",
            \* "failed", "stopped", "crashed"
  stage,       \* stage[r]: where a refresh is
  tries,    \* attempts made by fetchConfig
  resp,     \* resp[r]: the configuration the answer brought
  old,      \* old[r]: oldConfig of updateCache
  clientCache, \* c.cache
  notes,    \* the configurations for which go listener(config) was started
  asks

clientVars == <<phase, stage, tries, resp, old, clientCache, notes, asks>>
configVars == <<serverVars, clientVars>>

Refresher == {Ticker, Asker}
Goto(r, l) == stage' = [stage EXCEPT ![r] = l]

\* The application's first refresh is the one of NewConfigClient.
ClientInit ==
  /\ ServerInit
  /\ phase \in {"new", "strict"}
  /\ stage = [r \in Refresher |-> IF r = Asker THEN "get" ELSE "idle"]
  /\ tries = [r \in Refresher |-> 0]
  /\ resp = [r \in Refresher |-> EmptyTree]
  /\ old = [r \in Refresher |-> EmptyTree]
  /\ clientCache = EmptyTree
  /\ notes = {}
  /\ asks = 0

Alive == phase \in {"new", "strict", "run", "stopped"}
-----------------------------------------------------------------------------
\* The ticker's Refresh, until Stop, and the application's.
Refresh(r) ==
  /\ stage[r] = "idle"
  /\ \/ r = Ticker /\ phase = "run" /\ UNCHANGED asks
     \/ r = Asker /\ phase \in {"run", "stopped"} /\ asks < MaxAsks /\ asks' = asks + 1
  /\ Goto(r, "get")
  /\ UNCHANGED <<serverVars, phase, tries, resp, old, clientCache, notes>>

\* RefreshConfig: the server reloads first.
RefreshConfig ==
  /\ stage[Asker] = "idle" /\ phase \in {"run", "stopped"} /\ asks < MaxAsks
  /\ asks' = asks + 1
  /\ loadConfigs(Asker)
  /\ Goto(Asker, "post")
  /\ UNCHANGED <<disk, loaded, events, aborted, edits, phase, tries, resp, old,
                 clientCache, notes>>

\* ... and its answer: 200, on to fetchConfig, or 500, RefreshConfig fails.
Refreshed ==
  /\ \/ LoadDone(Asker) /\ Goto(Asker, "get")
     \/ LoadFails(Asker) /\ Goto(Asker, "idle")
  /\ UNCHANGED <<phase, tries, resp, old, clientCache, notes, asks>>

\* The first refresh is over: NewConfigClient returns.
Constructed(ok) ==
  phase' = IF phase = "strict" /\ ~ok THEN "failed"
           ELSE IF phase \in {"new", "strict"} THEN "run" ELSE phase

\* fetchConfigOnce gets an answer, made under the server's read lock ...
Answered(r) ==
  /\ Alive /\ stage[r] = "get" /\ walker = Nobody
  /\ GetConfig # NotFound
  /\ resp' = [resp EXCEPT ![r] = GetConfig]
  /\ Goto(r, "swap")
  /\ tries' = [tries EXCEPT ![r] = 0]
  /\ UNCHANGED <<serverVars, phase, old, clientCache, notes, asks>>

\* ... or a 404, or none, and fetchConfig tries again or gives up.
Unanswered(r) ==
  /\ Alive /\ stage[r] = "get"
  /\ IF tries[r] < RetryCount
     THEN tries' = [tries EXCEPT ![r] = @ + 1] /\ UNCHANGED <<stage, phase>>
     ELSE /\ tries' = [tries EXCEPT ![r] = 0]
          /\ Goto(r, "idle") /\ Constructed(FALSE)
  /\ UNCHANGED <<serverVars, resp, old, clientCache, notes, asks>>

\* Mutant: a cache that is filled is not replaced.
updateCacheOnce(r) ==
  /\ Alive /\ stage[r] = "swap"
  /\ old' = [old EXCEPT ![r] = clientCache]
  /\ clientCache' = IF clientCache = EmptyTree THEN resp[r] ELSE clientCache
  /\ Goto(r, "compare")
  /\ UNCHANGED <<serverVars, phase, tries, resp, notes, asks>>

\* updateCache, under the client's lock.  Whichever answer comes last wins.
updateCache(r) ==
  /\ Alive /\ stage[r] = "swap"
  /\ old' = [old EXCEPT ![r] = clientCache]
  /\ clientCache' = resp[r]
  /\ Goto(r, "compare")
  /\ UNCHANGED <<serverVars, phase, tries, resp, notes, asks>>

Differ(a, b) == {k \in DOMAIN a : k \notin DOMAIN b \/ a[k] # b[k]}

\* The keys that hold a section on both sides: != on two maps panics.
Incomparable(a, b) ==
  {k \in DOMAIN a \cap DOMAIN b : IsSection(a[k]) /\ IsSection(b[k])}

\* Mutant: only the number of keys is compared.
SameSize(a, b) == IF Cardinality(DOMAIN a) = Cardinality(DOMAIN b) THEN {"equal"} ELSE {"differ"}

\* configEqual: the outcomes its comparison may have, "panic" among them, since
\* Go ranges over the keys in any order and stops at the first difference.
configEqual(a, b) ==
  IF Cardinality(DOMAIN a) # Cardinality(DOMAIN b) THEN {"differ"}
  ELSE IF Incomparable(a, b) # {}
       THEN {"panic"} \cup {"differ" : k \in Differ(a, b) \ Incomparable(a, b)}
       ELSE {IF Differ(a, b) = {} THEN "equal" ELSE "differ"}

\* The end of updateCache: the listener is called from a goroutine of its own,
\* which runs in any order with the others.
Compared(r) ==
  /\ Alive /\ stage[r] = "compare"
  /\ \E eq \in configEqual(old[r], resp[r]) :
       IF eq = "panic"
       THEN phase' = "crashed" /\ UNCHANGED <<stage, notes, resp, old>>
       ELSE /\ notes' = IF eq = "equal" THEN notes ELSE notes \cup {resp[r]}
            /\ Goto(r, "idle")
            /\ Constructed(TRUE)
            /\ resp' = [resp EXCEPT ![r] = EmptyTree]
            /\ old' = [old EXCEPT ![r] = EmptyTree]
  /\ UNCHANGED <<serverVars, tries, clientCache, asks>>

Stop ==
  /\ phase = "run" /\ phase' = "stopped"
  /\ UNCHANGED <<serverVars, stage, tries, resp, old, clientCache, notes, asks>>
-----------------------------------------------------------------------------
Fetch(r) == Answered(r) \/ Unanswered(r) \/ updateCache(r) \/ Compared(r)

ClientNext ==
  \/ ServerNext /\ UNCHANGED clientVars
  \/ \E r \in Refresher : Refresh(r) \/ Fetch(r)
  \/ RefreshConfig \/ Refreshed \/ Stop

\* The watcher, a load that has begun, the ticker and a fetch that has begun
\* all go on, and of infinitely many requests one is answered.
ClientFairness ==
  /\ SF_configVars(handleWatcherEvent /\ UNCHANGED clientVars)
  /\ WF_configVars(Load /\ UNCHANGED clientVars)
  /\ WF_configVars(Refreshed)
  /\ WF_configVars(Refresh(Ticker))
  /\ \A r \in Refresher : WF_configVars(Fetch(r)) /\ SF_configVars(Answered(r))

ClientSpec == ClientInit /\ [][ClientNext]_configVars /\ ClientFairness
-----------------------------------------------------------------------------
(* Properties.                                                             *)

\* Every change of the cache is told: the configuration in the cache is one
\* the listener has been or will be called with, however two refreshes
\* interleave.  (With which one it is called last is up to the scheduler.)
ChangesTold ==
  phase # "crashed" =>
    \/ clientCache = EmptyTree
    \/ clientCache \in notes
    \/ \E r \in Refresher : stage[r] = "compare" /\ resp[r] = clientCache

\* The client follows the server: once the files are left alone and until
\* Stop, its cache comes to hold what the server serves.
CacheConverges ==
  <>[](\/ phase \in {"failed", "stopped", "crashed"}
       \/ GetConfig = NotFound
       \/ clientCache = GetConfig)
=============================================================================
