----------------------------- MODULE FilesProofs -----------------------------
(***************************************************************************)
(* What is kept in files and in memory, and must agree.                    *)
(*                                                                         *)
(* The plugins run, for any number of plugins, requests and loads: a       *)
(* plugin's row and its file go together, its state moves only along the   *)
(* legal transitions, and the manager knows what runs.                     *)
(*                                                                         *)
(* The config run, for files of any content and depth: a profile overrides *)
(* the default profile value by value, and the listener is told of         *)
(* whatever reaches the cache.  A section is merged by recursion, so the   *)
(* first needs an induction: the least height, or the shortest part of a   *)
(* path, at which a claim fails is not the least (LeastNumber).            *)
(***************************************************************************)
EXTENDS PluginService, ConfigClient, TLAPS

-----------------------------------------------------------------------------
(* The plugins.                                                            *)

Records == {"none", "INSTALLED", "ENABLED", "DISABLED"}

\* The steps of the service, and those of the manager with its idle requests.
Own == InstallStep \cup UninstallStep \cup {"enable", "disable"}
Foreign == StartStop \cup {"idle"}

ServiceTyped ==
  /\ record \in [Key -> Records]
  /\ files \in [Key -> {"none", "part", "whole"}]
  /\ key \in [Req -> Key]
  /\ pc \in [Req -> Own \cup Foreign]

\* What is known of a request of the service: its key was given out, a row about
\* to be disabled was enabled before, and ...
RequestOK(q) ==
  /\ pc[q] \in Own => key[q] \in dir
  /\ pc[q] = "disable" => record[key[q]] # "INSTALLED"

\* ... while Install runs there is no row yet, and nobody else works on the key.
InstallOK(q) ==
  pc[q] \in InstallStep =>
    /\ record[key[q]] = "none"
    /\ files[key[q]] = IF pc[q] = "copy" THEN "part" ELSE "whole"
    /\ \A r \in Req \ {q} : key[r] = key[q] => pc[r] \in Foreign

\* A key not given out has neither row nor file, and no row has part of one.
KeyOK(k) ==
  /\ k \notin dir => record[k] = "none" /\ files[k] = "none"
  /\ record[k] # "none" => files[k] # "part"

InstallInv ==
  /\ ServiceTyped
  /\ \A q \in Req : RequestOK(q) /\ InstallOK(q)
  /\ \A k \in Key : KeyOK(k)
-----------------------------------------------------------------------------
(* The manager and the service.                                            *)

\* What the manager does leaves files and rows alone, and moves only requests
\* of its own.
LEMMA ManagerApart ==
  ASSUME ServiceTyped, ManagerNext, UNCHANGED serviceVars
  PROVE  /\ UNCHANGED <<files, record, dir, halfway>>
         /\ key' \in [Req -> Key] /\ pc' \in [Req -> Own \cup Foreign]
         /\ \A q \in Req : \/ pc'[q] = pc[q] /\ key'[q] = key[q]
                           \/ pc[q] \in Foreign /\ pc'[q] \in Foreign
<1> DEFINE Goal == /\ UNCHANGED files
                   /\ key' \in [Req -> Key] /\ pc' \in [Req -> Own \cup Foreign]
                   /\ \A q \in Req : \/ pc'[q] = pc[q] /\ key'[q] = key[q]
                                     \/ pc[q] \in Foreign /\ pc'[q] \in Foreign
<1>0. key \in [Req -> Key] /\ pc \in [Req -> Own \cup Foreign]
  BY Zenon DEF ServiceTyped
<1>1. ASSUME LoadAll \/ EmitEvent \/ Shutdown
      PROVE  Goal
  BY Zenon, <1>0, <1>1 DEF LoadAll, EmitEvent, Shutdown, reqVars
<1>2. ASSUME NEW k \in Key, LoadPlugin(k) \/ UnloadPlugin(k) \/ HandleEvent(k)
      PROVE  Goal
  BY Zenon, <1>0, <1>2 DEF LoadPlugin, UnloadPlugin, HandleEvent, reqVars
<1>3. ASSUME NEW q \in Req, NEW k \in Key, LookUp(q, k, "init") \/ LookUp(q, k, "stop")
      PROVE  Goal
  BY <1>0, <1>3 DEF LookUp, Foreign, StartStop
<1>4. ASSUME NEW q \in Req, NEW l \in Foreign, pc[q] \in Foreign,
             pc' = [pc EXCEPT ![q] = l], UNCHANGED <<files, key>>
      PROVE  Goal
  BY Zenon, <1>0, <1>4
<1>5. ASSUME NEW q \in Req, ManagerStep(q)
      PROVE  Goal
  <2>1. pc[q] \in Foreign /\ UNCHANGED files
    BY Zenon, <1>5 DEF ManagerStep, StartInit, StartStart, StartDone, StopStop, StopDone,
                Foreign, StartStop
  <2>2. UNCHANGED key /\ \E l \in Foreign : pc' = [pc EXCEPT ![q] = l]
    BY Zenon, <1>5 DEF ManagerStep, StartInit, StartStart, StartDone, StopStop, StopDone,
                Ends, Goes, Foreign, StartStop
  <2> QED  BY Zenon, <1>4, <2>1, <2>2
<1> HIDE DEF Goal
<1>6. Goal
  BY Zenon, <1>1, <1>2, <1>3, <1>5 DEF ManagerNext, ResolvePlugin, Goal
<1> QED  BY Zenon, <1>6 DEF Goal, serviceVars

\* Those are two kinds of steps.
LEMMA Apart == Own \cap Foreign = {} /\ InstallStep \subseteq Own /\ UninstallStep \subseteq Own
               /\ "disable" \in Own /\ "enable" \in Own
BY Zenon DEF Own, Foreign, StartStop, InstallStep, UninstallStep

\* The manager keeps the invariant of the service.
LEMMA ManagerKeeps ==
  ASSUME InstallInv, ManagerNext, UNCHANGED serviceVars
  PROVE  InstallInv'
<1>1. ServiceTyped
  BY Zenon DEF InstallInv
<1>2. /\ UNCHANGED <<files, record, dir, halfway>>
      /\ key' \in [Req -> Key] /\ pc' \in [Req -> Own \cup Foreign]
      /\ \A q \in Req : \/ pc'[q] = pc[q] /\ key'[q] = key[q]
                        \/ pc[q] \in Foreign /\ pc'[q] \in Foreign
  BY Zenon, <1>1, ManagerApart
<1>3. ServiceTyped'
  BY Zenon, <1>1, <1>2 DEF ServiceTyped
<1>4. ASSUME NEW q \in Req PROVE RequestOK(q)' /\ InstallOK(q)'
  <2>1. CASE pc'[q] \in Foreign
    BY Zenon, <2>1, Apart DEF RequestOK, InstallOK
  <2>2. CASE pc'[q] = pc[q] /\ key'[q] = key[q]
    BY Zenon, <1>2, <2>2, Apart DEF InstallInv, RequestOK, InstallOK
  <2> QED  BY Zenon, <1>2, <2>1, <2>2
<1>5. ASSUME NEW k \in Key PROVE KeyOK(k)'
  BY Zenon, <1>2 DEF InstallInv, KeyOK
<1> QED  BY Zenon, <1>3, <1>4, <1>5 DEF InstallInv
-----------------------------------------------------------------------------
(* The service.                                                            *)

\* Request q is now at l; the requests about other keys are where they were.
LEMMA MovesTyped ==
  ASSUME ServiceTyped, NEW q \in Req, NEW k \in Key, NEW l \in Own \cup Foreign,
         pc' = [pc EXCEPT ![q] = l], key' = [key EXCEPT ![q] = k]
  PROVE  /\ pc' \in [Req -> Own \cup Foreign] /\ key' \in [Req -> Key]
         /\ pc'[q] = l /\ key'[q] = k
         /\ \A r \in Req \ {q} : pc'[r] = pc[r] /\ key'[r] = key[r]
BY Zenon DEF ServiceTyped

\* The same for a request that stays with its key.
LEMMA GoesTyped ==
  ASSUME ServiceTyped, NEW q \in Req, NEW l \in Own \cup Foreign,
         pc' = [pc EXCEPT ![q] = l], UNCHANGED key
  PROVE  /\ pc' \in [Req -> Own \cup Foreign] /\ key' \in [Req -> Key]
         /\ pc'[q] = l /\ key'[q] = key[q] /\ key[q] \in Key
         /\ \A r \in Req \ {q} : pc'[r] = pc[r] /\ key'[r] = key[r]
BY Zenon DEF ServiceTyped

\* Install takes a key that was never given out.
LEMMA InstallKeeps ==
  ASSUME InstallInv, NEW q \in Req, NEW k \in Key, Install(q, k)
  PROVE  InstallInv'
<1>0. ServiceTyped /\ "copy" \in Own \cup Foreign /\ pc[q] = "idle" /\ k \notin dir
      /\ record[k] = "none"
  BY Zenon DEF InstallInv, Install, Begins, FindByKey, Own, InstallStep
<1>1. /\ pc' \in [Req -> Own \cup Foreign] /\ key' \in [Req -> Key]
      /\ pc'[q] = "copy" /\ key'[q] = k
      /\ \A r \in Req \ {q} : pc'[r] = pc[r] /\ key'[r] = key[r]
  BY Zenon, <1>0, MovesTyped DEF Install, Begins
<1>2. /\ dir' = dir \cup {k} /\ UNCHANGED record
      /\ files' \in [Key -> {"none", "part", "whole"}] /\ files'[k] = "part"
      /\ \A j \in Key \ {k} : files'[j] = files[j]
  BY Zenon, <1>0 DEF Install, ServiceTyped
<1>3. ServiceTyped'
  BY Zenon, <1>0, <1>1, <1>2 DEF ServiceTyped
<1>4. ASSUME NEW r \in Req PROVE RequestOK(r)' /\ InstallOK(r)'
  <2>0. \A o \in Req \ {q} : key[o] = k => pc[o] \in Foreign
    BY Zenon, <1>0 DEF InstallInv, RequestOK, ServiceTyped
  <2>1. CASE r = q
    BY Zenon, <1>0, <1>1, <1>2, <2>0, <2>1 DEF RequestOK, InstallOK
  <2>2. CASE r # q /\ pc[r] \in Own
    <3>1. key[r] \in dir /\ key[r] # k /\ key[r] \in Key /\ RequestOK(r) /\ InstallOK(r)
      BY Zenon, <1>0, <2>2 DEF InstallInv, RequestOK, ServiceTyped
    <3> QED  BY Zenon, <1>1, <1>2, <2>2, <3>1 DEF RequestOK, InstallOK
  <2>3. CASE r # q /\ pc[r] \notin Own
    BY Zenon, <1>1, <2>3, Apart DEF RequestOK, InstallOK
  <2> QED  BY Zenon, <2>1, <2>2, <2>3
<1>5. ASSUME NEW j \in Key PROVE KeyOK(j)'
  BY Zenon, <1>0, <1>2 DEF InstallInv, KeyOK
<1> QED  BY Zenon, <1>3, <1>4, <1>5 DEF InstallInv

\* The steps of Install have the key to themselves.
LEMMA InstallStepKeeps ==
  ASSUME InstallInv, NEW q \in Req, InstallCopy(q) \/ InstallCreate(q)
  PROVE  InstallInv'
<1> DEFINE k == key[q]
<1>0. /\ ServiceTyped /\ pc[q] \in InstallStep /\ InstallOK(q) /\ k \in Key /\ k \in dir
      /\ {"create", "idle"} \subseteq Own \cup Foreign
      /\ UNCHANGED dir
  BY Zenon DEF InstallInv, InstallCopy, InstallCreate, InstallStep, serviceVars, ServiceTyped,
         RequestOK, Own, Foreign
<1>1. \E l \in {"create", "idle"} :
        /\ pc' = [pc EXCEPT ![q] = l] /\ UNCHANGED key
        /\ l = "create" => files'[k] = "whole" /\ record' = record
  BY Zenon, <1>0 DEF InstallCopy, InstallCreate, Goes, Ends, serviceVars, ServiceTyped
<1>2. /\ pc' \in [Req -> Own \cup Foreign] /\ key' \in [Req -> Key]
      /\ pc'[q] \in {"create", "idle"} /\ key'[q] = k
      /\ \A r \in Req \ {q} : pc'[r] = pc[r] /\ key'[r] = key[r]
      /\ pc'[q] = "create" => files'[k] = "whole" /\ record' = record
  BY Zenon, <1>0, <1>1, GoesTyped
<1>3. /\ files' \in [Key -> {"none", "part", "whole"}] /\ files'[k] # "part"
      /\ record' \in [Key -> Records]
      /\ \A j \in Key \ {k} : files'[j] = files[j] /\ record'[j] = record[j]
  BY Zenon, <1>0 DEF InstallCopy, InstallCreate, CreateRow, serviceVars, ServiceTyped, Records,
              InstallOK
<1> HIDE DEF k
<1>4. ServiceTyped'
  BY Zenon, <1>2, <1>3 DEF ServiceTyped
<1>5. ASSUME NEW r \in Req PROVE RequestOK(r)' /\ InstallOK(r)'
  <2>1. CASE r = q
    BY Zenon, <1>0, <1>2, <2>1 DEF InstallOK, RequestOK, Own, InstallStep, UninstallStep, k
  <2>2. CASE r # q /\ pc[r] \in Own
    <3>1. key[r] # k /\ key[r] \in Key /\ RequestOK(r) /\ InstallOK(r)
      BY Zenon, <1>0, <2>2, Apart DEF InstallInv, InstallOK, ServiceTyped, k
    <3> QED  BY <1>0, <1>2, <1>3, <2>2, <3>1 DEF RequestOK, InstallOK
  <2>3. CASE r # q /\ pc[r] \notin Own
    BY Zenon, <1>2, <2>3, Apart DEF RequestOK, InstallOK
  <2> QED  BY Zenon, <2>1, <2>2, <2>3
<1>6. ASSUME NEW j \in Key PROVE KeyOK(j)'
  BY Zenon, <1>0, <1>3 DEF InstallInv, KeyOK
<1> QED  BY Zenon, <1>4, <1>5, <1>6 DEF InstallInv

\* A request that has read a row: Enable, Disable and Uninstall.
ReadsRow(q, k) == Enable(q, k) \/ Disable(q, k) \/ Uninstall(q, k)

\* There is a row, so no Install of the key runs.
LEMMA ReadKeeps ==
  ASSUME InstallInv, NEW q \in Req, NEW k \in Key, ReadsRow(q, k)
  PROVE  InstallInv'
<1>0. ServiceTyped /\ record[k] # "none" /\ k \in dir /\ UNCHANGED <<files, record, dir>>
  BY Zenon DEF ReadsRow, Enable, Disable, Uninstall, ReadRow, FindByKey, InstallInv, KeyOK
<1>1. PICK l \in {"enable", "disable", "extensions"} :
        /\ pc' = [pc EXCEPT ![q] = l] /\ key' = [key EXCEPT ![q] = k]
        /\ l = "disable" => record[k] = "ENABLED"
  BY Zenon DEF ReadsRow, Enable, Disable, Uninstall, ReadRow, Begins
<1>2. l \in Own /\ l \notin InstallStep
  BY Zenon DEF Own, InstallStep, UninstallStep
<1>3. /\ pc' \in [Req -> Own \cup Foreign] /\ key' \in [Req -> Key]
      /\ pc'[q] = l /\ key'[q] = k
      /\ \A r \in Req \ {q} : pc'[r] = pc[r] /\ key'[r] = key[r]
  BY Zenon, <1>0, <1>1, <1>2, MovesTyped
<1>4. ServiceTyped'
  BY Zenon, <1>0, <1>3 DEF ServiceTyped
<1>5. ASSUME NEW r \in Req PROVE RequestOK(r)' /\ InstallOK(r)'
  <2>1. CASE r = q
    BY Zenon, <1>0, <1>1, <1>2, <1>3, <2>1 DEF RequestOK, InstallOK
  <2>2. CASE r # q
    <3>1. RequestOK(r) /\ InstallOK(r) /\ (pc[r] \in InstallStep => key[r] # k)
      BY Zenon, <1>0 DEF InstallInv, InstallOK
    <3> QED  BY Zenon, <1>0, <1>3, <2>2, <3>1 DEF RequestOK, InstallOK
  <2> QED  BY Zenon, <2>1, <2>2
<1>6. ASSUME NEW j \in Key PROVE KeyOK(j)'
  BY Zenon, <1>0 DEF InstallInv, KeyOK
<1> QED  BY Zenon, <1>4, <1>5, <1>6 DEF InstallInv

\* What such a request does next.
WorksOn(q) ==
  \/ EnableWrite(q) \/ DisableWrite(q)
  \/ UninstallExtensions(q) \/ UninstallRemove(q) \/ UninstallDelete(q)

\* It changes an existing row, or takes the row or the file away.
LEMMA WorkEffect ==
  ASSUME InstallInv, NEW q \in Req, WorksOn(q)
  PROVE  /\ ServiceTyped /\ pc[q] \in Own \ InstallStep /\ key[q] \in Key /\ UNCHANGED dir
         /\ ServiceTyped'
         /\ pc'[q] \in {"idle", "remove", "delete"} /\ key'[q] = key[q]
         /\ \A r \in Req \ {q} : pc'[r] = pc[r] /\ key'[r] = key[r]
         /\ \A j \in Key \ {key[q]} : record'[j] = record[j] /\ files'[j] = files[j]
         /\ files'[key[q]] \in {files[key[q]], "none"}
         /\ record'[key[q]] # record[key[q]] =>
              \/ record'[key[q]] = "none"
              \/ record[key[q]] # "none" /\ record'[key[q]] = "ENABLED"
              \/ record[key[q]] \in {"ENABLED", "DISABLED"} /\ record'[key[q]] = "DISABLED"
<1>0. ServiceTyped /\ key[q] \in Key /\ UNCHANGED dir /\ RequestOK(q)
  BY Zenon DEF InstallInv, ServiceTyped, WorksOn, EnableWrite, DisableWrite, Writes,
         UninstallExtensions, UninstallRemove, UninstallDelete
<1>1. pc[q] \in Own \ InstallStep
  BY Zenon DEF WorksOn, EnableWrite, DisableWrite, Writes, UninstallExtensions, UninstallRemove,
         UninstallDelete, Own, InstallStep, UninstallStep
<1>2. PICK l \in {"idle", "remove", "delete"} : pc' = [pc EXCEPT ![q] = l] /\ UNCHANGED key
  BY Zenon DEF WorksOn, EnableWrite, DisableWrite, Writes, UninstallExtensions, UninstallRemove,
         UninstallDelete, Ends, Goes
<1>3. l \in Own \cup Foreign
  BY Zenon DEF Own, Foreign, UninstallStep
<1>4. /\ pc' \in [Req -> Own \cup Foreign] /\ key' \in [Req -> Key]
      /\ pc'[q] = l /\ key'[q] = key[q]
      /\ \A r \in Req \ {q} : pc'[r] = pc[r] /\ key'[r] = key[r]
  BY Zenon, <1>0, <1>2, <1>3, GoesTyped
<1>5. /\ files' \in [Key -> {"none", "part", "whole"}]
      /\ \A j \in Key \ {key[q]} : files'[j] = files[j]
      /\ files'[key[q]] \in {files[key[q]], "none"}
  BY Zenon, <1>0 DEF ServiceTyped, WorksOn, EnableWrite, DisableWrite, Writes, UninstallExtensions,
              UninstallRemove, UninstallDelete
<1>6. ASSUME NEW s \in Records, pc[q] = "disable" => s = "DISABLED", s \in {"ENABLED", "DISABLED"},
             s = "DISABLED" => pc[q] = "disable", UpdateState(key[q], s)
      PROVE  /\ record' \in [Key -> Records]
             /\ \A j \in Key \ {key[q]} : record'[j] = record[j]
             /\ record'[key[q]] # record[key[q]] =>
                  \/ record[key[q]] # "none" /\ record'[key[q]] = "ENABLED"
                  \/ record[key[q]] \in {"ENABLED", "DISABLED"} /\ record'[key[q]] = "DISABLED"
  BY Zenon, <1>0, <1>6 DEF ServiceTyped, UpdateState, FindByKey, RequestOK, Records
<1>7. /\ record' \in [Key -> Records]
      /\ \A j \in Key \ {key[q]} : record'[j] = record[j]
      /\ record'[key[q]] # record[key[q]] =>
           \/ record'[key[q]] = "none"
           \/ record[key[q]] # "none" /\ record'[key[q]] = "ENABLED"
           \/ record[key[q]] \in {"ENABLED", "DISABLED"} /\ record'[key[q]] = "DISABLED"
  <2>1. CASE UNCHANGED record
    BY Zenon, <1>0, <2>1 DEF ServiceTyped
  <2>2. CASE DeleteByKey(key[q])
    BY Zenon, <1>0, <2>2 DEF ServiceTyped, DeleteByKey, Records
  <2>3. CASE pc[q] = "enable" /\ UpdateState(key[q], "ENABLED")
    BY Zenon, <1>6, <2>3 DEF Records
  <2>4. CASE pc[q] = "disable" /\ UpdateState(key[q], "DISABLED")
    BY Zenon, <1>6, <2>4 DEF Records
  <2> QED
    BY Zenon, <2>1, <2>2, <2>3, <2>4
       DEF WorksOn, EnableWrite, DisableWrite, Writes, UninstallExtensions,
           UninstallRemove, UninstallDelete
<1>8. ServiceTyped'
  BY Zenon, <1>4, <1>5, <1>7 DEF ServiceTyped
<1> QED  BY Zenon, <1>0, <1>1, <1>4, <1>5, <1>7, <1>8

\* Such a step keeps the invariant.
LEMMA WorkKeeps ==
  ASSUME InstallInv, NEW q \in Req, WorksOn(q)
  PROVE  InstallInv'
<1> DEFINE k == key[q]
<1>1. /\ pc[q] \in Own \ InstallStep /\ k \in Key /\ k \in dir
      /\ UNCHANGED dir
      /\ pc'[q] \in {"idle", "remove", "delete"} /\ key'[q] = k
      /\ \A r \in Req \ {q} : pc'[r] = pc[r] /\ key'[r] = key[r]
      /\ \A j \in Key \ {k} : record'[j] = record[j] /\ files'[j] = files[j]
      /\ files'[k] \in {files[k], "none"}
      /\ record'[k] # record[k] =>
           record'[k] # "INSTALLED" /\ (record'[k] = "none" \/ record[k] # "none")
  BY Zenon, WorkEffect DEF InstallInv, RequestOK
<1>2. \A r \in Req : pc[r] \in InstallStep => key[r] # k
  BY Zenon, <1>1, Apart DEF InstallInv, InstallOK
<1> HIDE DEF k
<1>3. ASSUME NEW r \in Req PROVE RequestOK(r)' /\ InstallOK(r)'
  <2>1. CASE r = q
    BY Zenon, <1>1, <2>1 DEF RequestOK, InstallOK, InstallStep
  <2>2. CASE r # q
    <3>1. RequestOK(r) /\ InstallOK(r) /\ key[r] \in Key
      BY Zenon DEF InstallInv, ServiceTyped
    <3>2. RequestOK(r)'
      BY <1>1, <2>2, <3>1 DEF RequestOK
    <3>3. InstallOK(r)'
      BY <1>1, <1>2, <2>2, <3>1 DEF InstallOK, k
    <3> QED  BY Zenon, <3>2, <3>3
  <2> QED  BY Zenon, <2>1, <2>2
<1>4. ASSUME NEW j \in Key PROVE KeyOK(j)'
  BY Zenon, <1>1 DEF InstallInv, KeyOK
<1> QED  BY Zenon, <1>3, <1>4, WorkEffect DEF InstallInv

\* A crash forgets the requests.
LEMMA CrashKeeps ==
  ASSUME InstallInv, Crash
  PROVE  InstallInv'
<1>1. /\ UNCHANGED <<files, record, dir, key>>
      /\ \A q \in Req : pc'[q] = "idle"
      /\ pc' \in [Req -> Own \cup Foreign]
  BY Zenon DEF Crash, Exit, Foreign
<1>2. "idle" \notin Own
  BY Zenon DEF Own, InstallStep, UninstallStep
<1>3. ASSUME NEW r \in Req PROVE RequestOK(r)' /\ InstallOK(r)'
  BY Zenon, <1>1, <1>2, Apart DEF RequestOK, InstallOK
<1> QED  BY Zenon, <1>1, <1>3 DEF InstallInv, ServiceTyped, KeyOK

\* Every step is of one of these kinds.
LEMMA PluginKinds ==
  ASSUME [PluginNext]_vars
  PROVE  \/ UNCHANGED vars
         \/ ManagerNext /\ UNCHANGED serviceVars
         \/ Crash
         \/ \E q \in Req :
              \/ \E k \in Key : Install(q, k) \/ ReadsRow(q, k)
              \/ InstallCopy(q) \/ InstallCreate(q) \/ WorksOn(q)
BY Zenon DEF PluginNext, PluginRequest, ServiceStep, ReadsRow, WorksOn

\* Every step keeps the invariant of the service.
LEMMA InstallInvStep ==
  ASSUME InstallInv, [PluginNext]_vars
  PROVE  InstallInv'
<1>1. CASE UNCHANGED vars
  BY Zenon, <1>1 DEF vars, managerVars, reqVars, serviceVars, InstallInv, ServiceTyped,
              RequestOK, InstallOK, KeyOK
<1> QED
  BY Zenon, <1>1, PluginKinds, ManagerKeeps, CrashKeeps, InstallKeeps, ReadKeeps,
     InstallStepKeeps, WorkKeeps

\* The initial state.
LEMMA PluginStart ==
  ASSUME PluginInit
  PROVE  InstallInv
<1>1. "idle" \notin Own /\ "idle" \in Foreign
  BY Zenon DEF Own, Foreign, InstallStep, UninstallStep
<1> QED
  BY Zenon, <1>1, Apart DEF PluginInit, ManagerInit, InstallInv, ServiceTyped, RequestOK, InstallOK,
                     KeyOK, Records

-----------------------------------------------------------------------------
(* The life cycle.                                                         *)

\* A step of request q leaves the installations of other plugins alone.
LEMMA OtherInstalls ==
  ASSUME NEW q \in Req, NEW j, key[q] # j, key'[q] # j,
         \A r \in Req \ {q} : pc'[r] = pc[r] /\ key'[r] = key[r]
  PROVE  Installing(j)' <=> Installing(j)
BY Zenon DEF Installing

\* The manager's steps, reads of a row and the start of an Install change the
\* life of no plugin.
LEMMA QuietLife ==
  ASSUME InstallInv,
         \/ UNCHANGED vars
         \/ ManagerNext /\ UNCHANGED serviceVars
         \/ \E q \in Req, k \in Key : Install(q, k) \/ ReadsRow(q, k)
  PROVE  UNCHANGED Life
<1>0. ServiceTyped
  BY Zenon DEF InstallInv
<1>1. CASE UNCHANGED vars
  BY Zenon, <1>1 DEF vars, reqVars, serviceVars, Life, Installing
<1>2. CASE ManagerNext /\ UNCHANGED serviceVars
  <2>1. /\ UNCHANGED <<record, dir>>
        /\ \A q \in Req : \/ pc'[q] = pc[q] /\ key'[q] = key[q]
                          \/ pc[q] \in Foreign /\ pc'[q] \in Foreign
    BY Zenon, <1>0, <1>2, ManagerApart
  <2>2. \A k \in Key : Installing(k)' <=> Installing(k)
    BY Zenon, <2>1, Apart DEF Installing
  <2> QED  BY Zenon, <2>1, <2>2 DEF Life
<1>3. ASSUME NEW q \in Req, NEW k \in Key, Install(q, k)
      PROVE  UNCHANGED Life
  <2>1. /\ pc[q] = "idle" /\ k \notin dir /\ record' = record /\ dir' = dir \cup {k}
        /\ pc'[q] = "copy" /\ key'[q] = k
        /\ \A r \in Req \ {q} : pc'[r] = pc[r] /\ key'[r] = key[r]
    BY Zenon, <1>0, <1>3 DEF Install, Begins, ServiceTyped
  <2>2. Installing(k)' /\ \A j \in Key \ {k} : Installing(j)' <=> Installing(j)
    BY Zenon, <2>1 DEF Installing, InstallStep
  <2> QED  BY Zenon, <2>1, <2>2 DEF Life
<1>4. ASSUME NEW q \in Req, NEW k \in Key, ReadsRow(q, k)
      PROVE  UNCHANGED Life
  <2>1. /\ pc[q] = "idle" /\ UNCHANGED <<record, dir>>
        /\ pc'[q] \in {"enable", "disable", "extensions"}
        /\ \A r \in Req \ {q} : pc'[r] = pc[r] /\ key'[r] = key[r]
    BY <1>0, <1>4 DEF ReadsRow, Enable, Disable, Uninstall, ReadRow, Begins, ServiceTyped
  <2>2. \A j \in Key : Installing(j)' <=> Installing(j)
    BY Zenon, <2>1 DEF Installing, InstallStep
  <2> QED  BY Zenon, <2>1, <2>2 DEF Life
<1> QED  BY Zenon, <1>1, <1>2, <1>3, <1>4

\* A crash gives the running installations up.
LEMMA CrashLife ==
  ASSUME InstallInv, Crash
  PROVE  Lifecycle!LifeNext
<1> DEFINE ks == {k \in Key : Installing(k)}
<1>1. UNCHANGED <<record, dir>> /\ \A k \in Key : ~Installing(k)'
  BY Zenon DEF Crash, Exit, Installing, InstallStep
<1>2. \A k \in ks : record[k] = "none" /\ k \in dir
  BY Apart DEF InstallInv, InstallOK, RequestOK, Installing
<1>3. \A k \in ks : Life[k] = "new"
  BY Zenon, <1>2 DEF Life
<1>4. Life' = [k \in Key |-> IF k \in ks THEN "gone" ELSE Life[k]]
  BY Zenon, <1>1, <1>2 DEF Life
<1>5. Lifecycle!GivenUp(ks)
  BY Zenon, <1>3, <1>4 DEF Lifecycle!GivenUp
<1> QED  BY Zenon, <1>5 DEF Lifecycle!LifeNext

\* The steps of Install: the plugin is created, given up or still new.
LEMMA InstallLife ==
  ASSUME InstallInv, NEW q \in Req, InstallCopy(q) \/ InstallCreate(q)
  PROVE  Lifecycle!LifeNext \/ UNCHANGED Life
<1> DEFINE k == key[q]
<1>1. /\ ServiceTyped /\ k \in Key /\ k \in dir /\ record[k] = "none" /\ Installing(k)
      /\ \A r \in Req \ {q} : key[r] = k => pc[r] \in Foreign
  BY Zenon
     DEF InstallInv, ServiceTyped, InstallOK, RequestOK, InstallCopy, InstallCreate, InstallStep,
         Own, Installing
<1>2. /\ UNCHANGED <<key, dir>> /\ pc'[q] \in {"create", "idle"}
      /\ \A r \in Req \ {q} : pc'[r] = pc[r]
      /\ \A j \in Key \ {k} : record'[j] = record[j]
      /\ \/ pc'[q] = "create" /\ record'[k] = "none"
         \/ pc'[q] = "idle" /\ record'[k] \in {"none", "INSTALLED"}
  BY Zenon, <1>1 DEF ServiceTyped, InstallCopy, InstallCreate, CreateRow, Goes, Ends, serviceVars
<1>3. Life[k] = "new" /\ Life = [j \in Key |-> Life[j]]
  BY Zenon, <1>1 DEF Life
<1>4. \A j \in Key \ {k} : Life'[j] = Life[j]
  <2>1. \A j \in Key \ {k} : Installing(j)' <=> Installing(j)
    BY Zenon, <1>2, OtherInstalls
  <2> QED  BY Zenon, <1>2, <2>1 DEF Life
<1>5. Installing(k)' <=> pc'[q] = "create"
  BY Zenon, <1>1, <1>2, Apart DEF Installing, InstallStep
<1>6. Life'[k] = IF pc'[q] = "create" THEN "new"
                 ELSE IF record'[k] = "INSTALLED" THEN "INSTALLED" ELSE "gone"
  BY Zenon, <1>1, <1>2, <1>5 DEF Life
<1>7. Life' = [j \in Key |-> Life'[j]]
  BY Zenon DEF Life
<1> HIDE DEF k
<1>8. CASE Life'[k] = "new"
  BY Zenon, <1>3, <1>4, <1>7, <1>8
<1>9. CASE Life'[k] = "INSTALLED"
  <2>1. Lifecycle!Created(k)
    BY Zenon, <1>1, <1>3, <1>4, <1>7, <1>9 DEF Lifecycle!Created, Lifecycle!Becomes
  <2> QED  BY Zenon, <1>1, <2>1 DEF Lifecycle!LifeNext
<1>10. CASE Life'[k] = "gone"
  <2>1. Lifecycle!GivenUp({k})
    BY Zenon, <1>1, <1>3, <1>4, <1>7, <1>10 DEF Lifecycle!GivenUp
  <2> QED  BY Zenon, <1>1, <2>1 DEF Lifecycle!LifeNext
<1> QED  BY Zenon, <1>6, <1>8, <1>9, <1>10

\* The steps of Enable, Disable and Uninstall that write.
LEMMA WorkLife ==
  ASSUME InstallInv, NEW q \in Req, WorksOn(q)
  PROVE  Lifecycle!LifeNext \/ UNCHANGED Life
<1> DEFINE k == key[q]
<1>1. /\ ServiceTyped /\ pc[q] \in Own \ InstallStep /\ k \in Key /\ k \in dir /\ UNCHANGED dir
      /\ pc'[q] \in {"idle", "remove", "delete"} /\ key'[q] = k
      /\ \A r \in Req \ {q} : pc'[r] = pc[r] /\ key'[r] = key[r]
      /\ \A j \in Key \ {k} : record'[j] = record[j]
      /\ record'[k] # record[k] =>
           \/ record'[k] = "none"
           \/ record[k] # "none" /\ record'[k] = "ENABLED"
           \/ record[k] \in {"ENABLED", "DISABLED"} /\ record'[k] = "DISABLED"
  BY WorkEffect DEF InstallInv, RequestOK
<1>2. record[k] \in Records /\ ~Installing(k)
  BY Zenon, <1>1, Apart DEF ServiceTyped, InstallInv, InstallOK, Installing
<1>3. \A j \in Key : Installing(j)' <=> Installing(j)
  BY Zenon, <1>1 DEF Installing, InstallStep
<1>4. /\ \A j \in Key \ {k} : Life'[j] = Life[j]
      /\ Life[k] = IF record[k] = "none" THEN "gone" ELSE record[k]
      /\ Life'[k] = IF record'[k] = "none" THEN "gone" ELSE record'[k]
      /\ Life = [j \in Key |-> Life[j]] /\ Life' = [j \in Key |-> Life'[j]]
  BY Zenon, <1>1, <1>2, <1>3 DEF Life
<1> HIDE DEF k
<1>5. CASE record'[k] = record[k]
  BY Zenon, <1>4, <1>5
<1>6. CASE record'[k] # record[k]
  <2>1. \/ Lifecycle!Enabled(k) \/ Lifecycle!Disabled(k) \/ Lifecycle!Removed(k)
    BY <1>1, <1>2, <1>4, <1>6
       DEF Records, Lifecycle!Enabled, Lifecycle!Disabled, Lifecycle!Removed, Lifecycle!Becomes
  <2> QED  BY Zenon, <1>1, <2>1 DEF Lifecycle!LifeNext
<1> QED  BY Zenon, <1>5, <1>6

\* THEOREM: PluginService implements PluginLifecycle: a plugin is created once,
\* enabled and disabled in turns, and gone for good, although other requests
\* come between the read that decides and the write.
THEOREM LifecycleKept == PluginSpec => FollowsLifecycle
<1>1. PluginInit => Lifecycle!LifeInit
  BY Zenon DEF PluginInit, Lifecycle!LifeInit, Life
<1>2. InstallInv /\ [PluginNext]_vars => [Lifecycle!LifeNext]_Life
  BY Zenon, PluginKinds, QuietLife, CrashLife, InstallLife, WorkLife
<1> QED
  BY <1>1, <1>2, PluginStart, InstallInvStep, PTL
     DEF PluginSpec, FollowsLifecycle, Lifecycle!LifeSpec
-----------------------------------------------------------------------------
(* Files and rows.                                                         *)

Deleting(k)   == \E q \in Req : key[q] = k /\ pc[q] = "delete"

\* The file of a plugin that is not left halfway: it goes with the row, except
\* that an Uninstall about to delete the row has removed it already.
FileOK(k) ==
  k \notin halfway =>
    /\ Deleting(k) => files[k] = "none"
    /\ ~Installing(k) =>
         /\ files[k] # "part"
         /\ files[k] = "whole" => record[k] # "none"
         /\ files[k] = "none" /\ record[k] # "none" => Deleting(k)

FilesInv == InstallInv /\ \A k \in Key : FileOK(k)

\* A step that concerns one key, or none, leaves the others' files as they were.
LEMMA OtherFiles ==
  ASSUME NEW k \in Key, FileOK(k), halfway \subseteq halfway',
         files'[k] = files[k], record'[k] = record[k],
         \A q \in Req : \/ key'[q] = key[q] /\ pc'[q] = pc[q]
                        \/ /\ key[q] = k => pc[q] \notin InstallStep \cup {"delete"}
                           /\ key'[q] = k => pc'[q] \notin InstallStep \cup {"delete"}
  PROVE  FileOK(k)'
<1>1. Installing(k)' <=> Installing(k)
  BY Zenon DEF Installing
<1>2. Deleting(k)' <=> Deleting(k)
  BY Zenon DEF Deleting
<1> QED  BY Zenon, <1>1, <1>2 DEF FileOK

\* Every step keeps files and rows together.
LEMMA FilesStep ==
  ASSUME FilesInv, [PluginNext]_vars
  PROVE  FilesInv'
<1>0. InstallInv /\ InstallInv' /\ ServiceTyped
  BY Zenon, InstallInvStep DEF FilesInv, InstallInv
<1>d. {"idle", "init", "stop", "enable", "disable", "extensions", "remove"}
        \cap (InstallStep \cup {"delete"}) = {}
      /\ "delete" \in Own /\ "delete" \notin InstallStep
  BY Zenon DEF InstallStep, Own, UninstallStep
<1>1. CASE UNCHANGED vars
  BY Zenon, <1>1, OtherFiles DEF FilesInv, vars, managerVars, reqVars, serviceVars, InstallInv,
                          ServiceTyped, RequestOK, InstallOK, KeyOK
<1>2. CASE ManagerNext /\ UNCHANGED serviceVars
  <2>1. /\ UNCHANGED <<files, record, halfway>>
        /\ \A q \in Req : \/ pc'[q] = pc[q] /\ key'[q] = key[q]
                          \/ pc[q] \in Foreign /\ pc'[q] \in Foreign
    BY Zenon, <1>0, <1>2, ManagerApart
  <2>2. Foreign \cap (InstallStep \cup {"delete"}) = {}
    BY Zenon, <1>d, Apart
  <2> QED  BY Zenon, <1>0, <2>1, <2>2, OtherFiles DEF FilesInv
<1>3. CASE Crash
  <2>1. UNCHANGED <<files, record>> /\ \A q \in Req : pc'[q] = "idle"
    BY Zenon, <1>3 DEF Crash, Exit
  <2>2. ASSUME NEW k \in Key PROVE FileOK(k)'
    <3>1. ~Installing(k)' /\ ~Deleting(k)'
      BY Zenon, <1>d, <2>1 DEF Installing, Deleting
    <3>2. k \notin halfway' => k \notin halfway /\ ~Installing(k) /\ ~Deleting(k)
      BY Zenon, <1>3 DEF Crash, Installing, Deleting, UninstallStep
    <3> QED  BY Zenon, <2>1, <3>1, <3>2 DEF FilesInv, FileOK
  <2> QED  BY Zenon, <1>0, <2>2 DEF FilesInv
<1>4. ASSUME NEW q \in Req, NEW k \in Key, Install(q, k)
      PROVE  FilesInv'
  <2>1. /\ pc[q] = "idle" /\ pc'[q] = "copy" /\ key'[q] = k
        /\ \A r \in Req \ {q} : pc'[r] = pc[r] /\ key'[r] = key[r]
        /\ \A j \in Key \ {k} : files'[j] = files[j]
        /\ UNCHANGED <<record, halfway>> /\ k \notin dir
    BY Zenon, <1>0, <1>4 DEF Install, Begins, ServiceTyped
  <2>2. Installing(k)' /\ ~Deleting(k)'
    <3>1. \A r \in Req : key[r] = k => pc[r] \notin Own
      BY Zenon, <1>0, <2>1 DEF InstallInv, RequestOK
    <3> QED  BY Zenon, <1>d, <2>1, <3>1 DEF Installing, Deleting, InstallStep
  <2>3. FileOK(k)'
    BY Zenon, <2>2 DEF FileOK
  <2>4. ASSUME NEW j \in Key \ {k} PROVE FileOK(j)'
    BY Zenon, <1>d, <2>1, OtherFiles DEF FilesInv
  <2> QED  BY Zenon, <1>0, <2>3, <2>4 DEF FilesInv
<1>5. ASSUME NEW q \in Req, NEW k \in Key, ReadsRow(q, k)
      PROVE  FilesInv'
  <2>1. /\ pc[q] = "idle" /\ pc'[q] \in {"enable", "disable", "extensions"}
        /\ \A r \in Req \ {q} : pc'[r] = pc[r] /\ key'[r] = key[r]
        /\ UNCHANGED <<files, record, halfway>>
    BY Zenon, <1>0, <1>5 DEF ReadsRow, Enable, Disable, Uninstall, ReadRow, Begins, ServiceTyped
  <2> QED  BY Zenon, <1>0, <1>d, <2>1, OtherFiles DEF FilesInv
<1>6. ASSUME NEW q \in Req, NEW k \in Key, k = key[q], InstallCopy(q) \/ InstallCreate(q)
      PROVE  FilesInv'
  <2>0. pc[q] \in InstallStep /\ InstallOK(q)
    BY Zenon, <1>0, <1>6 DEF InstallInv, ServiceTyped, InstallCopy, InstallCreate, InstallStep
  <2>1. /\ pc'[q] \in {"create", "idle"} /\ UNCHANGED key
        /\ \A r \in Req \ {q} : pc'[r] = pc[r]
        /\ \A j \in Key \ {k} : files'[j] = files[j] /\ record'[j] = record[j]
        /\ halfway \subseteq halfway'
        /\ pc'[q] = "idle" /\ k \notin halfway' =>
             /\ files'[k] # "part"
             /\ files'[k] = "whole" <=> record'[k] # "none"
    BY Zenon, <1>0, <1>6, <2>0 DEF InstallCopy, InstallCreate, InstallOK, CreateRow, Goes, Ends,
                            serviceVars, ServiceTyped
  <2>2. ~Deleting(k)' /\ (pc'[q] = "create" => Installing(k)')
    BY <1>d, <1>6, <2>0, <2>1, Apart DEF Deleting, Installing, InstallOK, InstallStep
  <2>3. FileOK(k)'
    BY Zenon, <2>1, <2>2 DEF FileOK
  <2>4. ASSUME NEW j \in Key \ {k} PROVE FileOK(j)'
    BY Zenon, <1>6, <2>1, OtherFiles DEF FilesInv
  <2> QED  BY <1>0, <2>3, <2>4 DEF FilesInv
<1>7. ASSUME NEW q \in Req, NEW k \in Key, k = key[q], WorksOn(q)
      PROVE  FilesInv'
  <2>0. /\ \A r \in Req \ {q} : pc'[r] = pc[r] /\ key'[r] = key[r]
        /\ \A j \in Key \ {k} : record'[j] = record[j] /\ files'[j] = files[j]
        /\ key'[q] = k /\ halfway \subseteq halfway' /\ FileOK(k)
    BY Zenon, <1>0, <1>7, WorkEffect
       DEF FilesInv, WorksOn, EnableWrite, DisableWrite, Writes, UninstallExtensions,
           UninstallRemove, UninstallDelete
  <2>i. ~Installing(k) /\ ~Installing(k)'
    <3>1. pc[q] \in Own \ InstallStep /\ pc'[q] \in {"idle", "remove", "delete"}
      BY Zenon, <1>0, <1>7, WorkEffect
    <3>2. \A r \in Req : key[r] = k => pc[r] \notin InstallStep
      BY Zenon, <1>0, <1>7, <3>1, Apart DEF InstallInv, InstallOK
    <3>3. \A r \in Req : key'[r] = k => pc'[r] \notin InstallStep
      BY Zenon, <2>0, <3>1, <3>2 DEF InstallStep
    <3> QED  BY Zenon, <3>2, <3>3 DEF Installing
  <2>1. ASSUME EnableWrite(q) \/ DisableWrite(q) PROVE FileOK(k)'
    <3>1. /\ pc[q] # "delete" /\ pc'[q] = "idle" /\ UNCHANGED <<files, halfway>>
          /\ record'[k] = "none" <=> record[k] = "none"
      BY Zenon, <1>0, <1>7, <2>1
         DEF EnableWrite, DisableWrite, Writes, UpdateState, FindByKey, Ends,
                              ServiceTyped
    <3>2. Deleting(k)' <=> Deleting(k)
      BY Zenon, <2>0, <3>1 DEF Deleting
    <3> QED  BY Zenon, <2>0, <2>i, <3>1, <3>2 DEF FileOK
  <2>2. ASSUME UninstallExtensions(q) PROVE FileOK(k)'
    <3>1. /\ pc[q] # "delete" /\ pc'[q] \in {"idle", "remove"}
          /\ UNCHANGED <<files, halfway, record>>
      BY Zenon, <1>0, <2>2 DEF UninstallExtensions, Goes, Ends, ServiceTyped
    <3>2. Deleting(k)' <=> Deleting(k)
      BY Zenon, <2>0, <3>1 DEF Deleting
    <3> QED  BY Zenon, <2>0, <2>i, <3>1, <3>2 DEF FileOK
  <2>3. ASSUME UninstallRemove(q) PROVE FileOK(k)'
    <3>1. pc'[q] = "delete" /\ (k \notin halfway' => files'[k] = "none")
      BY Zenon, <1>0, <1>7, <2>3 DEF UninstallRemove, Goes, ServiceTyped
    <3>2. Deleting(k)'
      BY Zenon, <2>0, <3>1 DEF Deleting
    <3> QED  BY Zenon, <3>1, <3>2 DEF FileOK
  <2>4. ASSUME UninstallDelete(q) PROVE FileOK(k)'
    <3>1. /\ pc[q] = "delete" /\ UNCHANGED files
          /\ k \notin halfway' => record'[k] = "none" /\ k \notin halfway
      BY Zenon, <1>0, <1>7, <2>4 DEF UninstallDelete, DeleteByKey, ServiceTyped
    <3>2. Deleting(k)
      BY Zenon, <1>7, <3>1 DEF Deleting
    <3> QED  BY Zenon, <2>0, <3>1, <3>2 DEF FileOK
  <2>5. FileOK(k)'
    BY Zenon, <1>7, <2>1, <2>2, <2>3, <2>4 DEF WorksOn
  <2>6. ASSUME NEW j \in Key \ {k} PROVE FileOK(j)'
    BY Zenon, <1>7, <2>0, OtherFiles DEF FilesInv
  <2> QED  BY <1>0, <2>5, <2>6 DEF FilesInv
<1> QED
  BY Zenon, <1>0, <1>1, <1>2, <1>3, <1>4, <1>5, <1>6, <1>7, PluginKinds DEF ServiceTyped

\* THEOREM: whichever step of Install and Uninstall fails, a plugin that no request
\* works on has its row and its whole file or neither, unless a crash or an
\* unnoticed failure left it halfway.
THEOREM FilesGoWithRows == PluginSpec => []FileAndRow
<1>1. PluginInit => FilesInv
  <2> SUFFICES ASSUME PluginInit PROVE FilesInv
    BY Zenon
  <2>1. \A k \in Key : FileOK(k)
    BY Zenon DEF PluginInit, ManagerInit, FileOK, Deleting
  <2> QED  BY Zenon, <2>1, PluginStart DEF FilesInv
<1>2. FilesInv /\ [PluginNext]_vars => FilesInv'
  BY Zenon, FilesStep
<1>3. FilesInv => FileAndRow
  <2> SUFFICES ASSUME FilesInv PROVE FileAndRow
    BY Zenon
  <2>1. ASSUME NEW k \in Key, k \notin halfway, Working(k) = {}
        PROVE  /\ files[k] \in {"none", "whole"}
               /\ record[k] # "none" <=> files[k] = "whole"
    <3>1. ~Installing(k) /\ ~Deleting(k)
      BY Zenon, <2>1 DEF Working, Installing, Deleting, UninstallStep
    <3> QED  BY Zenon, <2>1, <3>1 DEF FilesInv, FileOK, InstallInv, ServiceTyped
  <2> QED  BY Zenon, <2>1 DEF FileAndRow, FilesInv, InstallInv, KeyOK
<1> QED  BY <1>1, <1>2, <1>3, PTL DEF PluginSpec
-----------------------------------------------------------------------------
(* What runs.                                                              *)

Started(k) == plugins[k] # 0 /\ state[k][plugins[k]] = "STARTED"
Agrees(k) == k \in running <=> Started(k)

\* Where a start or stop of k that nobody has crossed is.
BusyOK(q, k) ==
  /\ ptr[q] = plugins[k] /\ plugins[k] # 0
  /\ pc[q] \in {"init", "stop"} => Agrees(k)
  /\ pc[q] = "start"   => ~Started(k) /\ k \notin running
  /\ pc[q] = "started" => ~Started(k) /\ k \in running
  /\ pc[q] = "stopped" => Started(k) /\ k \notin running

TruthOK(k) ==
  k \notin crossed =>
    /\ Busy(k) = {} => Agrees(k)
    /\ \A q, r \in Busy(k) : q = r
    /\ \A q \in Busy(k) : BusyOK(q, k)

ManagerInv ==
  /\ ManagerTypeOK
  /\ pc \in [Req -> Own \cup Foreign]
  /\ \A k \in Key : TruthOK(k)

\* A step that does not concern k.
LEMMA OtherPlugins ==
  ASSUME NEW k \in Key, TruthOK(k), crossed \subseteq crossed',
         plugins'[k] = plugins[k], state'[k] = state[k],
         k \in running' <=> k \in running,
         \A q \in Req : \/ key'[q] = key[q] /\ pc'[q] = pc[q] /\ ptr'[q] = ptr[q]
                        \/ /\ key[q] = k => pc[q] \notin StartStop
                           /\ key'[q] = k => pc'[q] \notin StartStop
  PROVE  TruthOK(k)'
<1>1. Busy(k)' = Busy(k) /\ \A q \in Busy(k) : pc'[q] = pc[q] /\ ptr'[q] = ptr[q]
  BY Zenon DEF Busy
<1>2. (Agrees(k)' <=> Agrees(k)) /\ (Started(k)' <=> Started(k))
  BY Zenon DEF Agrees, Started
<1>3. \A q \in Busy(k) : BusyOK(q, k) => BusyOK(q, k)'
  BY Zenon, <1>1, <1>2 DEF BusyOK
<1> QED  BY Zenon, <1>1, <1>2, <1>3 DEF TruthOK

\* Loading a plugin, which cannot be running when it is not in the map.
LEMMA LoadKeeps ==
  ASSUME ManagerInv, NEW ks \in SUBSET Key, Loads(ks), crossed' = crossed,
         UNCHANGED <<running, pending, reqVars>>,
         up' \in BOOLEAN, files' \in [Key -> {"none", "part", "whole"}]
  PROVE  ManagerInv'
<1> DEFINE new == {k \in ks : plugins[k] = 0 /\ loads[k] < MaxLoads}
<1>1. ManagerTypeOK
  BY Zenon DEF ManagerInv
<1>2. ManagerTypeOK'
  BY <1>1, PluginAssumption DEF ManagerTypeOK, Loads, reqVars, State
<1>3. ASSUME NEW k \in Key PROVE TruthOK(k)'
  <2>1. CASE k \notin new
    <3>1. plugins'[k] = plugins[k] /\ state'[k] = state[k]
      BY Zenon, <1>1, <2>1 DEF Loads, ManagerTypeOK
    <3> QED  BY Zenon, <3>1, OtherPlugins DEF ManagerInv, reqVars
  <2>2. CASE k \in new
    <3>1. ~Started(k) /\ ~Started(k)'
      BY <1>1, <2>2, PluginAssumption DEF Started, Loads, ManagerTypeOK
    <3>2. k \notin crossed => Busy(k) = {} /\ k \notin running
      BY Zenon, <2>2, <3>1 DEF ManagerInv, TruthOK, BusyOK, Agrees
    <3>3. Busy(k)' = Busy(k)
      BY Zenon DEF Busy, reqVars
    <3> QED  BY Zenon, <3>1, <3>2, <3>3 DEF TruthOK, Agrees
  <2> QED  BY Zenon, <2>1, <2>2
<1> QED  BY Zenon, <1>2, <1>3 DEF ManagerInv, reqVars

\* Taking plugins out of the map stops the ones that run.
LEMMA StopKeeps ==
  ASSUME ManagerInv, NEW ks \in SUBSET Key, NEW failed \in SUBSET Key, StopAll(ks, failed),
         UNCHANGED <<files, loads, state, up, pending, reqVars>>
  PROVE  ManagerInv'
<1>1. ManagerTypeOK
  BY Zenon DEF ManagerInv
<1>2. ManagerTypeOK'
  BY <1>1, PluginAssumption DEF ManagerTypeOK, StopAll, reqVars
<1>3. ASSUME NEW k \in Key PROVE TruthOK(k)'
  <2>0. Busy(k)' = Busy(k) /\ TruthOK(k)
    BY Zenon DEF Busy, reqVars, ManagerInv
  <2>1. CASE k \notin ks
    <3>1. /\ plugins'[k] = plugins[k] /\ (k \in running' <=> k \in running)
          /\ crossed \subseteq crossed'
      BY Zenon, <1>1, <2>1 DEF StopAll, ManagerTypeOK
    <3> QED  BY Zenon, <2>0, <3>1, OtherPlugins DEF reqVars
  <2>2. CASE k \in ks
    <3>1. ~Started(k)'
      BY Zenon, <2>2 DEF StopAll, Started
    <3>2. ASSUME k \notin crossed'
          PROVE  Busy(k) = {} /\ k \notin running'
      BY Zenon, <2>0, <2>2, <3>2 DEF StopAll, TruthOK, Agrees, Started
    <3> QED  BY Zenon, <2>0, <3>1, <3>2 DEF TruthOK, Agrees
  <2> QED  BY Zenon, <2>1, <2>2
<1> QED  BY Zenon, <1>2, <1>3 DEF ManagerInv, reqVars

\* A request finds its plugin; if another one works on it they cross.
LEMMA LookUpKeeps ==
  ASSUME ManagerInv, NEW q \in Req, NEW k \in Key, NEW l \in {"init", "stop"}, LookUp(q, k, l)
  PROVE  ManagerInv'
<1>1. ManagerTypeOK /\ pc \in [Req -> Own \cup Foreign] /\ TruthOK(k)
  BY Zenon DEF ManagerInv
<1>2. l \in StartStop /\ l \in Foreign /\ "idle" \notin StartStop
  BY Zenon DEF StartStop, Foreign
<1>3. /\ pc[q] = "idle" /\ pc'[q] = l /\ key'[q] = k /\ ptr'[q] = plugins[k] /\ plugins[k] # 0
      /\ \A r \in Req \ {q} : pc'[r] = pc[r] /\ key'[r] = key[r] /\ ptr'[r] = ptr[r]
      /\ UNCHANGED <<managed, running>> /\ crossed \subseteq crossed'
      /\ k \notin crossed' => Busy(k) = {}
  BY Zenon, <1>1 DEF LookUp, Crosses, ManagerTypeOK
<1>4. ManagerTypeOK' /\ pc' \in [Req -> Own \cup Foreign]
  BY Zenon, <1>1, <1>2 DEF LookUp, Crosses, ManagerTypeOK, managed
<1>5. TruthOK(k)'
  <2> SUFFICES ASSUME k \notin crossed' PROVE TruthOK(k)'
    BY Zenon DEF TruthOK
  <2>1. Busy(k)' = {q}
    BY <1>2, <1>3 DEF Busy
  <2>2. Agrees(k) /\ (Agrees(k)' <=> Agrees(k))
    BY Zenon, <1>1, <1>3 DEF TruthOK, Agrees, Started, managed
  <2>3. BusyOK(q, k)'
    BY Zenon, <1>3, <2>2 DEF BusyOK, managed
  <2> QED  BY Zenon, <2>1, <2>2, <2>3 DEF TruthOK
<1>6. ASSUME NEW j \in Key \ {k} PROVE TruthOK(j)'
  BY <1>2, <1>3, OtherPlugins DEF ManagerInv, managed
<1> QED  BY Zenon, <1>4, <1>5, <1>6 DEF ManagerInv

\* What SetState does.
LEMMA StateSet ==
  ASSUME ManagerTypeOK, NEW q \in Req, NEW k \in Key, k = key[q], NEW s \in State, SetState(q, s)
  PROVE  /\ state' \in [Key -> [1 .. MaxLoads -> State]]
         /\ \A j \in Key \ {k} : state'[j] = state[j]
         /\ ptr[q] \in 1 .. MaxLoads => state'[k][ptr[q]] = s
<1> DEFINE row == [state[k] EXCEPT ![ptr[q]] = s]
<1>1. state' = [state EXCEPT ![k] = row]
  BY Zenon DEF SetState
<1>2. row \in [1 .. MaxLoads -> State] /\ (ptr[q] \in 1 .. MaxLoads => row[ptr[q]] = s)
  BY Zenon DEF ManagerTypeOK
<1> HIDE DEF row
<1> QED  BY Zenon, <1>1, <1>2 DEF ManagerTypeOK

\* A start or stop goes on: for its own plugin, if nobody crosses, it ends in
\* agreement or is where BusyOK says.
LEMMA StepKeeps ==
  ASSUME ManagerInv, NEW q \in Req, ManagerStep(q)
  PROVE  ManagerInv'
<1>t. ManagerTypeOK /\ pc \in [Req -> Own \cup Foreign]
  BY Zenon DEF ManagerInv
<1>0. PICK k \in Key : k = key[q]
  BY Zenon, <1>t DEF ManagerTypeOK
<1>1. /\ pc[q] \in StartStop /\ UNCHANGED <<files, plugins, loads, up, pending, key>>
      /\ crossed' \in {crossed, crossed \cup {k}}
      /\ running' \in {running, running \cup {k}, running \ {k}}
  BY Zenon, <1>0 DEF ManagerStep, StartInit, StartStart, StartDone, StopStop, StopDone, Ends, Goes,
              procVars, StartStop
<1>2. PICK l \in Foreign : pc' = [pc EXCEPT ![q] = l] /\ ptr' \in {ptr, [ptr EXCEPT ![q] = 0]}
  BY Zenon DEF ManagerStep, StartInit, StartStart, StartDone, StopStop, StopDone, Ends, Goes,
         Foreign, StartStop
<1>3. /\ pc' \in [Req -> Own \cup Foreign] /\ ptr' \in [Req -> 0 .. MaxLoads]
      /\ \A r \in Req \ {q} : pc'[r] = pc[r] /\ ptr'[r] = ptr[r]
  BY <1>t, <1>2, PluginAssumption DEF ManagerTypeOK
<1>4. state' = state \/ \E s \in State : SetState(q, s)
  BY Zenon DEF ManagerStep, StartInit, StartStart, StartDone, StopStop, StopDone, State, procVars
<1>5. /\ state' \in [Key -> [1 .. MaxLoads -> State]]
      /\ \A j \in Key \ {k} : state'[j] = state[j]
  BY Zenon, <1>t, <1>0, <1>4, StateSet DEF ManagerTypeOK
<1>6. ManagerTypeOK'
  BY Zenon, <1>t, <1>1, <1>3, <1>5 DEF ManagerTypeOK
<1>7. ASSUME NEW j \in Key \ {k} PROVE TruthOK(j)'
  BY Zenon, <1>0, <1>1, <1>3, <1>5, OtherPlugins DEF ManagerInv
<1>8. TruthOK(k)'
  <2> SUFFICES ASSUME k \notin crossed' PROVE TruthOK(k)'
    BY Zenon DEF TruthOK
  <2>0. Busy(k) = {q} /\ BusyOK(q, k) /\ ptr[q] \in 1 .. MaxLoads
    <3>1. q \in Busy(k) /\ k \notin crossed /\ TruthOK(k)
      BY Zenon, <1>0, <1>1 DEF Busy, ManagerInv
    <3>2. Busy(k) = {q} /\ BusyOK(q, k)
      BY Zenon, <3>1 DEF TruthOK
    <3> QED  BY <1>t, <3>2, PluginAssumption DEF BusyOK, ManagerTypeOK
  <2>s. \A s \in State : SetState(q, s) => (Started(k)' <=> s = "STARTED")
    BY <1>t, <1>0, <1>1, <2>0, StateSet DEF Started, BusyOK
  <2>u. state' = state => (Started(k)' <=> Started(k))
    BY Zenon, <1>1 DEF Started
  <2>e. ASSUME Ends(q), Agrees(k)' PROVE TruthOK(k)'
    <3>1. Busy(k)' = {}
      BY Zenon, <1>t, <1>0, <2>0, <2>e DEF Busy, Ends, StartStop
    <3> QED  BY Zenon, <2>e, <3>1 DEF TruthOK
  <2>g. ASSUME NEW m \in StartStop, Goes(q, m), BusyOK(q, k)' PROVE TruthOK(k)'
    <3>1. Busy(k)' = {q}
      BY Zenon, <1>t, <1>0, <2>0, <2>g DEF Busy, Goes
    <3> QED  BY Zenon, <2>g, <3>1 DEF TruthOK
  <2>1. CASE StartInit(q)
    <3>0. pc[q] = "init" /\ UNCHANGED running /\ (Started(k) <=> state[k][ptr[q]] = "STARTED")
          /\ Agrees(k)
      BY Zenon, <2>0, <2>1 DEF StartInit, procVars, BusyOK, Started
    <3>1. CASE state[key[q]][ptr[q]] = "STARTED" /\ Ends(q) /\ UNCHANGED state
      BY Zenon, <2>e, <2>u, <3>0, <3>1 DEF Agrees
    <3>2. CASE state[key[q]][ptr[q]] # "STARTED" /\ Goes(q, "start") /\ UNCHANGED state
      <4>1. pc'[q] = "start" /\ ptr'[q] = ptr[q]
        BY Zenon, <1>t, <3>2 DEF Goes
      <4>2. BusyOK(q, k)'
        BY ZenonT(60), <1>0, <1>1, <2>0, <2>u, <3>0, <3>2, <4>1 DEF BusyOK, Agrees
      <4> QED  BY Zenon, <2>g, <3>2, <4>2 DEF StartStop
    <3>3. CASE state[key[q]][ptr[q]] # "STARTED" /\ SetState(q, "ERROR") /\ Ends(q)
      BY Zenon, <1>0, <2>e, <2>s, <3>0, <3>3 DEF Agrees, State
    <3> QED  BY Zenon, <2>1, <3>1, <3>2, <3>3 DEF StartInit
  <2>2. CASE StartStart(q)
    <3>0. pc[q] = "start" /\ ~Started(k) /\ k \notin running
      BY Zenon, <2>0, <2>2 DEF StartStart, BusyOK
    <3>1. CASE running' = running \cup {key[q]} /\ Goes(q, "started") /\ UNCHANGED state
      <4>1. pc'[q] = "started" /\ ptr'[q] = ptr[q]
        BY Zenon, <1>t, <3>1 DEF Goes
      <4>2. BusyOK(q, k)'
        BY Zenon, <1>0, <1>1, <2>0, <2>u, <3>0, <3>1, <4>1 DEF BusyOK
      <4> QED  BY Zenon, <2>g, <3>1, <4>2 DEF StartStop
    <3>2. CASE SetState(q, "ERROR") /\ Ends(q) /\ UNCHANGED running
      BY Zenon, <2>e, <2>s, <3>0, <3>2 DEF Agrees, State
    <3> QED  BY Zenon, <2>2, <3>1, <3>2 DEF StartStart
  <2>3. CASE StartDone(q)
    BY Zenon, <2>0, <2>3, <2>e, <2>s DEF StartDone, procVars, BusyOK, Agrees, State
  <2>4. CASE StopStop(q)
    <3>0. pc[q] = "stop" /\ (Started(k) <=> state[k][ptr[q]] = "STARTED") /\ Agrees(k)
      BY Zenon, <2>0, <2>4 DEF StopStop, BusyOK, Started
    <3>1. CASE state[key[q]][ptr[q]] # "STARTED" /\ Ends(q) /\ UNCHANGED <<state, running>>
      BY Zenon, <2>e, <2>u, <3>0, <3>1 DEF Agrees
    <3>2. CASE /\ state[key[q]][ptr[q]] = "STARTED" /\ Goes(q, "stopped")
               /\ running' = running \ {key[q]} /\ UNCHANGED state
      <4>1. pc'[q] = "stopped" /\ ptr'[q] = ptr[q]
        BY Zenon, <1>t, <3>2 DEF Goes
      <4>2. BusyOK(q, k)'
        BY Zenon, <1>0, <1>1, <2>0, <2>u, <3>0, <3>2, <4>1 DEF BusyOK
      <4> QED  BY Zenon, <2>g, <3>2, <4>2 DEF StartStop
    <3>3. CASE crossed' = crossed \cup {key[q]}
      BY Zenon, <1>0, <3>3
    <3> QED  BY Zenon, <2>4, <3>1, <3>2, <3>3 DEF StopStop
  <2>5. CASE StopDone(q)
    BY Zenon, <2>0, <2>5, <2>e, <2>s DEF StopDone, procVars, BusyOK, Agrees, State
  <2> QED  BY Zenon, <2>1, <2>2, <2>3, <2>4, <2>5 DEF ManagerStep
<1> QED  BY Zenon, <1>3, <1>6, <1>7, <1>8 DEF ManagerInv

\* No load and no object.
LEMMA NoLoad == 0 \in 0 .. MaxLoads
BY PluginAssumption

\* The states of a process that has loaded nothing.
LEMMA FreshStates ==
  [k \in Key |-> [g \in 1 .. MaxLoads |-> "LOADED"]] \in [Key -> [1 .. MaxLoads -> State]]
<1>1. [g \in 1 .. MaxLoads |-> "LOADED"] \in [1 .. MaxLoads -> State]
  BY Zenon DEF State
<1> QED  BY Zenon, <1>1

\* The service has no part in it ...
LEMMA ServiceApart ==
  ASSUME ManagerInv, InstallInv', NEW q \in Req, pc[q] \notin StartStop, pc'[q] \notin StartStop,
         \A r \in Req \ {q} : pc'[r] = pc[r] /\ key'[r] = key[r] /\ ptr'[r] = ptr[r],
         ptr' \in [Req -> 0 .. MaxLoads], UNCHANGED <<managed, procVars>>
  PROVE  ManagerInv'
<1>1. ManagerTypeOK'
  BY Zenon DEF ManagerInv, ManagerTypeOK, InstallInv, ServiceTyped, managed, procVars
<1>2. ASSUME NEW k \in Key PROVE TruthOK(k)'
  BY Zenon, OtherPlugins DEF ManagerInv, managed, procVars
<1> QED  BY Zenon, <1>1, <1>2 DEF ManagerInv, InstallInv, ServiceTyped

\* ... so that every step keeps the invariant.
LEMMA ManagerInvStep ==
  ASSUME InstallInv, ManagerInv, [PluginNext]_vars
  PROVE  ManagerInv'
<1>0. InstallInv' /\ ManagerTypeOK /\ pc \in [Req -> Own \cup Foreign]
  BY Zenon, InstallInvStep DEF ManagerInv
<1>1. CASE UNCHANGED vars
  <2>1. UNCHANGED <<files, managed, procVars, reqVars>>
    BY Zenon, <1>1 DEF vars, managerVars
  <2>2. ManagerTypeOK'
    BY Zenon, <1>0, <2>1 DEF ManagerTypeOK, managed, procVars, reqVars
  <2>3. ASSUME NEW k \in Key PROVE TruthOK(k)'
    BY Zenon, <2>1, OtherPlugins DEF ManagerInv, managed, procVars, reqVars
  <2> QED  BY Zenon, <1>0, <2>1, <2>2, <2>3 DEF ManagerInv, reqVars
<1>2. CASE ManagerNext
  <2>1. CASE LoadAll
    <3>1. PICK ks \in SUBSET Key : Loads(ks)
      BY Zenon, <2>1 DEF LoadAll
    <3> QED  BY Zenon, <1>0, <2>1, <3>1, LoadKeeps DEF LoadAll, ManagerTypeOK
  <2>2. ASSUME NEW k \in Key, LoadPlugin(k) PROVE ManagerInv'
    BY Zenon, <1>0, <2>2, LoadKeeps DEF LoadPlugin, procVars, ManagerTypeOK
  <2>3. ASSUME NEW k \in Key, UnloadPlugin(k) PROVE ManagerInv'
    <3>1. PICK failed \in SUBSET Key : StopAll({k}, failed)
      BY Zenon, <2>3 DEF UnloadPlugin
    <3> QED  BY Zenon, <2>3, <3>1, StopKeeps DEF UnloadPlugin
  <2>4. CASE Shutdown
    <3>1. PICK failed \in SUBSET Key : StopAll(Key, failed)
      BY Zenon, <2>4 DEF Shutdown
    <3> QED  BY Zenon, <2>4, <3>1, StopKeeps DEF Shutdown
  <2>5. ASSUME pending' \subseteq Key, UNCHANGED <<files, managed, up, running, crossed, reqVars>>
        PROVE  ManagerInv'
    <3>1. ManagerTypeOK'
      BY Zenon, <1>0, <2>5 DEF ManagerTypeOK, managed, reqVars
    <3>2. ASSUME NEW k \in Key PROVE TruthOK(k)'
      BY Zenon, <2>5, OtherPlugins DEF ManagerInv, managed, reqVars
    <3> QED  BY Zenon, <1>0, <2>5, <3>1, <3>2 DEF ManagerInv, reqVars
  <2>6. CASE EmitEvent
    BY Zenon, <1>0, <2>5, <2>6 DEF EmitEvent, ManagerTypeOK
  <2>7. ASSUME NEW k \in Key, HandleEvent(k) PROVE ManagerInv'
    BY Zenon, <1>0, <2>5, <2>7 DEF HandleEvent, ManagerTypeOK
  <2>8. ASSUME NEW q \in Req, ResolvePlugin(q) PROVE ManagerInv'
    BY Zenon, <2>8, LookUpKeeps DEF ResolvePlugin
  <2> QED
    BY Zenon, <1>2, <2>1, <2>2, <2>3, <2>4, <2>6, <2>7, <2>8, StepKeeps DEF ManagerNext
<1>3. CASE Crash
  <2>1. ManagerTypeOK'
    BY Zenon, <1>0, <1>3, NoLoad, FreshStates DEF Crash, Exit, ManagerTypeOK
  <2>2. \A k \in Key : Busy(k)' = {} /\ Agrees(k)'
    BY Zenon, <1>3 DEF Crash, Exit, Busy, StartStop, Agrees, Started
  <2> QED  BY Zenon, <1>0, <2>1, <2>2 DEF ManagerInv, TruthOK, InstallInv, ServiceTyped
<1>4. ASSUME NEW q \in Req, NEW k \in Key, Install(q, k) \/ ReadsRow(q, k)
      PROVE  ManagerInv'
  <2>1. PICK l \in {"copy", "enable", "disable", "extensions"} : Begins(q, k, l)
    BY Zenon, <1>4 DEF Install, ReadsRow, Enable, Disable, Uninstall, ReadRow
  <2>2. /\ pc[q] \notin StartStop /\ pc'[q] \notin StartStop /\ UNCHANGED <<ptr, managed, procVars>>
        /\ \A r \in Req \ {q} : pc'[r] = pc[r] /\ key'[r] = key[r]
    BY Zenon, <1>0, <2>1 DEF Begins, StartStop, ManagerTypeOK
  <2> QED  BY Zenon, <1>0, <2>2, ServiceApart DEF ManagerTypeOK
<1>5. ASSUME NEW q \in Req, InstallCopy(q) \/ InstallCreate(q) \/ WorksOn(q)
      PROVE  ManagerInv'
  <2> USE DEF WorksOn, InstallCopy, InstallCreate, EnableWrite, DisableWrite, Writes,
              UninstallExtensions, UninstallRemove, UninstallDelete
  <2>1. pc[q] \notin StartStop /\ UNCHANGED <<managed, procVars>>
    BY Zenon, <1>5 DEF StartStop
  <2>2. Ends(q) \/ \E l \in {"create", "remove", "delete"} : Goes(q, l)
    BY Zenon, <1>5
  <2>3. /\ pc'[q] \notin StartStop /\ ptr' \in [Req -> 0 .. MaxLoads]
        /\ \A r \in Req \ {q} : pc'[r] = pc[r] /\ key'[r] = key[r] /\ ptr'[r] = ptr[r]
    BY Zenon, <1>0, <2>2, NoLoad DEF Ends, Goes, StartStop, ManagerTypeOK
  <2> QED  BY Zenon, <1>0, <2>1, <2>3, ServiceApart
<1> QED  BY Zenon, <1>1, <1>2, <1>3, <1>4, <1>5, PluginKinds

\* THEOREM: outside a start or stop a plugin runs exactly if the manager holds it
\* as STARTED (PluginManager), unless two operations on it crossed or a Stop
\* failed.
THEOREM ManagerTruthful == PluginSpec => []StateTruthful
<1>1. PluginInit => InstallInv /\ ManagerInv
  <2> SUFFICES ASSUME PluginInit PROVE ManagerInv
    BY Zenon, PluginStart
  <2>1. ManagerTypeOK
    BY Zenon, NoLoad, FreshStates DEF PluginInit, ManagerInit, ManagerTypeOK
  <2>2. \A k \in Key : Busy(k) = {} /\ Agrees(k)
    BY Zenon DEF PluginInit, ManagerInit, Busy, StartStop, Agrees, Started
  <2> QED  BY Zenon, <2>1, <2>2, PluginStart DEF ManagerInv, TruthOK, InstallInv, ServiceTyped
<1>2. InstallInv /\ ManagerInv /\ [PluginNext]_vars => (InstallInv /\ ManagerInv)'
  BY Zenon, InstallInvStep, ManagerInvStep
<1>3. ManagerInv => StateTruthful
  BY Zenon DEF ManagerInv, TruthOK, Agrees, Started, StateTruthful
<1> QED  BY <1>1, <1>2, <1>3, PTL DEF PluginSpec

-----------------------------------------------------------------------------
(* The configuration server and its client: the files, the cache and the   *)
(* listener.                                                               *)

\* What files and cs.configs hold.
TreesInv ==
  /\ disk \in [File -> Section \cup {Missing, Truncated, Broken}]
  /\ loaded \in [File -> Section \cup {Missing}]

\* The constants FilesAssumption tells apart.
LEMMA Marks ==
  /\ Missing \notin {Truncated, Broken} /\ NotFound # Missing
  /\ EmptyTree \in Section /\ {Missing, Truncated, Broken, NotFound} \cap Section = {}
<1>1. EmptyTree \in Section
  BY TreeAssumption DEF Section, IsSection, EmptyTree
<1>2. {Missing, Truncated, Broken, NotFound} \cap Section = {}
  BY Zenon, TreeAssumption DEF Section
<1>3. QED BY Zenon, <1>1, <1>2, FilesAssumption

\* NewConfigServer has loaded what was on disk.
LEMMA FilesInitially ==
  ASSUME ServerInit
  PROVE  TreesInv
<1>1. PICK d \in Content[Default] \cup {Missing}, p \in Content[Profile] \cup {Missing} :
        /\ {d, p} \cap {Truncated, Broken} = {}
        /\ disk = [f \in File |-> IF f = Default THEN d ELSE p]
  BY Zenon DEF ServerInit
<1>2. loaded = disk
  BY Zenon DEF ServerInit
<1>3. Default \in File /\ Profile \in File
  BY Zenon DEF File
<1>4. d \in Section \cup {Missing} /\ p \in Section \cup {Missing}
  BY Zenon, <1>1, <1>3, FilesAssumption
<1>5. QED BY <1>1, <1>2, <1>4 DEF TreesInv

\* A load puts sections into cs.configs.
LEMMA FilesKept ==
  ASSUME TreesInv, ServerNext \/ (Refreshed \/ RefreshConfig) \/ UNCHANGED <<disk, loaded>>
  PROVE  TreesInv'
<1>1. CASE \E f \in File : WriteFile(f) \/ RemoveFile(f)
  <2>1. PICK f \in File : WriteFile(f) \/ RemoveFile(f)
    BY Zenon, <1>1
  <2>2. PICK c \in Section \cup {Missing, Truncated, Broken} :
          disk' = [disk EXCEPT ![f] = c] /\ loaded' = loaded
    BY <2>1, FilesAssumption DEF WriteFile, RemoveFile
  <2>3. QED BY <2>2 DEF TreesInv
<1>2. CASE processConfigFile
  <2> DEFINE f == Head(walk)
  <2>1. /\ disk' = disk
        /\ loaded' = IF disk[f] = Missing THEN loaded ELSE [loaded EXCEPT ![f] = Parsed(f)]
    BY Zenon, <1>2 DEF processConfigFile
  <2> HIDE DEF f
  <2>2. f \in File /\ disk[f] # Missing => Parsed(f) \in Section \cup {Missing}
    BY Marks DEF Parsed, TreesInv
  <2>3. loaded' \in [File -> Section \cup {Missing}]
    BY Zenon, <2>1, <2>2 DEF TreesInv
  <2>4. QED BY Zenon, <2>1, <2>3 DEF TreesInv
<1>3. CASE UNCHANGED <<disk, loaded>>
  BY Zenon, <1>3 DEF TreesInv
<1>4. CASE handleWatcherEvent
  BY Zenon, <1>3, <1>4 DEF handleWatcherEvent
<1>5. CASE LoadFails(Watcher) \/ LoadDone(Watcher)
  BY Zenon, <1>3, <1>5 DEF LoadFails, LoadDone, LoadEnds
<1>6. CASE Refreshed
  BY Zenon, <1>3, <1>6 DEF Refreshed, LoadFails, LoadDone, LoadEnds
<1>7. CASE RefreshConfig
  BY Zenon, <1>3, <1>7 DEF RefreshConfig
<1>8. QED BY Zenon, <1>1, <1>2, <1>3, <1>4, <1>5, <1>6, <1>7 DEF ServerNext

\* A configuration is a function from finitely many keys, as Go's maps are.
IsConfig(t) == t = [k \in DOMAIN t |-> t[k]] /\ IsFiniteSet(DOMAIN t)

\* The cache and what the refreshes carry are such maps; while the application
\* holds the server's lock its refresh waits for the answer.
CacheInv ==
  /\ IsConfig(clientCache)
  /\ DOMAIN stage = Refresher /\ DOMAIN old = Refresher /\ DOMAIN resp = Refresher
  /\ \A r \in Refresher : IsConfig(old[r]) /\ IsConfig(resp[r])
  /\ walker = Asker => stage[Asker] = "post"

\* A configuration the listener has been told of, or never has to be.
Told(c) == c = EmptyTree \/ c \in notes
Comparing(r) == stage[r] = "compare"

\* ChangesTold made inductive: the configurations not told yet form a chain of
\* refreshes that still compare, each replacing the one before it, and the
\* first of them replaced one that was told.
ToldInv ==
  phase # "crashed" =>
    /\ \/ Told(clientCache)
       \/ \E r \in Refresher : Comparing(r) /\ resp[r] = clientCache
    /\ \A r \in Refresher : Comparing(r) =>
         \/ Told(old[r])
         \/ \E s \in Refresher \ {r} : Comparing(s) /\ resp[s] = old[r]
    /\ (\E r \in Refresher : Comparing(r)) => \E r \in Refresher : Comparing(r) /\ Told(old[r])

ConfigInv == TreesInv /\ CacheInv /\ ToldInv

\* The trees of the files are such maps.
LEMMA TreesAreConfigs ==
  ASSUME NEW t \in Tree
  PROVE  IsConfig(t)
BY Zenon, TreeAssumption DEF IsConfig

\* NewConfigClient starts with an empty cache.
LEMMA ConfigInitially ==
  ASSUME ClientInit
  PROVE  ConfigInv
<1>1. TreesInv
  BY Zenon, FilesInitially DEF ClientInit
<1>2. IsConfig(EmptyTree)
  BY Zenon, TreeAssumption, TreesAreConfigs
<1>3. walker # Asker
  BY Zenon, ClientAssumption DEF ClientInit, ServerInit
<1>4. /\ clientCache = EmptyTree
      /\ stage = [r \in Refresher |-> IF r = Asker THEN "get" ELSE "idle"]
      /\ resp = [r \in Refresher |-> EmptyTree] /\ old = [r \in Refresher |-> EmptyTree]
  BY Zenon DEF ClientInit
<1>5. CacheInv
  BY Zenon, <1>2, <1>3, <1>4 DEF CacheInv
<1>6. \A r \in Refresher : ~Comparing(r)
  BY <1>4 DEF Comparing
<1>7. Told(clientCache)
  BY Zenon, <1>4 DEF Told
<1>8. ToldInv
  BY Zenon, <1>6, <1>7 DEF ToldInv
<1>9. QED BY Zenon, <1>1, <1>5, <1>8 DEF ConfigInv

\* A step of a refresh moves its own stage, and not from "post".  (That GetConfig
\* serves a map is ServesConfigs, below.)
LEMMA CacheKept ==
  ASSUME CacheInv, ClientNext, GetConfig # NotFound => IsConfig(GetConfig)
  PROVE  CacheInv'
<1> USE DEF CacheInv
<1>1. Asker \in Refresher
  BY Zenon DEF Refresher
<1>2. ASSUME NEW r \in Refresher, NEW l, NEW x, IsConfig(x), stage[r] # "post", Goto(r, l),
             walker' = walker, clientCache' = clientCache \/ clientCache' = resp[r],
             \/ old' = old /\ resp' = resp
             \/ old' = old /\ resp' = [resp EXCEPT ![r] = x]
             \/ old' = [old EXCEPT ![r] = x] /\ resp' = resp
             \/ old' = [old EXCEPT ![r] = EmptyTree] /\ resp' = [resp EXCEPT ![r] = EmptyTree]
      PROVE  CacheInv'
  <2>1. IsConfig(EmptyTree)
    BY Zenon, TreeAssumption, TreesAreConfigs
  <2>2. IsConfig(clientCache')
    BY Zenon, <1>2
  <2>3. DOMAIN stage' = Refresher /\ \A s \in Refresher \ {r} : stage'[s] = stage[s]
    BY <1>2 DEF Goto
  <2>4. DOMAIN old' = Refresher /\ DOMAIN resp' = Refresher
    BY <1>2
  <2>5. \A s \in Refresher : \/ old'[s] = old[s] \/ old'[s] = x \/ old'[s] = EmptyTree
    BY <1>2
  <2>6. \A s \in Refresher : \/ resp'[s] = resp[s] \/ resp'[s] = x \/ resp'[s] = EmptyTree
    BY <1>2
  <2>7. walker' = Asker => stage'[Asker] = "post"
    BY Zenon, <1>1, <1>2, <2>3
  <2>8. \A s \in Refresher : IsConfig(old'[s]) /\ IsConfig(resp'[s])
    BY Zenon, <1>2, <2>1, <2>5, <2>6
  <2>9. QED BY Zenon, <2>2, <2>3, <2>4, <2>7, <2>8 DEF IsConfig
<1>3. CASE ServerNext /\ UNCHANGED clientVars
  <2>1. clientCache' = clientCache /\ stage' = stage /\ old' = old /\ resp' = resp
    BY Zenon, <1>3 DEF clientVars
  <2>2. walker' # Asker \/ walker' = walker
    BY Zenon, <1>3, ClientAssumption
       DEF ServerNext, WriteFile, RemoveFile, handleWatcherEvent, loadConfigs, processConfigFile,
           LoadFails, LoadDone, LoadEnds
  <2>3. QED BY Zenon, <2>1, <2>2 DEF IsConfig
<1>4. ASSUME NEW r \in Refresher, Refresh(r) PROVE CacheInv'
  <2>1. /\ Goto(r, "get") /\ walker' = walker /\ clientCache' = clientCache
        /\ old' = old /\ resp' = resp
    BY Zenon, <1>4 DEF Refresh, serverVars
  <2>2. stage[r] # "post"
    BY <1>4 DEF Refresh
  <2>3. QED BY Zenon, <1>2, <2>1, <2>2
<1>5. ASSUME NEW r \in Refresher, Answered(r) PROVE CacheInv'
  <2>1. /\ Goto(r, "swap") /\ walker' = walker /\ clientCache' = clientCache /\ old' = old
        /\ resp' = [resp EXCEPT ![r] = GetConfig]
    BY Zenon, <1>5 DEF Answered, serverVars
  <2>2. stage[r] # "post"
    BY <1>5 DEF Answered
  <2>3. IsConfig(GetConfig)
    BY Zenon, <1>5 DEF Answered
  <2>4. QED BY Zenon, <1>2, <2>1, <2>2, <2>3
<1>6. ASSUME NEW r \in Refresher, Unanswered(r) PROVE CacheInv'
  <2>1. walker' = walker /\ clientCache' = clientCache /\ old' = old /\ resp' = resp
    BY Zenon, <1>6 DEF Unanswered, serverVars
  <2>2. stage' = stage \/ Goto(r, "idle")
    BY Zenon, <1>6 DEF Unanswered
  <2>3. stage[r] # "post"
    BY <1>6 DEF Unanswered
  <2>4. CASE stage' = stage
    BY Zenon, <2>1, <2>4 DEF IsConfig
  <2>5. QED BY Zenon, <1>2, <2>1, <2>2, <2>3, <2>4
<1>7. ASSUME NEW r \in Refresher, updateCache(r) PROVE CacheInv'
  <2>1. /\ Goto(r, "compare") /\ walker' = walker /\ clientCache' = resp[r]
        /\ old' = [old EXCEPT ![r] = clientCache] /\ resp' = resp
    BY Zenon, <1>7 DEF updateCache, serverVars
  <2>2. stage[r] # "post"
    BY <1>7 DEF updateCache
  <2>3. QED BY Zenon, <1>2, <2>1, <2>2
<1>8. ASSUME NEW r \in Refresher, Compared(r) PROVE CacheInv'
  <2>1. walker' = walker /\ clientCache' = clientCache
    BY Zenon, <1>8 DEF Compared, serverVars
  <2>2. stage[r] # "post"
    BY <1>8 DEF Compared
  <2>3. \/ stage' = stage /\ old' = old /\ resp' = resp
        \/ /\ Goto(r, "idle")
           /\ old' = [old EXCEPT ![r] = EmptyTree] /\ resp' = [resp EXCEPT ![r] = EmptyTree]
    BY Zenon, <1>8 DEF Compared
  <2>4. CASE stage' = stage /\ old' = old /\ resp' = resp
    BY Zenon, <2>1, <2>4 DEF IsConfig
  <2>5. QED BY Zenon, <1>2, <2>1, <2>2, <2>3, <2>4
<1>9. CASE RefreshConfig
  <2>1. /\ Goto(Asker, "post") /\ clientCache' = clientCache /\ old' = old /\ resp' = resp
    BY Zenon, <1>9 DEF RefreshConfig
  <2>2. stage'[Asker] = "post" /\ DOMAIN stage' = Refresher
    BY <1>1, <2>1 DEF Goto
  <2>3. QED BY Zenon, <2>1, <2>2 DEF IsConfig
<1>10. CASE Refreshed
  <2>1. /\ DOMAIN stage' = Refresher /\ clientCache' = clientCache /\ old' = old /\ resp' = resp
    BY <1>10 DEF Refreshed, Goto
  <2>2. walker' # Asker
    BY Zenon, <1>10, ClientAssumption DEF Refreshed, LoadFails, LoadDone, LoadEnds
  <2>3. QED BY Zenon, <2>1, <2>2 DEF IsConfig
<1>11. CASE Stop
  BY Zenon, <1>11 DEF Stop, serverVars, IsConfig
<1>12. QED
  BY Zenon, <1>3, <1>4, <1>5, <1>6, <1>7, <1>8, <1>9, <1>10, <1>11 DEF ClientNext, Fetch

\* What leaves the cache, the notes and the refreshes that compare alone keeps
\* ToldInv.
LEMMA ToldStill ==
  ASSUME ToldInv, phase' # "crashed" => phase # "crashed",
         clientCache' = clientCache, notes' = notes,
         \A r \in Refresher : /\ stage'[r] = "compare" <=> stage[r] = "compare"
                              /\ stage[r] = "compare" => resp'[r] = resp[r] /\ old'[r] = old[r]
  PROVE  ToldInv'
<1> SUFFICES ASSUME phase' # "crashed" PROVE ToldInv'
  BY Zenon DEF ToldInv
<1>1. /\ \A r \in Refresher : Comparing(r)' <=> Comparing(r)
      /\ \A r \in Refresher : Comparing(r) => resp'[r] = resp[r] /\ old'[r] = old[r]
  BY Zenon DEF Comparing
<1>2. \A c : (c = EmptyTree \/ c \in notes') <=> Told(c)
  BY Zenon DEF Told
<1>3. Told(clientCache)' <=> Told(clientCache)
  BY Zenon DEF Told
<1>4. \A r \in Refresher : Comparing(r) => (Told(old[r])' <=> Told(old[r]))
  BY Zenon, <1>1, <1>2 DEF Told
<1>5. (\/ Told(clientCache)
       \/ \E r \in Refresher : Comparing(r) /\ resp[r] = clientCache)'
  BY Zenon, <1>1, <1>3 DEF ToldInv
<1>6. ASSUME NEW r \in Refresher, Comparing(r)'
      PROVE  \/ Told(old[r])'
             \/ \E s \in Refresher \ {r} : Comparing(s)' /\ resp'[s] = old'[r]
  BY Zenon, <1>1, <1>4, <1>6 DEF ToldInv
<1>7. (\E r \in Refresher : Comparing(r)') => \E r \in Refresher : Comparing(r)' /\ Told(old[r])'
  BY Zenon, <1>1, <1>4 DEF ToldInv
<1>8. QED BY Zenon, <1>5, <1>6, <1>7 DEF ToldInv

\* A refresh that swaps the cache becomes the end of the chain.
LEMMA ToldSwap ==
  ASSUME CacheInv, ToldInv, NEW r \in Refresher, updateCache(r)
  PROVE  ToldInv'
<1>1. /\ stage[r] = "swap" /\ phase # "crashed" /\ clientCache' = resp[r]
      /\ old' = [old EXCEPT ![r] = clientCache] /\ resp' = resp /\ notes' = notes
      /\ stage' = [stage EXCEPT ![r] = "compare"]
  BY DEF updateCache, Goto, Alive
<1>2. /\ old'[r] = clientCache /\ \A s \in Refresher \ {r} : old'[s] = old[s]
  BY <1>1 DEF CacheInv
<1>3. /\ Comparing(r)' /\ ~Comparing(r) /\ \A s \in Refresher \ {r} : Comparing(s)' <=> Comparing(s)
  BY <1>1 DEF CacheInv, Comparing
<1>4. \A s \in Refresher : Told(old[s])' <=> (old'[s] = EmptyTree \/ old'[s] \in notes)
  BY Zenon, <1>1 DEF Told
<1>5. (\E s \in Refresher : Comparing(s) /\ resp[s] = clientCache)'
  BY Zenon, <1>1, <1>3
<1>6. ASSUME NEW s \in Refresher, Comparing(s)'
      PROVE  \/ Told(old[s])'
             \/ \E x \in Refresher \ {s} : Comparing(x)' /\ resp'[x] = old'[s]
  <2>1. CASE s = r
    BY Zenon, <1>1, <1>2, <1>3, <1>4, <2>1 DEF ToldInv, Told
  <2>2. CASE s # r
    <3>1. \/ Told(old[s])
          \/ \E x \in Refresher \ {s} : Comparing(x) /\ resp[x] = old[s]
      BY Zenon, <1>1, <1>3, <1>6, <2>2 DEF ToldInv
    <3>2. QED BY Zenon, <1>1, <1>2, <1>3, <1>4, <2>2, <3>1 DEF Told
  <2>3. QED BY Zenon, <2>1, <2>2
<1>7. \E s \in Refresher : Comparing(s)' /\ Told(old[s])'
  <2>1. CASE \E s \in Refresher : Comparing(s)
    <3>1. PICK s \in Refresher : Comparing(s) /\ Told(old[s])
      BY Zenon, <1>1, <2>1 DEF ToldInv
    <3>2. QED BY Zenon, <1>2, <1>3, <1>4, <3>1 DEF Told
  <2>2. CASE \A s \in Refresher : ~Comparing(s)
    BY Zenon, <1>1, <1>2, <1>3, <1>4, <2>2 DEF ToldInv, Told
  <2>3. QED BY Zenon, <2>1, <2>2
<1>8. QED BY Zenon, <1>5, <1>6, <1>7 DEF ToldInv

\* A refresh that has compared leaves the chain: what it brought is told, or
\* is what it replaced.
LEMMA ToldCompare ==
  ASSUME CacheInv, ToldInv, NEW r \in Refresher, Compared(r), phase' # "crashed",
         "equal" \in configEqual(old[r], resp[r]) => old[r] = resp[r]
  PROVE  ToldInv'
<1>1. PICK s \in Refresher : s # r /\ Refresher = {r, s}
  BY ClientAssumption DEF Refresher
<1>2. PICK eq \in configEqual(old[r], resp[r]) :
        /\ notes' = IF eq = "equal" THEN notes ELSE notes \cup {resp[r]}
        /\ stage' = [stage EXCEPT ![r] = "idle"]
        /\ resp' = [resp EXCEPT ![r] = EmptyTree] /\ old' = [old EXCEPT ![r] = EmptyTree]
  BY Zenon DEF Compared, Goto
<1>3. Comparing(r) /\ phase # "crashed" /\ clientCache' = clientCache
  BY DEF Compared, Alive, Comparing
<1>4. /\ old'[s] = old[s] /\ resp'[s] = resp[s] /\ stage'[r] = "idle" /\ stage'[s] = stage[s]
  BY <1>1, <1>2 DEF CacheInv
<1>5. ~Comparing(r)' /\ (Comparing(s)' <=> Comparing(s))
  BY <1>4 DEF Comparing
<1>6. \A c : Told(c) => c = EmptyTree \/ c \in notes'
  BY Zenon, <1>2 DEF Told
<1>7. resp[r] = old[r] \/ resp[r] \in notes'
  <2>1. CASE eq = "equal"
    BY Zenon, <1>2, <2>1
  <2>2. CASE eq # "equal"
    BY Zenon, <1>2, <2>2
  <2>3. QED BY Zenon, <2>1, <2>2
<1>8. /\ Told(clientCache) \/ resp[r] = clientCache \/ (Comparing(s) /\ resp[s] = clientCache)
      /\ Told(old[r]) \/ (Comparing(s) /\ resp[s] = old[r])
      /\ Comparing(s) => Told(old[s]) \/ resp[r] = old[s]
      /\ Told(old[r]) \/ (Comparing(s) /\ Told(old[s]))
  BY Zenon, <1>1, <1>3 DEF ToldInv
<1>9. Comparing(s) => old[s] = EmptyTree \/ old[s] \in notes'
  BY Zenon, <1>6, <1>7, <1>8
<1>10. \/ clientCache = EmptyTree \/ clientCache \in notes'
       \/ Comparing(s) /\ resp[s] = clientCache
  BY Zenon, <1>6, <1>7, <1>8
<1>11. Comparing(s)' => Told(old[s])'
  BY Zenon, <1>4, <1>5, <1>9 DEF Told
<1>12. (\/ Told(clientCache)
        \/ \E x \in Refresher : Comparing(x) /\ resp[x] = clientCache)'
  BY Zenon, <1>1, <1>3, <1>4, <1>5, <1>10 DEF Told
<1>13. \A x \in Refresher : Comparing(x)' => x = s
  BY Zenon, <1>1, <1>5
<1>14. QED BY Zenon, <1>11, <1>12, <1>13 DEF ToldInv

\* No step of the server or of a refresh loses a change.  (What configEqual
\* calls equal is equal: EqualIsEqual, below.)
LEMMA ToldKept ==
  ASSUME CacheInv, ToldInv, ClientNext,
         \A r \in Refresher : "equal" \in configEqual(old[r], resp[r]) => old[r] = resp[r]
  PROVE  ToldInv'
<1> USE DEF CacheInv
<1>1. CASE ServerNext /\ UNCHANGED clientVars
  BY Zenon, <1>1, ToldStill DEF clientVars
<1>2. ASSUME NEW r \in Refresher, NEW l, l # "compare", stage[r] # "compare", Goto(r, l),
             clientCache' = clientCache, notes' = notes, old' = old,
             resp' = resp \/ \E x : resp' = [resp EXCEPT ![r] = x],
             phase' # "crashed" => phase # "crashed"
      PROVE  ToldInv'
  <2>1. \A s \in Refresher : /\ stage'[s] = "compare" <=> stage[s] = "compare"
                             /\ stage[s] = "compare" => resp'[s] = resp[s] /\ old'[s] = old[s]
    BY <1>2 DEF Goto
  <2>2. QED BY Zenon, <1>2, <2>1, ToldStill
<1>3. ASSUME NEW r \in Refresher, Refresh(r) PROVE ToldInv'
  <2>1. /\ Goto(r, "get") /\ clientCache' = clientCache /\ notes' = notes /\ old' = old
        /\ resp' = resp /\ phase' = phase
    BY Zenon, <1>3 DEF Refresh
  <2>2. stage[r] # "compare" /\ "get" # "compare"
    BY <1>3 DEF Refresh
  <2>3. QED BY Zenon, <1>2, <2>1, <2>2
<1>4. ASSUME NEW r \in Refresher, Answered(r) PROVE ToldInv'
  <2>1. /\ Goto(r, "swap") /\ clientCache' = clientCache /\ notes' = notes /\ old' = old
        /\ resp' = [resp EXCEPT ![r] = GetConfig] /\ phase' = phase
    BY Zenon, <1>4 DEF Answered
  <2>2. stage[r] # "compare" /\ "swap" # "compare"
    BY <1>4 DEF Answered
  <2>3. QED BY Zenon, <1>2, <2>1, <2>2
<1>5. ASSUME NEW r \in Refresher, Unanswered(r) PROVE ToldInv'
  <2>1. clientCache' = clientCache /\ notes' = notes /\ old' = old /\ resp' = resp
    BY Zenon, <1>5 DEF Unanswered
  <2>2. stage[r] # "compare" /\ "idle" # "compare" /\ phase # "crashed"
    BY <1>5 DEF Unanswered, Alive
  <2>3. stage' = stage \/ Goto(r, "idle")
    BY Zenon, <1>5 DEF Unanswered
  <2>4. CASE stage' = stage
    BY Zenon, <2>1, <2>2, <2>4, ToldStill
  <2>5. QED BY Zenon, <1>2, <2>1, <2>2, <2>3, <2>4
<1>6. ASSUME NEW r \in Refresher, Compared(r) PROVE ToldInv'
  <2>1. CASE phase' = "crashed"
    BY Zenon, <2>1 DEF ToldInv
  <2>2. QED BY Zenon, <1>6, <2>1, ToldCompare
<1>7. CASE RefreshConfig
  <2>1. /\ Asker \in Refresher /\ Goto(Asker, "post") /\ clientCache' = clientCache
        /\ notes' = notes /\ old' = old /\ resp' = resp /\ phase' = phase
    BY Zenon, <1>7 DEF RefreshConfig, Refresher
  <2>2. stage[Asker] # "compare" /\ "post" # "compare"
    BY <1>7 DEF RefreshConfig
  <2>3. QED BY Zenon, <1>2, <2>1, <2>2
<1>8. CASE Refreshed
  <2>1. PICK l \in {"get", "idle"} : Goto(Asker, l)
    BY Zenon, <1>8 DEF Refreshed
  <2>2. walker = Asker
    BY Zenon, <1>8 DEF Refreshed, LoadFails, LoadDone, LoadEnds
  <2>3. stage[Asker] # "compare" /\ l # "compare"
    BY <2>1, <2>2
  <2>4. /\ Asker \in Refresher /\ clientCache' = clientCache
        /\ notes' = notes /\ old' = old /\ resp' = resp /\ phase' = phase
    BY Zenon, <1>8 DEF Refreshed, Refresher
  <2>5. QED BY Zenon, <1>2, <2>1, <2>3, <2>4
<1>9. CASE Stop
  <2>1. phase # "crashed"
    BY <1>9 DEF Stop
  <2>2. QED BY Zenon, <1>9, <2>1, ToldStill DEF Stop
<1>10. QED
  BY Zenon, <1>1, <1>3, <1>4, <1>5, <1>6, <1>7, <1>8, <1>9, ToldSwap DEF ClientNext, Fetch
-----------------------------------------------------------------------------
(* Configurations as trees: the fate of a path under deepMerge.            *)

\* The first i keys of q lead through sections of t, and nothing on the way of
\* p's first i keys is a value.
Reaches(t, q, i) ==
  \A j \in 1..i : IsSection(Along(t, q)[j - 1]) /\ q[j] \in DOMAIN Along(t, q)[j - 1]
Uncut(p, q, i) == \A j \in 1..i : ~(Reaches(p, q, j) /\ ~IsSection(Along(p, q)[j]))

\* deepMerge(b, o) is a section with the keys of both, and holds for each of
\* them the value of the one that has it, the merge of two sections, or else
\* the override's.
MergesKeys(b, o) ==
  /\ IsSection(deepMerge(b, o))
  /\ DOMAIN deepMerge(b, o) = DOMAIN b \cup DOMAIN o
  /\ \A k \in DOMAIN b \cup DOMAIN o :
       deepMerge(b, o)[k] = IF k \notin DOMAIN o THEN b[k]
                            ELSE IF k \in DOMAIN b /\ IsSection(b[k]) /\ IsSection(o[k])
                                 THEN deepMerge(b[k], o[k])
                                 ELSE o[k]

\* How deepMerge(d, p) looks after i keys of q: two sections merged, a part of
\* the profile p, a part of the default profile d that p leaves alone, or
\* nothing.
Both(d, p, q, i) ==
  /\ Reaches(d, q, i) /\ Reaches(p, q, i) /\ Reaches(deepMerge(d, p), q, i) /\ Uncut(p, q, i)
  /\ Along(d, q)[i] \in Section /\ Along(p, q)[i] \in Section
  /\ Along(deepMerge(d, p), q)[i] = deepMerge(Along(d, q)[i], Along(p, q)[i])
OwnPath(d, p, q, i) ==
  /\ Reaches(p, q, i) /\ Reaches(deepMerge(d, p), q, i)
  /\ Along(deepMerge(d, p), q)[i] = Along(p, q)[i]
  /\ \/ ~IsSection(Along(p, q)[i]) /\ ~Uncut(p, q, i)
     \/ ~Reaches(d, q, i)
     \/ ~IsSection(Along(d, q)[i])
Kept(d, p, q, i) ==
  /\ Reaches(d, q, i) /\ Reaches(deepMerge(d, p), q, i) /\ ~Reaches(p, q, i) /\ Uncut(p, q, i)
  /\ Along(deepMerge(d, p), q)[i] = Along(d, q)[i]
Out(d, p, q, i) ==
  /\ ~Reaches(p, q, i) /\ ~Reaches(deepMerge(d, p), q, i)
  /\ ~(Reaches(d, q, i) /\ Uncut(p, q, i))
Fate(d, p, q, i) == Both(d, p, q, i) \/ OwnPath(d, p, q, i) \/ Kept(d, p, q, i) \/ Out(d, p, q, i)

\* The nodes of a section are trees of less height.
LEMMA Below ==
  ASSUME NEW t \in Section, NEW k \in DOMAIN t
  PROVE  t[k] \in Tree /\ Height[t[k]] \in Nat /\ Height[t] \in Nat /\ Height[t[k]] < Height[t]
BY TreeAssumption DEF Section

\* One more key.
LEMMA ReachesSteps ==
  ASSUME NEW t, NEW q, NEW i \in Nat
  PROVE  /\ Reaches(t, q, 0)
         /\ Reaches(t, q, i + 1) <=> /\ Reaches(t, q, i) /\ IsSection(Along(t, q)[i])
                                     /\ q[i + 1] \in DOMAIN Along(t, q)[i]
<1>1. 1..0 = {} /\ 1..(i + 1) = 1..i \cup {i + 1} /\ (i + 1) - 1 = i
  OBVIOUS
<1>2. QED BY Zenon, <1>1 DEF Reaches

\* One more key, for what is not cut off.
LEMMA UncutSteps ==
  ASSUME NEW t, NEW q, NEW i \in Nat
  PROVE  /\ Uncut(t, q, 0)
         /\ Uncut(t, q, i + 1) <=> /\ Uncut(t, q, i)
                                   /\ ~(Reaches(t, q, i + 1) /\ ~IsSection(Along(t, q)[i + 1]))
<1>1. 1..0 = {} /\ 1..(i + 1) = 1..i \cup {i + 1}
  OBVIOUS
<1>2. QED BY Zenon, <1>1 DEF Uncut

\* The fate of a path, key by key.  (That Along follows the keys and deepMerge
\* merges them are AlongSteps and MergeSection, below.)
LEMMA FateSteps ==
  ASSUME NEW d \in Section, NEW p \in Section, NEW q, NEW i \in Nat, Fate(d, p, q, i),
         \A t : Along(t, q)[i + 1] = Along(t, q)[i][q[i + 1]],
         \A b \in Section, o \in Section : MergesKeys(b, o)
  PROVE  Fate(d, p, q, i + 1)
<1> DEFINE m == deepMerge(d, p)
           D == Along(d, q)
           P == Along(p, q)
           W == Along(m, q)
           k == q[i + 1]
<1>1. D[i + 1] = D[i][k]
  BY Zenon
<1>2. P[i + 1] = P[i][k]
  BY Zenon
<1>3. W[i + 1] = W[i][k]
  BY Zenon
<1>5. Reaches(d, q, i + 1) <=> Reaches(d, q, i) /\ IsSection(D[i]) /\ k \in DOMAIN D[i]
  BY Zenon, ReachesSteps
<1>6. Reaches(p, q, i + 1) <=> Reaches(p, q, i) /\ IsSection(P[i]) /\ k \in DOMAIN P[i]
  BY Zenon, ReachesSteps
<1>7. Reaches(m, q, i + 1) <=> Reaches(m, q, i) /\ IsSection(W[i]) /\ k \in DOMAIN W[i]
  BY Zenon, ReachesSteps
<1>8. Uncut(p, q, i + 1) <=> Uncut(p, q, i) /\ ~(Reaches(p, q, i + 1) /\ ~IsSection(P[i + 1]))
  BY Zenon, UncutSteps
<1> HIDE DEF m, k, D, P, W
<1>9. CASE Both(d, p, q, i)
  <2>1. /\ Reaches(d, q, i) /\ Reaches(p, q, i) /\ Reaches(m, q, i) /\ Uncut(p, q, i)
        /\ D[i] \in Section /\ P[i] \in Section /\ W[i] = deepMerge(D[i], P[i])
    BY Zenon, <1>9 DEF Both, m, D, P, W
  <2>2. IsSection(D[i]) /\ IsSection(P[i])
    BY Zenon, <2>1 DEF Section
  <2>3. /\ IsSection(W[i]) /\ DOMAIN W[i] = DOMAIN D[i] \cup DOMAIN P[i]
        /\ k \in DOMAIN D[i] \cup DOMAIN P[i] =>
             W[i][k] = IF k \notin DOMAIN P[i] THEN D[i][k]
                       ELSE IF k \in DOMAIN D[i] /\ IsSection(D[i][k]) /\ IsSection(P[i][k])
                            THEN deepMerge(D[i][k], P[i][k])
                            ELSE P[i][k]
    <3> DEFINE M == deepMerge(D[i], P[i])
    <3>1. /\ IsSection(M) /\ DOMAIN M = DOMAIN D[i] \cup DOMAIN P[i]
          /\ \A x \in DOMAIN D[i] \cup DOMAIN P[i] :
               M[x] = IF x \notin DOMAIN P[i] THEN D[i][x]
                      ELSE IF x \in DOMAIN D[i] /\ IsSection(D[i][x]) /\ IsSection(P[i][x])
                           THEN deepMerge(D[i][x], P[i][x])
                           ELSE P[i][x]
      BY Zenon, <2>1 DEF MergesKeys
    <3> HIDE DEF M
    <3>2. W[i] = M
      BY Zenon, <2>1 DEF M
    <3>3. QED BY Zenon, <3>1, <3>2
  <2>4. CASE k \notin DOMAIN D[i] /\ k \notin DOMAIN P[i]
    <3>1. Out(d, p, q, i + 1)
      BY Zenon, <1>5, <1>6, <1>7, <2>3, <2>4 DEF Out, m
    <3>2. QED BY Zenon, <3>1 DEF Fate
  <2>5. CASE k \in DOMAIN D[i] /\ k \notin DOMAIN P[i]
    <3>1. Kept(d, p, q, i + 1)
      BY Zenon, <1>1, <1>3, <1>5, <1>6, <1>7, <1>8, <2>1, <2>2, <2>3, <2>5 DEF Kept, m, D, W
    <3>2. QED BY Zenon, <3>1 DEF Fate
  <2>6. CASE k \notin DOMAIN D[i] /\ k \in DOMAIN P[i]
    <3>1. OwnPath(d, p, q, i + 1)
      BY Zenon, <1>2, <1>3, <1>5, <1>6, <1>7, <2>1, <2>2, <2>3, <2>6 DEF OwnPath, m, P, W
    <3>2. QED BY Zenon, <3>1 DEF Fate
  <2>7. CASE k \in DOMAIN D[i] /\ k \in DOMAIN P[i]
    <3>1. D[i][k] \in Tree /\ P[i][k] \in Tree
      BY Zenon, <2>1, <2>7, Below
    <3>2. CASE IsSection(D[i][k]) /\ IsSection(P[i][k])
      <4>1. D[i + 1] \in Section /\ P[i + 1] \in Section /\ W[i + 1] = deepMerge(D[i + 1], P[i + 1])
        BY Zenon, <1>1, <1>2, <1>3, <2>3, <2>7, <3>1, <3>2 DEF Section
      <4>2. Reaches(d, q, i + 1) /\ Reaches(p, q, i + 1) /\ Reaches(m, q, i + 1)
        BY Zenon, <1>5, <1>6, <1>7, <2>1, <2>2, <2>3, <2>7
      <4>3. Uncut(p, q, i + 1)
        BY Zenon, <1>2, <1>8, <2>1, <3>2
      <4>4. QED BY Zenon, <4>1, <4>2, <4>3 DEF Fate, Both, m, D, P, W
    <3>3. CASE ~(IsSection(D[i][k]) /\ IsSection(P[i][k]))
      <4>1. W[i + 1] = P[i + 1]
        BY Zenon, <1>2, <1>3, <2>3, <2>7, <3>3
      <4>2. Reaches(p, q, i + 1) /\ Reaches(m, q, i + 1)
        BY Zenon, <1>6, <1>7, <2>1, <2>2, <2>3, <2>7
      <4>3. \/ ~IsSection(P[i + 1]) /\ ~Uncut(p, q, i + 1)
            \/ ~IsSection(D[i + 1])
        BY Zenon, <1>1, <1>2, <1>8, <3>3, <4>2
      <4>4. QED BY Zenon, <4>1, <4>2, <4>3 DEF Fate, OwnPath, m, D, P, W
    <3>4. QED BY Zenon, <3>2, <3>3
  <2>8. QED BY Zenon, <2>4, <2>5, <2>6, <2>7
<1>10. CASE OwnPath(d, p, q, i)
  <2>1. /\ Reaches(p, q, i) /\ Reaches(m, q, i) /\ W[i] = P[i]
        /\ \/ ~IsSection(P[i]) /\ ~Uncut(p, q, i)
           \/ ~Reaches(d, q, i)
           \/ ~IsSection(D[i])
    BY Zenon, <1>10 DEF OwnPath, m, D, P, W
  <2>2. CASE IsSection(P[i]) /\ k \in DOMAIN P[i]
    <3>1. Reaches(p, q, i + 1) /\ Reaches(m, q, i + 1) /\ W[i + 1] = P[i + 1]
      BY Zenon, <1>2, <1>3, <1>6, <1>7, <2>1, <2>2
    <3>2. ~Reaches(d, q, i + 1)
      BY Zenon, <1>5, <2>1, <2>2
    <3>3. QED BY Zenon, <3>1, <3>2 DEF Fate, OwnPath, m, P, W
  <2>3. CASE ~(IsSection(P[i]) /\ k \in DOMAIN P[i])
    <3>1. ~Reaches(p, q, i + 1) /\ ~Reaches(m, q, i + 1)
      BY Zenon, <1>6, <1>7, <2>1, <2>3
    <3>2. ~(Reaches(d, q, i + 1) /\ Uncut(p, q, i + 1))
      BY Zenon, <1>5, <1>8, <2>1
    <3>3. QED BY Zenon, <3>1, <3>2 DEF Fate, Out, m
  <2>4. QED BY Zenon, <2>2, <2>3
<1>11. CASE Kept(d, p, q, i)
  <2>1. /\ Reaches(d, q, i) /\ Reaches(m, q, i) /\ ~Reaches(p, q, i) /\ Uncut(p, q, i)
        /\ W[i] = D[i]
    BY Zenon, <1>11 DEF Kept, m, D, W
  <2>2. ~Reaches(p, q, i + 1) /\ Uncut(p, q, i + 1)
    BY Zenon, <1>6, <1>8, <2>1
  <2>3. W[i + 1] = D[i + 1] /\ (Reaches(m, q, i + 1) <=> Reaches(d, q, i + 1))
    BY Zenon, <1>1, <1>3, <1>5, <1>7, <2>1
  <2>4. QED BY Zenon, <2>2, <2>3 DEF Fate, Kept, Out, m, D, W
<1>12. CASE Out(d, p, q, i)
  BY Zenon, <1>5, <1>6, <1>7, <1>8, <1>12 DEF Fate, Out, m
<1>13. QED BY Zenon, <1>9, <1>10, <1>11, <1>12 DEF Fate

\* What a fate makes of a value: the merge has those of p, and those of d
\* that p neither reaches nor cuts off.
LEMMA FateValues ==
  ASSUME NEW d \in Section, NEW p \in Section, NEW q, NEW n, Fate(d, p, q, n),
         \A b \in Section, o \in Section : MergesKeys(b, o)
  PROVE  LET m == deepMerge(d, p)
             own == Reaches(p, q, n) /\ ~IsSection(Along(p, q)[n])
             kept == /\ Reaches(d, q, n) /\ ~IsSection(Along(d, q)[n])
                     /\ ~Reaches(p, q, n) /\ Uncut(p, q, n)
         IN  /\ Reaches(m, q, n) /\ ~IsSection(Along(m, q)[n]) <=> own \/ kept
             /\ own => Along(m, q)[n] = Along(p, q)[n]
             /\ kept => Along(m, q)[n] = Along(d, q)[n]
<1>1. CASE Both(d, p, q, n)
  <2>1. /\ Along(d, q)[n] \in Section /\ Along(p, q)[n] \in Section
        /\ Along(deepMerge(d, p), q)[n] = deepMerge(Along(d, q)[n], Along(p, q)[n])
    BY Zenon, <1>1 DEF Both
  <2>2. IsSection(deepMerge(Along(d, q)[n], Along(p, q)[n]))
    BY Zenon, <2>1 DEF MergesKeys
  <2>3. /\ IsSection(Along(deepMerge(d, p), q)[n])
        /\ IsSection(Along(p, q)[n]) /\ IsSection(Along(d, q)[n])
    BY Zenon, <2>1, <2>2 DEF Section
  <2>4. QED BY Zenon, <2>3
<1>2. CASE OwnPath(d, p, q, n)
  BY Zenon, <1>2 DEF OwnPath
<1>3. CASE Kept(d, p, q, n)
  BY Zenon, <1>3 DEF Kept
<1>4. CASE Out(d, p, q, n)
  BY Zenon, <1>4 DEF Out
<1>5. QED BY Zenon, <1>1, <1>2, <1>3, <1>4 DEF Fate

\* Nodes and Leaves, in the words of Reaches.
LEMMA NodesReach ==
  ASSUME NEW t, NEW q \in Path
  PROVE  /\ q \in Nodes(t) <=> Reaches(t, q, Len(q))
         /\ q \in Leaves(t) <=> Reaches(t, q, Len(q)) /\ ~IsSection(At(t, q))
BY Zenon DEF Nodes, Leaves, Reaches
-----------------------------------------------------------------------------
(* What deepMerge returns, and the theorems on the configuration.          *)

INSTANCE WellFoundedInduction

\* Every nonempty set of numbers has a least one: the form of induction that
\* the proofs about paths and trees use.
LEMMA LeastNumber ==
  ASSUME NEW T, T \subseteq Nat, T # {}
  PROVE  \E m \in T : \A k \in T : m <= k
<1> DEFINE R == OpToRel(<, Nat)
<1>1. IsWellFoundedOn(R, Nat)
  BY Zenon, NatLessThanWellFounded
<1> HIDE DEF R
<1>2. PICK m \in T : \A k \in T : <<k, m>> \notin R
  BY Zenon, <1>1, WFMin
<1>3. \A k \in T : ~(k < m)
  BY Zenon, <1>2 DEF R, OpToRel
<1>4. QED BY <1>3

\* A set of numbers that holds 0 and, up to n, the successor of each of its
\* members holds all of them.
LEMMA UpTo ==
  ASSUME NEW n \in Nat, NEW S, 0 \in S, \A i \in 0..n : i < n /\ i \in S => i + 1 \in S
  PROVE  \A i \in 0..n : i \in S
<1> DEFINE T == {i \in 0..n : i \notin S}
<1> SUFFICES ASSUME T # {} PROVE FALSE
  OBVIOUS
<1>0. T \subseteq Nat
  OBVIOUS
<1> HIDE DEF T
<1>1. PICK m \in T : \A k \in T : m <= k
  BY Zenon, <1>0, LeastNumber
<1> USE DEF T
<1>2. m \in 1..n /\ m \notin S
  OBVIOUS
<1>3. m - 1 \in 0..n /\ m - 1 < n /\ (m - 1) + 1 = m /\ ~(m <= m - 1)
  BY <1>2
<1>4. m - 1 \in S
  BY <1>1, <1>3
<1>5. QED BY Zenon, <1>2, <1>3, <1>4

\* There is a walk along the first n keys of p.
Walks(t, p, n) == \E f : f = [i \in 0..n |-> IF i = 0 THEN t ELSE f[i - 1][p[i]]]

\* The recursion of Along is well-founded.
LEMMA WalkExists ==
  ASSUME NEW t, NEW p, NEW n \in Nat
  PROVE  Walks(t, p, n)
<1> DEFINE S == {m \in Nat : Walks(t, p, m)}
<1>1. 0 \in S
  <2> DEFINE f == [i \in 0..0 |-> t]
  <2>1. f = [i \in 0..0 |-> IF i = 0 THEN t ELSE f[i - 1][p[i]]]
    OBVIOUS
  <2>2. QED BY Zenon, <2>1 DEF Walks
<1>2. ASSUME NEW m \in 0..n, m < n, m \in S PROVE m + 1 \in S
  <2>1. PICK g : g = [i \in 0..m |-> IF i = 0 THEN t ELSE g[i - 1][p[i]]]
    BY Zenon, <1>2 DEF Walks
  <2> DEFINE f == [i \in 0..m + 1 |-> IF i = m + 1 THEN g[m][p[m + 1]] ELSE g[i]]
  <2>2. ASSUME NEW i \in 0..m + 1 PROVE f[i] = IF i = 0 THEN t ELSE f[i - 1][p[i]]
    BY <2>1
  <2>3. f = [i \in 0..m + 1 |-> IF i = 0 THEN t ELSE f[i - 1][p[i]]]
    BY <2>2
  <2>4. Walks(t, p, m + 1)
    BY Zenon, <2>3 DEF Walks
  <2>5. m + 1 \in Nat
    OBVIOUS
  <2>6. QED BY Zenon, <2>4, <2>5
<1> HIDE DEF S
<1>3. n \in S
  BY <1>1, <1>2, UpTo
<1>4. QED BY <1>3 DEF S

\* Along follows the path, one key at a time.
LEMMA AlongSteps ==
  ASSUME NEW t, NEW p, Len(p) \in Nat
  PROVE  /\ Along(t, p)[0] = t
         /\ \A i \in 0..Len(p) : i < Len(p) => Along(t, p)[i + 1] = Along(t, p)[i][p[i + 1]]
<1> DEFINE n == Len(p)
           A == Along(t, p)
<1>1. Walks(t, p, Len(p))
  BY Zenon, WalkExists
<1>2. A = [i \in 0..n |-> IF i = 0 THEN t ELSE A[i - 1][p[i]]]
  BY Zenon, <1>1 DEF Along, Walks
<1> HIDE DEF A, n
<1>3. n \in Nat
  BY DEF n
<1>4. A[0] = t
  BY <1>2, <1>3
<1>5. ASSUME NEW i \in 0..n, i < n PROVE A[i + 1] = A[i][p[i + 1]]
  <2>1. i + 1 \in 0..n /\ i + 1 # 0 /\ (i + 1) - 1 = i
    BY <1>3, <1>5
  <2>2. QED BY <1>2, <2>1
<1>6. QED BY Zenon, <1>4, <1>5 DEF A, n

\* Paths are sequences, and so are their beginnings.
LEMMA PathFacts ==
  ASSUME NEW q \in Path
  PROVE  /\ Len(q) \in Nat \ {0}
         /\ \A n \in 1..Len(q) : /\ SubSeq(q, 1, n) \in Path /\ Len(SubSeq(q, 1, n)) = n
                                 /\ \A i \in 1..n : SubSeq(q, 1, n)[i] = q[i]
<1> DEFINE Name == UNION {DOMAIN t : t \in Tree} \ {Leaf}
<1> HIDE DEF Name
<1>1. PICK m \in 1..MaxHeight : q \in [1..m -> Name]
  BY Zenon DEF Path, Name
<1>2. m \in Nat \ {0} /\ MaxHeight \in Nat /\ m <= MaxHeight
  BY TreeAssumption
<1>3. q \in Seq(Name) /\ Len(q) = m
  BY <1>1, <1>2
<1>4. ASSUME NEW n \in 1..m
      PROVE  /\ SubSeq(q, 1, n) \in [1..n -> Name] /\ Len(SubSeq(q, 1, n)) = n
             /\ \A i \in 1..n : SubSeq(q, 1, n)[i] = q[i]
  <2>1. 1 \in 1..Len(q) + 1 /\ n \in 1 - 1..Len(q) /\ n - 1 + 1 = n
    BY <1>2, <1>3
  <2> DEFINE s == SubSeq(q, 1, n)
  <2>2. s \in Seq(Name) /\ Len(s) = n /\ \A i \in 1..n : s[i] = q[1 + i - 1]
    BY <1>3, <2>1
  <2> HIDE DEF s
  <2>3. s \in [1..n -> Name] /\ \A i \in 1..n : s[i] = q[i]
    BY <2>2
  <2>4. QED BY Zenon, <2>2, <2>3 DEF s
<1>5. ASSUME NEW n \in 1..m PROVE SubSeq(q, 1, n) \in Path
  <2>1. n \in 1..MaxHeight
    BY <1>2
  <2>2. QED BY Zenon, <2>1, <1>4 DEF Path, Name
<1>6. QED BY <1>2, <1>3, <1>4, <1>5

\* The walk along the beginning of a path is the beginning of the walk.
LEMMA AlongBeginning ==
  ASSUME NEW t, NEW q \in Path, NEW n \in 1..Len(q)
  PROVE  \A i \in 0..n : Along(t, SubSeq(q, 1, n))[i] = Along(t, q)[i]
<1> DEFINE p == SubSeq(q, 1, n)
           S == {i \in Nat : Along(t, p)[i] = Along(t, q)[i]}
<1>1. /\ Len(q) \in Nat /\ n \in Nat /\ n <= Len(q) /\ Len(p) = n
      /\ \A i \in 1..n : p[i] = q[i]
  BY PathFacts
<1> HIDE DEF p
<1>2. 0 \in S
  BY <1>1, AlongSteps
<1>3. ASSUME NEW i \in 0..n, i < n, i \in S PROVE i + 1 \in S
  <2>1. /\ i \in 0..Len(p) /\ i < Len(p) /\ i \in 0..Len(q) /\ i < Len(q)
        /\ i + 1 \in 1..n /\ i + 1 \in Nat
    BY <1>1, <1>3
  <2>2. Along(t, q)[i + 1] = Along(t, q)[i][q[i + 1]]
    BY <1>1, <2>1, AlongSteps
  <2>3. Len(p) \in Nat
    BY Zenon, <1>1
  <2>4. Along(t, p)[i + 1] = Along(t, p)[i][p[i + 1]]
    BY <2>1, <2>3, AlongSteps
  <2>5. QED BY Zenon, <1>1, <1>3, <2>1, <2>2, <2>4
<1> HIDE DEF S
<1>4. \A i \in 0..n : i \in S
  BY Zenon, <1>1, <1>2, <1>3, UpTo
<1>5. QED BY Zenon, <1>4 DEF S, p

\* One step of deepMerge's recursion: what it does to b, given what it does to
\* the sections in b.
MergeStep(g, b) ==
  [o \in Section |->
     [k \in DOMAIN b \cup DOMAIN o |->
        IF k \notin DOMAIN o THEN b[k]
        ELSE IF k \in DOMAIN b /\ IsSection(b[k]) /\ IsSection(o[k])
             THEN g[b[k]][o[k]]
             ELSE o[k]]]

Lower(n) == {b \in Section : Height[b] < n}
Merges(n) == \E f : f = [b \in Lower(n) |-> MergeStep(f, b)]

\* The recursion of deepMerge is well-founded: it merges the trees of every
\* height.
LEMMA MergeExists ==
  ASSUME NEW n \in Nat
  PROVE  Merges(n)
<1> DEFINE S == {m \in Nat : Merges(m)}
<1>1. 0 \in S
  <2>1. Lower(0) = {}
    BY TreeAssumption DEF Lower, Section
  <2> DEFINE f == [b \in {} |-> b]
  <2>2. f = [b \in Lower(0) |-> MergeStep(f, b)]
    BY <2>1
  <2>3. Merges(0)
    BY Zenon, <2>2 DEF Merges
  <2>4. QED BY <2>3
<1>2. ASSUME NEW m \in 0..n, m < n, m \in S PROVE m + 1 \in S
  <2>1. PICK g : g = [b \in Lower(m) |-> MergeStep(g, b)]
    BY Zenon, <1>2 DEF Merges
  <2> DEFINE f == [b \in Lower(m + 1) |-> MergeStep(g, b)]
  <2>2. ASSUME NEW b \in Lower(m + 1), NEW k \in DOMAIN b, IsSection(b[k])
        PROVE  f[b[k]] = g[b[k]]
    <3>1. b \in Section /\ Height[b] < m + 1
      BY <2>2 DEF Lower
    <3>2. b[k] \in Section /\ Height[b[k]] < m /\ Height[b[k]] < m + 1
      BY <2>2, <3>1, Below DEF Section
    <3>3. b[k] \in Lower(m) /\ b[k] \in Lower(m + 1)
      BY Zenon, <3>2 DEF Lower
    <3>4. f[b[k]] = MergeStep(g, b[k])
      BY Zenon, <3>3
    <3>5. g[b[k]] = MergeStep(g, b[k])
      BY Zenon, <2>1, <3>3
    <3>6. QED BY Zenon, <3>4, <3>5
  <2> HIDE DEF f
  <2>3. ASSUME NEW b \in Lower(m + 1) PROVE MergeStep(f, b) = MergeStep(g, b)
    BY Zenon, <2>2 DEF MergeStep
  <2>4. f = [b \in Lower(m + 1) |-> MergeStep(f, b)]
    BY <2>3 DEF f
  <2>5. Merges(m + 1)
    BY Zenon, <2>4 DEF Merges
  <2>6. m + 1 \in Nat
    OBVIOUS
  <2>7. QED BY Zenon, <2>5, <2>6
<1> HIDE DEF S
<1>3. n \in S
  BY <1>1, <1>2, UpTo
<1>4. QED BY <1>3 DEF S

\* What deepMerge returns: the keys of both, and for each of them the value of
\* the one that has it, the merge of two sections, or else the override's.
LEMMA MergeIs ==
  ASSUME NEW b \in Section, NEW o \in Section
  PROVE  deepMerge(b, o) =
           [k \in DOMAIN b \cup DOMAIN o |->
              IF k \notin DOMAIN o THEN b[k]
              ELSE IF k \in DOMAIN b /\ IsSection(b[k]) /\ IsSection(o[k])
                   THEN deepMerge(b[k], o[k])
                   ELSE o[k]]
<1> DEFINE mrg == CHOOSE f : f = [c \in Section |-> MergeStep(f, c)]
<1>1. Lower(MaxHeight + 1) = Section /\ MaxHeight + 1 \in Nat
  BY TreeAssumption DEF Lower, Section
<1>2. Merges(MaxHeight + 1)
  BY Zenon, <1>1, MergeExists
<1>3. mrg = [c \in Section |-> MergeStep(mrg, c)]
  BY Zenon, <1>1, <1>2 DEF Merges
<1>4. \A c, e : deepMerge(c, e) = mrg[c][e]
  BY Zenon DEF deepMerge, MergeStep
<1> HIDE DEF mrg
<1>5. mrg[b][o] = MergeStep(mrg, b)[o]
  BY Zenon, <1>3
<1>6. QED BY Zenon, <1>4, <1>5 DEF MergeStep

\* The merge of two sections is a section.
LEMMA MergeSection ==
  ASSUME NEW b \in Section, NEW o \in Section
  PROVE  MergesKeys(b, o)
<1> DEFINE M == deepMerge(b, o)
<1>1. M = [k \in DOMAIN b \cup DOMAIN o |->
              IF k \notin DOMAIN o THEN b[k]
              ELSE IF k \in DOMAIN b /\ IsSection(b[k]) /\ IsSection(o[k])
                   THEN deepMerge(b[k], o[k])
                   ELSE o[k]]
  BY Zenon, MergeIs
<1>2. Leaf \notin DOMAIN b /\ Leaf \notin DOMAIN o
  BY Zenon DEF Section, IsSection
<1> HIDE DEF M
<1>3. DOMAIN M = DOMAIN b \cup DOMAIN o
  BY Zenon, <1>1
<1>4. IsSection(M)
  BY Zenon, <1>2, <1>3 DEF IsSection
<1>5. \A k \in DOMAIN b \cup DOMAIN o :
              M[k] = IF k \notin DOMAIN o THEN b[k]
                     ELSE IF k \in DOMAIN b /\ IsSection(b[k]) /\ IsSection(o[k])
                          THEN deepMerge(b[k], o[k])
                          ELSE o[k]
  BY Zenon, <1>1
<1>6. QED BY Zenon, <1>3, <1>4, <1>5 DEF M, MergesKeys

\* Every path has one of the four fates, up to its end.
LEMMA FateIs ==
  ASSUME NEW d \in Section, NEW p \in Section, NEW q \in Path
  PROVE  Fate(d, p, q, Len(q))
<1> DEFINE S == {i \in Nat : Fate(d, p, q, i)}
<1>1. Len(q) \in Nat /\ Len(q) \in 0..Len(q)
  BY PathFacts
<1>2. 0 \in S
  <2>1. Along(d, q)[0] = d
    BY <1>1, AlongSteps
  <2>2. Along(p, q)[0] = p
    BY <1>1, AlongSteps
  <2>3. Along(deepMerge(d, p), q)[0] = deepMerge(d, p)
    BY <1>1, AlongSteps
  <2>4. /\ 0 \in Nat /\ Uncut(p, q, 0)
        /\ Reaches(d, q, 0) /\ Reaches(p, q, 0) /\ Reaches(deepMerge(d, p), q, 0)
    BY ReachesSteps, UncutSteps
  <2>5. QED BY Zenon, <2>1, <2>2, <2>3, <2>4 DEF Fate, Both
<1>3. ASSUME NEW i \in 0..Len(q), i < Len(q), i \in S PROVE i + 1 \in S
  <2>1. i \in Nat /\ i + 1 \in Nat
    OBVIOUS
  <2>2. \A t : Along(t, q)[i + 1] = Along(t, q)[i][q[i + 1]]
    BY <1>1, <1>3, AlongSteps
  <2>3. Fate(d, p, q, i + 1)
    BY Zenon, <1>3, <2>1, <2>2, FateSteps, MergeSection
  <2>4. QED BY Zenon, <2>1, <2>3
<1> HIDE DEF S
<1>4. Len(q) \in S
  BY Zenon, <1>1, <1>2, <1>3, UpTo
<1>5. QED BY Zenon, <1>4 DEF S

\* A path is uncut when no beginning of it ends at a value.
LEMMA CutShort ==
  ASSUME NEW t, NEW q \in Path
  PROVE  Uncut(t, q, Len(q)) <=> \A n \in 1..Len(q) : SubSeq(q, 1, n) \notin Leaves(t)
<1>1. ASSUME NEW n \in 1..Len(q)
      PROVE  SubSeq(q, 1, n) \in Leaves(t) <=> Reaches(t, q, n) /\ ~IsSection(Along(t, q)[n])
  <2> DEFINE s == SubSeq(q, 1, n)
  <2>1. /\ s \in Path /\ Len(s) = n /\ n \in Nat /\ n \in 0..n
        /\ \A i \in 1..n : s[i] = q[i]
    BY PathFacts
  <2>2. \A i \in 0..n : Along(t, s)[i] = Along(t, q)[i]
    BY Zenon, AlongBeginning
  <2> HIDE DEF s
  <2>3. \A j \in 1..n : j - 1 \in 0..n
    BY <2>1
  <2>4. Reaches(t, s, n) <=> Reaches(t, q, n)
    BY Zenon, <2>1, <2>2, <2>3 DEF Reaches
  <2>5. At(t, s) = Along(t, q)[n]
    BY Zenon, <2>1, <2>2 DEF At
  <2>6. s \in Leaves(t) <=> Reaches(t, s, n) /\ ~IsSection(At(t, s))
    BY Zenon, <2>1, NodesReach
  <2>7. QED BY Zenon, <2>4, <2>5, <2>6 DEF s
<1>2. QED BY Zenon, <1>1 DEF Uncut

\* Any two sections merge value by value.
LEMMA MergedValues ==
  ASSUME NEW d \in Section, NEW p \in Section, NEW q \in Path
  PROVE  LET m == deepMerge(d, p)
             own == q \in Leaves(p)
             kept == /\ q \in Leaves(d) \ Nodes(p)
                     /\ \A n \in 1..Len(q) : SubSeq(q, 1, n) \notin Leaves(p)
         IN  /\ q \in Leaves(m) <=> own \/ kept
             /\ own => At(m, q) = At(p, q)
             /\ kept => At(m, q) = At(d, q)
<1> DEFINE m == deepMerge(d, p)
           n == Len(q)
           kept == /\ q \in Leaves(d) \ Nodes(p)
                   /\ \A i \in 1..Len(q) : SubSeq(q, 1, i) \notin Leaves(p)
<1>2. q \in Leaves(m) <=> Reaches(m, q, n) /\ ~IsSection(Along(m, q)[n])
  BY Zenon, NodesReach DEF At
<1>3. q \in Leaves(p) <=> Reaches(p, q, n) /\ ~IsSection(Along(p, q)[n])
  BY Zenon, NodesReach DEF At
<1>4. q \in Leaves(d) <=> Reaches(d, q, n) /\ ~IsSection(Along(d, q)[n])
  BY Zenon, NodesReach DEF At
<1>5. q \in Nodes(p) <=> Reaches(p, q, n)
  BY Zenon, NodesReach
<1>6. Uncut(p, q, n) <=> \A i \in 1..Len(q) : SubSeq(q, 1, i) \notin Leaves(p)
  BY Zenon, CutShort
<1>7. kept <=> /\ Reaches(d, q, n) /\ ~IsSection(Along(d, q)[n])
               /\ ~Reaches(p, q, n) /\ Uncut(p, q, n)
  BY Zenon, <1>4, <1>5, <1>6
<1>8. /\ At(m, q) = Along(m, q)[n] /\ At(p, q) = Along(p, q)[n] /\ At(d, q) = Along(d, q)[n]
  BY Zenon DEF At
<1>9. Fate(d, p, q, n) /\ \A b \in Section, o \in Section : MergesKeys(b, o)
  BY Zenon, FateIs, MergeSection
<1> HIDE DEF n
<1>10. LET own == Reaches(p, q, n) /\ ~IsSection(Along(p, q)[n])
           keep == /\ Reaches(d, q, n) /\ ~IsSection(Along(d, q)[n])
                   /\ ~Reaches(p, q, n) /\ Uncut(p, q, n)
       IN  /\ Reaches(m, q, n) /\ ~IsSection(Along(m, q)[n]) <=> own \/ keep
           /\ own => Along(m, q)[n] = Along(p, q)[n]
           /\ keep => Along(m, q)[n] = Along(d, q)[n]
  BY <1>9, FateValues
<1> HIDE DEF kept, m
<1>11. /\ q \in Leaves(m) <=> q \in Leaves(p) \/ kept
       /\ q \in Leaves(p) => At(m, q) = At(p, q)
       /\ kept => At(m, q) = At(d, q)
  BY Zenon, <1>2, <1>3, <1>7, <1>8, <1>10
<1>12. QED BY Zenon, <1>11 DEF kept, m

\* MergesByValue is a matter of what the two entries are.
LEMMA FilesMerge ==
  ASSUME TreesInv
  PROVE  MergesByValue
<1> SUFFICES ASSUME loaded[Default] # Missing, loaded[Profile] # Missing
             PROVE  LET d == loaded[Default]
                        p == loaded[Profile]
                        served == GetConfig
                        own == Leaves(p)
                        reached == Nodes(p)
                        kept == {q \in Leaves(d) \ reached :
                                   \A n \in 1..Len(q) : SubSeq(q, 1, n) \notin own}
                    IN  /\ Leaves(served) = own \cup kept
                        /\ \A q \in own : At(served, q) = At(p, q)
                        /\ \A q \in kept : At(served, q) = At(d, q)
  BY Zenon DEF MergesByValue
<1> DEFINE d == loaded[Default]
           p == loaded[Profile]
           m == deepMerge(d, p)
           kept == {q \in Leaves(d) \ Nodes(p) :
                      \A n \in 1..Len(q) : SubSeq(q, 1, n) \notin Leaves(p)}
<1>1. d \in Section /\ p \in Section
  BY DEF TreesInv, File
<1>2. GetConfig = m
  BY Zenon DEF GetConfig
<1>3. ASSUME NEW q \in Path
      PROVE  /\ q \in Leaves(m) <=> q \in Leaves(p) \/ q \in kept
             /\ q \in Leaves(p) => At(m, q) = At(p, q)
             /\ q \in kept => At(m, q) = At(d, q)
  <2> DEFINE keep == /\ q \in Leaves(d) \ Nodes(p)
                     /\ \A n \in 1..Len(q) : SubSeq(q, 1, n) \notin Leaves(p)
  <2>1. q \in kept <=> keep
    BY Zenon
  <2> HIDE DEF d, p
  <2>2. /\ q \in Leaves(m) <=> q \in Leaves(p) \/ keep
        /\ q \in Leaves(p) => At(m, q) = At(p, q)
        /\ keep => At(m, q) = At(d, q)
    BY <1>1, MergedValues
  <2> HIDE DEF keep, kept, m
  <2>3. QED BY Zenon, <2>1, <2>2
<1>4. \A t : Leaves(t) \subseteq Path
  BY Zenon DEF Leaves, Nodes
<1>5. Leaves(m) = Leaves(p) \cup kept
  BY Zenon, <1>3, <1>4
<1>6. QED BY Zenon, <1>2, <1>3, <1>4, <1>5

INSTANCE FiniteSetTheorems

\* What GetConfig serves is a map.
LEMMA ServesConfigs ==
  ASSUME TreesInv, GetConfig # NotFound
  PROVE  IsConfig(GetConfig)
<1> DEFINE d == loaded[Default]
           p == loaded[Profile]
<1>1. (d = Missing \/ d \in Section) /\ (p = Missing \/ p \in Section)
  BY DEF TreesInv, File
<1>2. \A t \in Section : IsConfig(t)
  BY Zenon, TreesAreConfigs DEF Section
<1>3. CASE d \in Section /\ p \in Section /\ d # Missing /\ p # Missing
  <2>1. GetConfig = deepMerge(d, p)
    BY Zenon, <1>3 DEF GetConfig
  <2> HIDE DEF d, p
  <2>2. IsFiniteSet(DOMAIN d \cup DOMAIN p)
    BY Zenon, <1>2, <1>3, FS_Union DEF IsConfig
  <2>3. deepMerge(d, p) =
           [k \in DOMAIN d \cup DOMAIN p |->
              IF k \notin DOMAIN p THEN d[k]
              ELSE IF k \in DOMAIN d /\ IsSection(d[k]) /\ IsSection(p[k])
                   THEN deepMerge(d[k], p[k])
                   ELSE p[k]]
    BY Zenon, <1>3, MergeIs
  <2>4. DOMAIN deepMerge(d, p) = DOMAIN d \cup DOMAIN p
    BY Zenon, <2>3
  <2>5. deepMerge(d, p) = [k \in DOMAIN d \cup DOMAIN p |-> deepMerge(d, p)[k]]
    BY <2>3
  <2>6. QED BY Zenon, <2>1, <2>2, <2>4, <2>5 DEF IsConfig
<1>4. CASE d = Missing \/ p = Missing
  BY Zenon, <1>1, <1>2, <1>4 DEF GetConfig
<1>5. QED BY Zenon, <1>1, <1>3, <1>4

\* configEqual says "equal" of two equal maps only.
LEMMA EqualIsEqual ==
  ASSUME NEW a, NEW b, IsConfig(a), IsConfig(b), "equal" \in configEqual(a, b)
  PROVE  a = b
<1>1. Cardinality(DOMAIN a) = Cardinality(DOMAIN b) /\ Differ(a, b) = {}
  <2>1. Cardinality(DOMAIN a) = Cardinality(DOMAIN b)
    <3>1. "equal" \notin {"differ"}
      OBVIOUS
    <3>2. QED BY Zenon, <3>1 DEF configEqual
  <2>2. "equal" \notin {"panic"} \cup {"differ" : k \in Differ(a, b) \ Incomparable(a, b)}
    OBVIOUS
  <2>3. "equal" \in {IF Differ(a, b) = {} THEN "equal" ELSE "differ"}
    BY Zenon, <2>1, <2>2 DEF configEqual
  <2>4. QED BY <2>1, <2>3
<1>2. DOMAIN a \subseteq DOMAIN b /\ \A k \in DOMAIN a : a[k] = b[k]
  BY Zenon, <1>1 DEF Differ
<1>3. DOMAIN a = DOMAIN b
  BY <1>1, <1>2, FS_Subset DEF IsConfig
<1>4. QED BY <1>2, <1>3 DEF IsConfig

\* Every step keeps the invariant.
LEMMA ConfigKept ==
  ASSUME ConfigInv, [ClientNext]_configVars
  PROVE  ConfigInv'
<1>1. CASE UNCHANGED configVars
  <2>1. UNCHANGED <<disk, loaded>> /\ walker' = walker
    BY Zenon, <1>1 DEF configVars, serverVars
  <2>2. /\ phase' = phase /\ stage' = stage /\ resp' = resp /\ old' = old
        /\ clientCache' = clientCache /\ notes' = notes
    BY Zenon, <1>1 DEF configVars, clientVars
  <2>3. TreesInv'
    BY Zenon, <2>1, FilesKept DEF ConfigInv
  <2>4. CacheInv'
    BY Zenon, <2>1, <2>2 DEF ConfigInv, CacheInv, IsConfig
  <2>5. ToldInv'
    BY Zenon, <2>2, ToldStill DEF ConfigInv
  <2>6. QED BY Zenon, <2>3, <2>4, <2>5 DEF ConfigInv
<1>2. CASE ClientNext
  <2>1. ServerNext \/ (Refreshed \/ RefreshConfig) \/ UNCHANGED <<disk, loaded>>
    BY Zenon, <1>2 DEF ClientNext, Fetch, Refresh, Answered, Unanswered, updateCache, Compared,
                       Stop, serverVars
  <2>2. TreesInv'
    BY Zenon, <2>1, FilesKept DEF ConfigInv
  <2>3. CacheInv'
    BY Zenon, <1>2, CacheKept, ServesConfigs DEF ConfigInv
  <2>4. ToldInv'
    BY Zenon, <1>2, ToldKept, EqualIsEqual DEF ConfigInv, CacheInv
  <2>5. QED BY Zenon, <2>2, <2>3, <2>4 DEF ConfigInv
<1>3. QED BY Zenon, <1>1, <1>2

\* The invariant of the configuration server and its client.
THEOREM ConfigInvariant == ClientSpec => []ConfigInv
<1>1. ClientInit => ConfigInv
  BY Zenon, ConfigInitially
<1>2. ConfigInv /\ [ClientNext]_configVars => ConfigInv'
  BY Zenon, ConfigKept
<1>3. QED BY PTL, <1>1, <1>2 DEF ClientSpec

\* A profile overrides the default profile value by value, whatever the files
\* hold, however deep, and however often they change (deepMerge, GetConfig).
THEOREM MergesByValueHolds == ClientSpec => []MergesByValue
<1>1. ConfigInv => MergesByValue
  BY Zenon, FilesMerge DEF ConfigInv
<1>2. QED BY PTL, <1>1, ConfigInvariant

\* The listener hears of every configuration that reaches the cache, whatever
\* is served and however the two refreshes interleave (updateCache).
THEOREM ChangesToldHolds == ClientSpec => []ChangesTold
<1>1. ConfigInv => ChangesTold
  BY Zenon DEF ConfigInv, ToldInv, ChangesTold, Told, Comparing
<1>2. QED BY PTL, <1>1, ConfigInvariant
=============================================================================
