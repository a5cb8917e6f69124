---------------------------- MODULE PluginService ----------------------------
(***************************************************************************)
(* internal/domain/service/impl/plugin_service_impl.go behind the handlers *)
(* of plugin_controller.go, over the plugin repository and the directory   *)
(* the manager of PluginManager.tla loads from.  Each call of the          *)
(* repository and of the file system is a step that can fail, and the      *)
(* process can end between any two.                                        *)
(***************************************************************************)
EXTENDS PluginManager

VARIABLES
  record,  \* record[k]: state of the plugin's row, "none" without one
  dir,     \* keys given out by generatePluginKey so far
  halfway  \* history: plugins an Install or Uninstall has left halfway

serviceVars == <<record, dir, halfway>>
managerVars == <<files, managed, procVars>>
vars == <<managerVars, reqVars, serviceVars>>

InstallStep == {"copy", "create"}
UninstallStep == {"extensions", "remove", "delete"}

PluginInit ==
  /\ ManagerInit
  /\ record = [k \in Key |-> "none"]
  /\ dir = {}
  /\ halfway = {}

Begins(q, k, l) ==
  /\ up /\ pc[q] = "idle"
  /\ pc' = [pc EXCEPT ![q] = l]
  /\ key' = [key EXCEPT ![q] = k]
  /\ UNCHANGED <<ptr, managed, procVars>>
-----------------------------------------------------------------------------
(* The row, as the repository changes it.                                  *)

CreateRow(k) == record' = [record EXCEPT ![k] = "INSTALLED"]

FindByKey(k) == record[k] # "none"

\* Mutant: the row is saved, as if it were there.
SaveState(k, s) == record' = [record EXCEPT ![k] = s]

\* A row deleted meanwhile is not found: nothing changes.
UpdateState(k, s) ==
  record' = IF FindByKey(k) THEN [record EXCEPT ![k] = s] ELSE record

DeleteByKey(k) == record' = [record EXCEPT ![k] = "none"]
-----------------------------------------------------------------------------
(* Install.                                                                *)

\* A fresh key, no such row yet; the file is created ...
Install(q, k) ==
  /\ k \notin dir /\ ~FindByKey(k)
  /\ Begins(q, k, "copy")
  /\ dir' = dir \cup {k}
  /\ files' = [files EXCEPT ![k] = "part"]
  /\ UNCHANGED <<record, halfway>>

\* ... filled, or removed when that fails ...
InstallCopy(q) ==
  /\ pc[q] = "copy"
  /\ \/ files' = [files EXCEPT ![key[q]] = "whole"] /\ Goes(q, "create")
     \/ files' = [files EXCEPT ![key[q]] = "none"] /\ Ends(q)
  /\ UNCHANGED <<managed, procVars, serviceVars>>

\* Mutant: a row that cannot be created leaves the file behind.
InstallKeepsFile(q) ==
  /\ pc[q] = "create"
  /\ \/ CreateRow(key[q]) \/ UNCHANGED record
  /\ Ends(q)
  /\ UNCHANGED <<files, managed, procVars, dir, halfway>>

\* ... and the row created.  On an error the file is removed, even if the
\* database has the row and only its answer was lost.
InstallCreate(q) ==
  /\ pc[q] = "create"
  /\ \/ CreateRow(key[q]) /\ UNCHANGED <<files, halfway>>
     \/ /\ files' = [files EXCEPT ![key[q]] = "none"]
        /\ UNCHANGED <<record, halfway>>
     \/ /\ CreateRow(key[q])
        /\ files' = [files EXCEPT ![key[q]] = "none"]
        /\ halfway' = halfway \cup {key[q]}
  /\ Ends(q)
  /\ UNCHANGED <<managed, procVars, dir>>
-----------------------------------------------------------------------------
(* Enable and Disable: read the row, then write its state.                 *)

\* GetByKey finds the row, and its state is looked at.
ReadRow(q, k, l) ==
  /\ FindByKey(k)
  /\ Begins(q, k, l)
  /\ UNCHANGED <<files, record, dir, halfway>>

Enable(q, k) == ReadRow(q, k, "enable") /\ record[k] \in {"INSTALLED", "DISABLED"}

Disable(q, k) == ReadRow(q, k, "disable") /\ record[k] = "ENABLED"

Writes(q, l, s) ==
  /\ pc[q] = l
  /\ UpdateState(key[q], s) \/ UNCHANGED record
  /\ Ends(q)
  /\ UNCHANGED <<files, managed, procVars, dir, halfway>>

EnableWrite(q)  == Writes(q, "enable", "ENABLED")
DisableWrite(q) == Writes(q, "disable", "DISABLED")
-----------------------------------------------------------------------------
(* Uninstall.  The manager is not told.                                    *)

Uninstall(q, k) == ReadRow(q, k, "extensions")

\* The extensions go first; an error ends it before anything is lost.
UninstallExtensions(q) ==
  /\ pc[q] = "extensions"
  /\ \/ Goes(q, "remove")
     \/ Ends(q)
  /\ UNCHANGED <<files, managed, procVars, record, dir, halfway>>

\* The file: an error of os.Remove is not looked at.
UninstallRemove(q) ==
  /\ pc[q] = "remove"
  /\ \/ files' = [files EXCEPT ![key[q]] = "none"] /\ UNCHANGED halfway
     \/ UNCHANGED files /\ halfway' = halfway \cup {key[q]}
  /\ Goes(q, "delete")
  /\ UNCHANGED <<managed, procVars, record, dir>>

\* The row: when that fails it stays, without its file.
UninstallDelete(q) ==
  /\ pc[q] = "delete"
  /\ \/ DeleteByKey(key[q]) /\ UNCHANGED halfway
     \/ UNCHANGED record /\ halfway' = halfway \cup {key[q]}
  /\ Ends(q)
  /\ UNCHANGED <<files, managed, procVars, dir>>

\* The process ends in the middle of what it does.
Crash ==
  /\ Exit
  /\ halfway' = halfway \cup {key[q] : q \in {r \in Req : pc[r] \in InstallStep \cup UninstallStep}}
  /\ UNCHANGED <<record, dir>>
-----------------------------------------------------------------------------
\* The plugin controller's handlers call the service and not the manager.
PluginRequest(q) ==
  \E k \in Key : Install(q, k) \/ Enable(q, k) \/ Disable(q, k) \/ Uninstall(q, k)

ServiceStep(q) ==
  \/ InstallCopy(q) \/ InstallCreate(q)
  \/ EnableWrite(q) \/ DisableWrite(q)
  \/ UninstallExtensions(q) \/ UninstallRemove(q) \/ UninstallDelete(q)

PluginNext ==
  \/ ManagerNext /\ UNCHANGED serviceVars
  \/ Crash
  \/ \E q \in Req : PluginRequest(q) \/ ServiceStep(q)

PluginSpec == PluginInit /\ [][PluginNext]_vars
-----------------------------------------------------------------------------
(* Properties.                                                             *)

Working(k) == {q \in Req : key[q] = k /\ pc[q] \in InstallStep \cup UninstallStep}

\* Once no Install or Uninstall of it is under way a plugin has both its row
\* and its whole file or neither, whichever step failed: the exceptions are a
\* crash in the middle and the failures that Install and Uninstall do not see
\* or do not undo.  Even then no row has a file that was copied in part.
FileAndRow ==
  /\ \A k \in Key \ halfway :
       Working(k) = {} => /\ files[k] \in {"none", "whole"}
                          /\ record[k] # "none" <=> files[k] = "whole"
  /\ \A k \in Key : record[k] # "none" => files[k] # "part"

\* The life of a plugin: its row, or what it means that there is none.
Installing(k) == \E q \in Req : key[q] = k /\ pc[q] \in InstallStep

Life ==
  [k \in Key |-> IF record[k] # "none" THEN record[k]
                ELSE IF k \notin dir \/ Installing(k) THEN "new" ELSE "gone"]

Lifecycle == INSTANCE PluginLifecycle WITH life <- Life

\* The service implements the life cycle: a row is created once, its state
\* alternates between ENABLED and DISABLED although Enable and Disable decide
\* on a state they have read before, and a late write of theirs does not bring
\* an uninstalled plugin back.
FollowsLifecycle == Lifecycle!LifeSpec
=============================================================================
