-------------------------- MODULE PluginLifecycle ---------------------------
(***************************************************************************)
(* What the plugin service promises about a plugin, whatever happens to    *)
(* its requests: it is created once, then enabled and disabled in turns,   *)
(* and once it is gone it does not come back under the same key.           *)
(***************************************************************************)
CONSTANT Key \* plugins

VARIABLE life

LifeInit == life = [k \in Key |-> "new"]

Becomes(k, from, to) == life[k] \in from /\ life' = [life EXCEPT ![k] = to]

Created(k)  == Becomes(k, {"new"}, "INSTALLED")
Enabled(k)  == Becomes(k, {"INSTALLED", "DISABLED"}, "ENABLED")
Disabled(k) == Becomes(k, {"ENABLED"}, "DISABLED")
Removed(k)  == Becomes(k, {"INSTALLED", "ENABLED", "DISABLED"}, "gone")

\* Installations that have failed, several at once when the process ends.
GivenUp(ks) ==
  /\ \A k \in ks : life[k] = "new"
  /\ life' = [k \in Key |-> IF k \in ks THEN "gone" ELSE life[k]]

LifeNext ==
  \/ \E k \in Key : Created(k) \/ Enabled(k) \/ Disabled(k) \/ Removed(k)
  \/ \E ks \in SUBSET Key : GivenUp(ks)

LifeSpec == LifeInit /\ [][LifeNext]_life
=============================================================================
