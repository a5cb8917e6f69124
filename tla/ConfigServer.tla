---------------------------- MODULE ConfigServer ----------------------------
(***************************************************************************)
(* The configuration server of internal/configserver/server.go for one     *)
(* application: the files of its default profile and of one other profile, *)
(* the watcher, the reload and what GetConfig serves.                      *)
(*                                                                         *)
(* A configuration is a tree: a function from keys to trees, a value being *)
(* the function whose one key is Leaf.                                     *)
(***************************************************************************)
EXTENDS Naturals, Sequences, FiniteSets

CONSTANTS
  Default, Profile, \* the two files
  Content,   \* Content[f]: what may be written to f
  Leaf,
  Tree,      \* the configurations of the files, their sections and their values
  Height,    \* Height[t]: how deep t is nested
  MaxHeight, \* bound on it
  Missing,   \* disk: no such file; loaded: no such key in cs.configs
  Truncated, \* disk: an empty YAML file
  Broken,    \* disk: a file that does not parse, such as an empty JSON file
  NotFound,  \* what GetConfig says when it has neither profile
  Nobody,    \* cs.mutex is free
  Watcher,   \* its holder: watchConfigChanges,
  Asker,     \* or the goroutine of one of these callers of /refresh
  MaxEdits   \* bound: changes of the files

File == {Default, Profile}
EmptyTree == <<>>
IsSection(t) == Leaf \notin DOMAIN t
Section == {t \in Tree : IsSection(t)}

\* Files hold finite trees.
ASSUME TreeAssumption ==
  /\ EmptyTree \in Tree /\ {Missing, Truncated, Broken, NotFound} \cap Tree = {}
  /\ MaxHeight \in Nat /\ Height \in [Tree -> 0..MaxHeight]
  /\ \A t \in Tree : t = [k \in DOMAIN t |-> t[k]] /\ IsFiniteSet(DOMAIN t)
  /\ \A t \in Tree : IsSection(t) =>
       \A k \in DOMAIN t : t[k] \in Tree /\ Height[t[k]] < Height[t]

ASSUME FilesAssumption ==
  /\ Default # Profile
  /\ Content \in [File -> SUBSET (Section \cup {Truncated, Broken})]
  /\ Missing \notin {Truncated, Broken, NotFound} /\ Truncated # Broken

VARIABLES
  disk,    \* disk[f]
  loaded,  \* cs.configs
  events,  \* Write and Create events the watcher has not delivered yet
  walk,    \* files loadConfigs has listed and not yet read
  walker,  \* who holds cs.mutex in loadConfigs
  aborted, \* history: the last load ended in an error
  edits

serverVars == <<disk, loaded, events, walk, walker, aborted, edits>>

ServerInit ==
  /\ \E d \in Content[Default] \cup {Missing}, p \in Content[Profile] \cup {Missing} :
       /\ {d, p} \cap {Truncated, Broken} = {}
       /\ disk = [f \in File |-> IF f = Default THEN d ELSE p]
  /\ loaded = disk     \* NewConfigServer has loaded the files
  /\ events = 0 /\ edits = 0
  /\ walk = <<>> /\ walker = Nobody
  /\ aborted = FALSE
-----------------------------------------------------------------------------
(* The files, changed by whoever edits them.                               *)

\* A file is created or written: the watcher hears of it.
WriteFile(f) ==
  /\ edits < MaxEdits /\ edits' = edits + 1
  /\ \E c \in Content[f] :
       c # disk[f] /\ disk' = [disk EXCEPT ![f] = c]
  /\ events' = events + 1
  /\ UNCHANGED <<loaded, walk, walker, aborted>>

\* A file is removed: handleWatcherEvent ignores that event.
RemoveFile(f) ==
  /\ edits < MaxEdits /\ edits' = edits + 1
  /\ disk[f] # Missing
  /\ disk' = [disk EXCEPT ![f] = Missing]
  /\ UNCHANGED <<loaded, events, walk, walker, aborted>>
-----------------------------------------------------------------------------
(* loadConfigs, under the write lock.                                      *)

\* filepath.Walk lists the directory: app-profile.yaml comes before app.yaml.
Listed == SelectSeq(<<Profile, Default>>, LAMBDA f : disk[f] # Missing)

loadConfigs(who) ==
  /\ walker = Nobody
  /\ walker' = who
  /\ walk' = Listed

\* Mutant: an event that comes while nothing is loaded yet is ignored.
handleKnownFiles ==
  /\ events > 0
  /\ events' = events - 1
  /\ IF \A f \in File : loaded[f] = Missing
     THEN UNCHANGED <<walk, walker>>
     ELSE loadConfigs(Watcher)
  /\ UNCHANGED <<disk, loaded, aborted, edits>>

handleWatcherEvent ==
  /\ events > 0
  /\ events' = events - 1
  /\ loadConfigs(Watcher)
  /\ UNCHANGED <<disk, loaded, aborted, edits>>

\* readAndParseConfigFile: an empty YAML file is an empty configuration; a
\* file in error leaves its entry alone.
Parsed(f) ==
  IF disk[f] = Broken THEN loaded[f]
  ELSE IF disk[f] = Truncated THEN EmptyTree
  ELSE disk[f]

\* A file that has gone since it was listed is skipped when only its reading
\* fails ...
processConfigFile ==
  /\ walk # <<>>
  /\ LET f == Head(walk) IN
       loaded' = IF disk[f] = Missing THEN loaded
                 ELSE [loaded EXCEPT ![f] = Parsed(f)]
  /\ walk' = Tail(walk)
  /\ UNCHANGED <<disk, events, walker, aborted, edits>>

LoadEnds(who, failed) ==
  /\ walker = who
  /\ walker' = Nobody
  /\ walk' = <<>>
  /\ aborted' = failed
  /\ UNCHANGED <<disk, loaded, events, edits>>

\* ... and ends the whole walk when the walk itself finds it gone: the files
\* after it keep their old entries.
LoadFails(who) == walk # <<>> /\ disk[Head(walk)] = Missing /\ LoadEnds(who, TRUE)

LoadDone(who) == walk = <<>> /\ LoadEnds(who, FALSE)
-----------------------------------------------------------------------------
(* GetConfig, under the read lock.                                         *)

\* Mutant: the sections of the default profile are replaced as a whole.
shallowMerge(base, override) ==
  [k \in DOMAIN base \cup DOMAIN override |->
     IF k \in DOMAIN override THEN override[k] ELSE base[k]]

deepMerge(base, override) ==
  LET merge[b \in Section] ==
        [o \in Section |->
           [k \in DOMAIN b \cup DOMAIN o |->
              IF k \notin DOMAIN o THEN b[k]
              ELSE IF k \in DOMAIN b /\ IsSection(b[k]) /\ IsSection(o[k])
                   THEN merge[b[k]][o[k]]
                   ELSE o[k]]]
  IN  merge[base][override]

GetConfig ==
  IF loaded[Profile] # Missing
  THEN IF loaded[Default] # Missing
       THEN deepMerge(loaded[Default], loaded[Profile])
       ELSE loaded[Profile]
  ELSE IF loaded[Default] # Missing THEN loaded[Default] ELSE NotFound
-----------------------------------------------------------------------------
ServerNext ==
  \/ \E f \in File : WriteFile(f) \/ RemoveFile(f)
  \/ handleWatcherEvent \/ processConfigFile
  \/ LoadFails(Watcher) \/ LoadDone(Watcher)

Load == \/ processConfigFile \/ LoadFails(Watcher) \/ LoadDone(Watcher)
-----------------------------------------------------------------------------
(* Properties.                                                             *)

\* The paths of keys, and the nodes of a tree along a path: from t itself
\* (0) to the node at its end.
Path == UNION {[1..n -> UNION {DOMAIN t : t \in Tree} \ {Leaf}] : n \in 1..MaxHeight}

Along(t, p) ==
  LET at[i \in 0..Len(p)] == IF i = 0 THEN t ELSE at[i - 1][p[i]] IN at

At(t, p) == Along(t, p)[Len(p)]

\* The paths to the nodes of a tree, and to those that hold a value.
Nodes(t) ==
  {p \in Path : LET at == Along(t, p)
                IN  \A i \in 1..Len(p) : IsSection(at[i - 1]) /\ p[i] \in DOMAIN at[i - 1]}

Leaves(t) == {p \in Nodes(t) : ~IsSection(At(t, p))}

\* The profile takes precedence, value by value: what GetConfig serves holds
\* every value of the profile, each value of the default profile that the
\* profile neither sets, replaces by a section nor cuts off, and no other.
\* (GetConfig runs when nobody holds cs.mutex to load.)
MergesByValue ==
  walker = Nobody /\ loaded[Default] # Missing /\ loaded[Profile] # Missing =>
    LET d == loaded[Default]
        p == loaded[Profile]
        served == GetConfig
        own == Leaves(p)
        reached == Nodes(p)
        kept == {q \in Leaves(d) \ reached : \A n \in 1..Len(q) : SubSeq(q, 1, n) \notin own}
    IN  /\ Leaves(served) = own \cup kept
        /\ \A q \in own : At(served, q) = At(p, q)
        /\ \A q \in kept : At(served, q) = At(d, q)

\* Hot reload: once the files are left alone the server serves what they say.
\* Three kinds of files stay behind: one that does not parse, one that was
\* removed, and, for want of a retry, those after a file that vanished while
\* the server was listing them.
ServesFiles ==
  <>[](aborted \/ \A f \in File : disk[f] # Missing => loaded[f] = Parsed(f))
=============================================================================
