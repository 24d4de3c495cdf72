----------------------------- MODULE FolderSync -----------------------------
(***************************************************************************)
(* The folder tree in the database, its storage rows, the directories of   *)
(* the NAS, and the jobs that make them follow each other.                 *)
(*                                                                         *)
(* A transaction locks the row of its folder: the parent was read before,  *)
(* equal names and children are looked for on another connection.  It      *)
(* changes the row and, in one UPDATE, the paths of all rows that begin    *)
(* with the old one.  Its event is saved on a connection of its own before *)
(* the commit, so that it survives when the commit fails, and is carried   *)
(* out.  The worker moves the directory, saves the storage row of the      *)
(* folder and then, in one UPDATE, those of the folders below it.          *)
(* Both updates use the SQL function REPLACE, which replaces every         *)
(* occurrence of the old path and not only the prefix, and the first one   *)
(* has no slash behind the prefix, so a path is a sequence of characters   *)
(* here; that of the root is <<>>.                                         *)
(*                                                                         *)
(* Commands are numbered in the order in which they begin; the number of a *)
(* command is also the id of its event and of its job.  Folders hold no    *)
(* files.                                                                  *)
(***************************************************************************)
EXTENDS Naturals, Sequences, FiniteSets, SequencesExt

CONSTANTS
  Folders,
  Root,
  NewNames,     \* names that a create or a rename may ask for
  Home,         \* the tree at the beginning: [Folders -> parent and name, or none]
  MaxAttempts,  \* runs of one job
  MaxCalls,     \* bound: commands
  MaxTroubles   \* bound: failed steps and crashes

ASSUME FolderAssumption ==
  /\ Root \notin Folders
  /\ MaxAttempts \in Nat \ {0} /\ MaxCalls \in Nat /\ MaxTroubles \in Nat

VARIABLES
  row,      \* folders rows
  key,      \* folder_storage_objects rows
  dirs,     \* the directories of the NAS
  call,     \* the commands: step, what is asked, what was read
  job,      \* the jobs
  torn,     \* history: a command used what it had read after it had changed, or
            \* a job turned back a move that was not the last one
  crossed,  \* history: a command was accepted while a job or a creation on a
            \* related path was unfinished, or steps that belong together were
            \* separated by a failure
  mangled,  \* history: REPLACE has hit more than the prefix of a path, or a path
            \* that is not below the folder
  troubles

vars == <<row, key, dirs, call, job, torn, crossed, mangled, troubles>>
tree == <<row, key, dirs, mangled>>
history == <<torn, crossed>>

Slash == "/"
Below(path, name) == path \o <<Slash>> \o name
Trash(i) == <<".trash", Slash, ToString(i)>>

Calls == 1 .. MaxCalls
NoRow == [state |-> "none", parent |-> Root, name |-> <<>>, path |-> <<>>]
RootRow == [NoRow EXCEPT !.state = "ACTIVE"]
NoKey == [status |-> "none", path |-> <<>>]
Idle == [step |-> "idle", action |-> "none", folder |-> Root, to |-> Root,
         name |-> <<>>, seen |-> NoRow, hit |-> {}, keyed |-> FALSE]
Ended == [Idle EXCEPT !.step = "end"]
NoJob == [step |-> "none", action |-> "none", folder |-> Root, old |-> <<>>, new |-> <<>>,
          from |-> Root, to |-> Root, runs |-> 0, seen |-> <<>>]
Actions == {"none", "mkdir", "rename", "move", "trash"}

Ids == Folders \cup {Root}
RowType(r) == /\ r.state \in {"none", "ACTIVE", "TRASHED"} /\ r.parent \in Ids
              /\ DOMAIN r = {"state", "parent", "name", "path"}

TypeOK ==
  /\ \A f \in Folders : RowType(row[f]) /\ key[f].status \in {"none", "SYNCING", "AVAILABLE"}
  /\ \A i \in Calls :
       /\ call[i].step \in {"idle", "make", "store", "event", "lock", "update",
                           "commit", "end"}
       /\ call[i].action \in Actions /\ call[i].folder \in Ids /\ call[i].to \in Ids
       /\ RowType(call[i].seen) /\ call[i].hit \subseteq Folders
       /\ job[i].step \in {"none", "waiting", "nas", "revert", "status", "save",
                           "keys", "done", "failed"}
       /\ job[i].action \in Actions
       /\ job[i].folder \in Ids /\ job[i].from \in Ids /\ job[i].to \in Ids
       /\ job[i].runs \in 0 .. MaxAttempts
       /\ job[i].step \notin {"none", "done"} => job[i].folder \in Folders
  /\ {torn, crossed, mangled} \subseteq BOOLEAN
  /\ troubles \in 0 .. MaxTroubles

\* A name has no slash.
IsName(n) == n \in Seq(STRING) /\ \A k \in 1 .. Len(n) : n[k] # Slash

HomePath[f \in Ids] ==
  IF f = Root \/ Home[f] = NoKey THEN <<>>
  ELSE Below(HomePath[Home[f].parent], Home[f].name)

\* The tree at the beginning: every folder is in another one or in the root, no two
\* have one parent and one name, and HomePath is well defined (there is no cycle).
ASSUME TreeAssumption ==
  /\ \A n \in NewNames : IsName(n)
  /\ \A f \in Ids : HomePath[f] \in Seq(STRING)
  /\ HomePath[Root] = <<>>
  /\ \A f \in Folders : Home[f] # NoKey =>
       LET up == Home[f].parent IN
       /\ up = Root \/ (up \in Folders /\ Home[up] # NoKey)
       /\ IsName(Home[f].name)
       /\ HomePath[f] = Below(HomePath[up], Home[f].name)
       /\ \A g \in Folders \ {f} :
            Home[g] # NoKey => Home[g].parent # up \/ Home[g].name # Home[f].name

Init ==
  /\ row = [f \in Folders |->
       IF Home[f] = NoKey THEN NoRow
       ELSE [state |-> "ACTIVE", parent |-> Home[f].parent, name |-> Home[f].name,
             path |-> HomePath[f]]]
  /\ key = [f \in Folders |-> IF Home[f] = NoKey THEN NoKey
                              ELSE [status |-> "AVAILABLE", path |-> HomePath[f]]]
  /\ dirs = {<<>>} \cup {HomePath[f] : f \in Folders}
  /\ call = [i \in Calls |-> Idle]
  /\ job = [i \in Calls |-> NoJob]
  /\ torn = FALSE /\ crossed = FALSE /\ mangled = FALSE
  /\ troubles = 0

-----------------------------------------------------------------------------
(* Helpers                                                                 *)

RowOf(f) == IF f = Root THEN RootRow ELSE row[f]
Active(f) == RowOf(f).state = "ACTIVE"
Children(f) == {g \in Folders : Active(g) /\ row[g].parent = f}

\* existsByNameInParent, outside the transaction.
NameTaken(parent, name, except) ==
  \E g \in Children(parent) \ {except} : row[g].name = name

\* path LIKE 'p%' and path LIKE 'p/%'
Like(p, path) == IsPrefix(p, path)
Under(p, path) == IsPrefix(p \o <<Slash>>, path)

\* REPLACE(s, old, new)
Replace(s, old, new) ==
  LET from[k \in 1 .. Len(s) + 1] ==
        IF k > Len(s) THEN <<>>
        ELSE IF IsPrefix(old, SubSeq(s, k, Len(s))) THEN new \o from[k + Len(old)]
        ELSE <<s[k]>> \o from[k + 1]
  IN from[1]

\* What a replacement of the prefix would give.
Rebased(path, old, new) ==
  IF IsPrefix(old, path) THEN new \o SubSeq(path, Len(old) + 1, Len(path)) ELSE path

Related(p, q) == IsPrefix(p, q) \/ IsPrefix(q, p)
Unfinished(i) == job[i].step \notin {"none", "done"}
Crosses(i, old, new) ==
  \E k \in Calls \ {i}, p \in {old, new} :
    \/ Unfinished(k) /\ (Related(p, job[k].old) \/ Related(p, job[k].new))
    \/ call[k].step \in {"store", "event"} /\ Related(p, call[k].seen.path)

\* A transaction holds the lock of its row and then of all rows it has changed.
Locked(f) ==
  \E i \in Calls :
    \/ call[i].step \in {"update", "commit"} /\ call[i].folder = f
    \/ call[i].step = "commit" /\ f \in call[i].hit
KeyLocked(f) ==
  \E i \in Calls : call[i].step = "commit" /\ call[i].folder = f /\ call[i].keyed
Open(f) == Active(f) /\ key[f].status # "SYNCING" /\ ~Locked(f)

Begins(i) == call[i].step = "idle" /\ \A j \in 1 .. i - 1 : call[j].step # "idle"
UnderWay(i) == call[i].step \notin {"idle", "end"}
End(i) == call' = [call EXCEPT ![i] = Ended]
Trouble == troubles < MaxTroubles /\ troubles' = troubles + 1

\* The job of the event of a command.  It is registered by the command after the
\* commit, or by the recovery cron, which takes events that are five minutes old:
\* either way it waits for as long as it likes.
EventJob(i, old, new) ==
  LET c == call[i] IN
  [step |-> "waiting", action |-> c.action, folder |-> c.folder, old |-> old, new |-> new,
   from |-> RowOf(c.folder).parent, to |-> c.to, runs |-> 0, seen |-> <<>>]

Event(i, old, new) ==
  /\ job' = [job EXCEPT ![i] = EventJob(i, old, new)]
  /\ crossed' = (crossed \/ Crosses(i, old, new))

-----------------------------------------------------------------------------
(* Beginning a command                                                     *)

Begin(i, step, action, f, to, name) ==
  /\ Begins(i)
  /\ call' = [call EXCEPT ![i] = [step |-> step, action |-> action, folder |-> f,
                                 to |-> to, name |-> name, seen |-> RowOf(to),
                                 hit |-> {}, keyed |-> FALSE]]
  /\ UNCHANGED <<tree, job, history, troubles>>

BeginCreate(i, f, parent, name) ==
  /\ row[f].state = "none" /\ \A j \in Calls : call[j].folder # f
  /\ Active(parent) /\ ~NameTaken(parent, name, f)
  /\ Begin(i, "make", "mkdir", f, parent, name)

\* Rename and delete lock the row first; a move reads its target before.
BeginRename(i, f, name) ==
  /\ Open(f) /\ ~NameTaken(row[f].parent, name, f)
  /\ Begin(i, "update", "rename", f, row[f].parent, name)

BeginTrash(i, f) ==
  /\ Open(f) /\ Children(f) = {}
  /\ Begin(i, "update", "trash", f, row[f].parent, row[f].name)

BeginMove(i, f, to) ==
  /\ row[f].state # "none" /\ Active(to)
  /\ Begin(i, "lock", "move", f, to, <<>>)

\* A move below the folder itself is recognised by the paths.
LockMove(i) ==
  LET c == call[i]  f == c.folder  name == row[f].name IN
  /\ c.step = "lock" /\ ~Locked(f)
  /\ IF /\ Open(f) /\ ~NameTaken(c.to, name, Root)
        /\ ~Under(row[f].path, c.seen.path) /\ c.to # f
     THEN call' = [call EXCEPT ![i].step = "update", ![i].name = name]
     ELSE End(i)
  /\ UNCHANGED <<tree, job, history, troubles>>

\* What the command has read is not true any more.
Stale(i) ==
  LET c == call[i] IN
  \/ RowOf(c.to).path # c.seen.path \/ ~Active(c.to)
  \/ c.action # "trash" /\ NameTaken(c.to, c.name, c.folder)
  \/ c.action = "trash" /\ Children(c.folder) # {}

-----------------------------------------------------------------------------
(* Creating a folder: three saves, no transaction                          *)

CreateRow(i) ==
  LET c == call[i] IN
  /\ c.step = "make"
  /\ row' = [row EXCEPT ![c.folder] =
       [state |-> "ACTIVE", parent |-> c.to, name |-> c.name, path |-> Below(c.seen.path, c.name)]]
  /\ torn' = (torn \/ Stale(i))
  /\ call' = [call EXCEPT ![i].step = "store", ![i].seen = row'[c.folder]]
  /\ UNCHANGED <<key, dirs, job, crossed, mangled, troubles>>

CreateKey(i) ==
  LET c == call[i] IN
  /\ c.step = "store"
  /\ key' = [key EXCEPT ![c.folder] = [status |-> "SYNCING", path |-> c.seen.path]]
  /\ torn' = (torn \/ row[c.folder].path # c.seen.path)
  /\ call' = [call EXCEPT ![i].step = "event"]
  /\ UNCHANGED <<row, dirs, job, crossed, mangled, troubles>>

CreateEvent(i) ==
  LET c == call[i] IN
  /\ c.step = "event"
  /\ Event(i, c.seen.path, c.seen.path)
  /\ torn' = (torn \/ row[c.folder].path # c.seen.path)
  /\ End(i)
  /\ UNCHANGED <<tree, troubles>>

-----------------------------------------------------------------------------
(* Rename, move, delete                                                    *)

Dirname(path) ==
  LET n == CHOOSE k \in 1 .. Len(path) :
             path[k] = Slash /\ \A m \in k + 1 .. Len(path) : path[m] # Slash
  IN SubSeq(path, 1, n - 1)

\* Where the folder of a command is to go.
Target(i) ==
  LET c == call[i] IN
  CASE c.action = "rename" -> Below(Dirname(row[c.folder].path), c.name)
    [] c.action = "move" -> Below(c.seen.path, c.name)
    [] OTHER -> Trash(i)

\* The statements of the transaction, which nobody sees before the commit, and the
\* event, which is saved at once.  The UPDATE of the paths waits for rows that are
\* locked, and locks those it changes; that of the storage row is left out when there
\* is none, which is that of a folder whose creation is unfinished.
Update(i) ==
  LET c   == call[i]
      old == row[c.folder].path
      hit == {g \in Folders \ {c.folder} : c.action # "trash" /\ Like(old, row[g].path)}
  IN /\ c.step = "update"
     /\ \A g \in hit : ~Locked(g)
     /\ call' = [call EXCEPT ![i].step = "commit", ![i].hit = hit,
                             ![i].keyed = key[c.folder] # NoKey]
     /\ crossed' = (crossed \/ key[c.folder] = NoKey)
     /\ UNCHANGED <<tree, job, torn, troubles>>

\* Mutant: the paths of the folders below are left alone.
RelocateAlone(f, moved, hit, old, new) ==
  /\ row' = [row EXCEPT ![f] = moved]
  /\ UNCHANGED mangled

\* The path of the folder has been saved when the UPDATE comes to it.
Relocate(f, moved, hit, old, new) ==
  LET Path(p) == IF Like(old, p) THEN Replace(p, old, new) ELSE p
      Meant(p) == IF Under(old, p) THEN Rebased(p, old, new) ELSE p
  IN /\ row' = [g \in Folders |->
          IF g = f THEN [moved EXCEPT !.path = Path(@)]
          ELSE IF g \in hit THEN [row[g] EXCEPT !.path = Path(@)]
          ELSE row[g]]
     /\ mangled' = (mangled \/ row'[f].path # moved.path
                            \/ \E g \in hit \ {f} : row'[g].path # Meant(row[g].path))

Commit(i) ==
  LET c   == call[i]
      f   == c.folder
      old == row[f].path
      new == Target(i)
      Missed == {g \in Folders \ {f} : Under(old, row[g].path)} \ c.hit
  IN /\ c.step = "commit" /\ c.action \in {"rename", "move"}
     /\ Relocate(f, [row[f] EXCEPT !.parent = c.to, !.name = c.name, !.path = new],
                 c.hit, old, new)
     /\ key' = [key EXCEPT ![f] = IF c.keyed THEN [status |-> "SYNCING", path |-> new] ELSE @]
     /\ Event(i, old, new)
     /\ torn' = (torn \/ Stale(i) \/ Missed # {})
     /\ End(i)
     /\ UNCHANGED <<dirs, troubles>>

\* The key keeps its path until the worker has moved the directory.
CommitTrash(i) ==
  LET c == call[i]  f == c.folder IN
  /\ c.step = "commit" /\ c.action = "trash"
  /\ row' = [row EXCEPT ![f].state = "TRASHED"]
  /\ key' = [key EXCEPT ![f].status = IF c.keyed THEN "SYNCING" ELSE @]
  /\ Event(i, row[f].path, Target(i))
  /\ torn' = (torn \/ Stale(i))
  /\ End(i)
  /\ UNCHANGED <<dirs, mangled, troubles>>

\* A command throws: its transaction is rolled back, but its event stays PENDING and
\* the recovery has it carried out.  What a creation has saved stays, too.
CommandFails(i) ==
  /\ UnderWay(i) /\ Trouble
  /\ job' = IF call[i].step = "commit"
            THEN [job EXCEPT ![i] = EventJob(i, row[call[i].folder].path, Target(i))] ELSE job
  /\ crossed' = (crossed \/ call[i].step \in {"store", "event", "commit"})
  /\ End(i)
  /\ UNCHANGED <<tree, torn>>

-----------------------------------------------------------------------------
(* The worker                                                              *)

Running(i) == job[i].step \in {"nas", "revert", "status", "save", "keys"}
Goto(i, step) == job' = [job EXCEPT ![i].step = step]
Done == [NoJob EXCEPT !.step = "done"]
JobDone(i) == job' = [job EXCEPT ![i] = Done]

Throw(i) == Goto(i, IF job[i].runs < MaxAttempts THEN "waiting" ELSE "failed")

\* One run at a time for each folder.  Nothing to do when the storage row is
\* missing or says so.
Run(i) ==
  LET j == job[i]  k == key[j.folder] IN
  /\ j.step = "waiting"
  /\ \A m \in Calls : Running(m) => job[m].folder # j.folder
  /\ IF k.status = "none" \/ (k.status = "AVAILABLE" /\ (j.action = "mkdir" \/ k.path = j.new))
     THEN JobDone(i)
     ELSE IF j.action = "move" /\ ~Active(j.to)
     THEN job' = [job EXCEPT ![i].runs = @ + 1, ![i].step = "revert", ![i].seen = k.path]
     ELSE job' = [job EXCEPT ![i].runs = @ + 1, ![i].step = "nas"]
  /\ UNCHANGED <<tree, call, history, troubles>>

\* The target of the move has gone: the folder goes back to its parent, the rows
\* below it stay as they are, and the key gets the path it was read with.  Neither
\* whether that parent is active nor whether the folder is still where this move
\* has put it is looked at.
Revert(i) ==
  LET j == job[i] IN
  /\ j.step = "revert" /\ ~Locked(j.folder)
  /\ row' = [row EXCEPT ![j.folder].parent = j.from,
                        ![j.folder].path = Below(RowOf(j.from).path, row[j.folder].name)]
  /\ torn' = (torn \/ row[j.folder].parent # j.to)
  /\ Goto(i, "status")
  /\ UNCHANGED <<key, dirs, mangled, call, crossed, troubles>>

RevertStatus(i) ==
  LET j == job[i] IN
  /\ j.step = "status" /\ ~KeyLocked(j.folder)
  /\ key' = [key EXCEPT ![j.folder] = [status |-> "AVAILABLE", path |-> j.seen]]
  /\ JobDone(i)
  /\ UNCHANGED <<row, dirs, mangled, call, history, troubles>>

\* mkdir -p, and the directory that a path is in.
Parents(path) == {SubSeq(path, 1, k - 1) : k \in {k \in 1 .. Len(path) : path[k] = Slash}}

\* mkdir of what exists already is no error.  A move throws when its source is
\* missing or its target is there and not empty.
NasStep(i) ==
  LET j == job[i]
      Movable == j.old \in dirs /\ ~\E d \in dirs : Under(j.new, d)
  IN /\ j.step = "nas"
     /\ IF j.action = "mkdir"
        THEN dirs' = dirs \cup Parents(j.new) \cup {j.new} /\ Goto(i, "save")
        ELSE IF Movable
        THEN /\ dirs' = Parents(j.new) \cup
                        {IF d = j.old \/ Under(j.old, d) THEN Rebased(d, j.old, j.new) ELSE d : d \in dirs}
             /\ Goto(i, "save")
        ELSE UNCHANGED dirs /\ Throw(i)
     /\ UNCHANGED <<row, key, mangled, call, history, troubles>>

SaveKey(i) ==
  LET j == job[i] IN
  /\ j.step = "save" /\ ~KeyLocked(j.folder)
  /\ key' = [key EXCEPT ![j.folder] = [status |-> "AVAILABLE", path |-> j.new]]
  /\ IF j.action \in {"rename", "move"} THEN Goto(i, "keys") ELSE JobDone(i)
  /\ UNCHANGED <<row, dirs, mangled, call, history, troubles>>

\* Mutant: the storage rows below the folder are left alone.
SaveNoKeysBelow(i) ==
  /\ job[i].step = "keys"
  /\ JobDone(i)
  /\ UNCHANGED <<tree, call, history, troubles>>

\* updateDescendantStorageKeys replaces the old path without a slash behind it.
SaveKeysBelow(i) ==
  LET j == job[i]
      Path(p) == IF Under(j.old, p) THEN Replace(p, j.old, j.new) ELSE p
  IN /\ j.step = "keys" /\ \A g \in Folders : Under(j.old, key[g].path) => ~KeyLocked(g)
     /\ key' = [g \in Folders |-> [key[g] EXCEPT !.path = Path(@)]]
     /\ mangled' = (mangled \/ \E g \in Folders :
                                 Under(j.old, key[g].path)
                                 /\ key'[g].path # Rebased(key[g].path, j.old, j.new))
     /\ JobDone(i)
     /\ UNCHANGED <<row, dirs, call, history, troubles>>

\* An error of that update is swallowed.
KeysNotSaved(i) ==
  /\ job[i].step = "keys" /\ Trouble
  /\ JobDone(i)
  /\ crossed' = TRUE
  /\ UNCHANGED <<tree, call, torn>>

\* The NAS or the database refuses a step.
RunFails(i) ==
  /\ job[i].step \in {"nas", "revert", "status", "save"} /\ Trouble
  /\ Throw(i)
  /\ UNCHANGED <<tree, call, history>>

-----------------------------------------------------------------------------
(* Crashes                                                                 *)

\* Commands are gone, but not their events; jobs that ran are delivered again, and
\* skip what is left of them when the storage row is saved.
Crash ==
  /\ Trouble
  /\ call' = [i \in Calls |-> IF UnderWay(i) THEN Ended ELSE call[i]]
  /\ job' = [i \in Calls |->
       IF call[i].step = "commit" THEN EventJob(i, row[call[i].folder].path, Target(i))
       ELSE IF Running(i) THEN [job[i] EXCEPT !.step = "waiting", !.runs = @ - 1]
       ELSE job[i]]
  /\ crossed' = (crossed \/ \E i \in Calls :
       call[i].step \in {"store", "event", "commit"} \/ job[i].step = "keys")
  /\ UNCHANGED <<tree, torn>>

-----------------------------------------------------------------------------

Command(i) ==
  \E f \in Folders :
    \/ \E to \in Ids : BeginMove(i, f, to)
                       \/ \E name \in NewNames : BeginCreate(i, f, to, name)
    \/ \E name \in NewNames : BeginRename(i, f, name)
    \/ BeginTrash(i, f)

Worker(i) ==
  \/ Run(i) \/ Revert(i) \/ RevertStatus(i) \/ NasStep(i)
  \/ SaveKey(i) \/ SaveKeysBelow(i) \/ KeysNotSaved(i) \/ RunFails(i)

Next ==
  \/ \E i \in Calls :
       \/ Command(i)
       \/ LockMove(i) \/ CreateRow(i) \/ CreateKey(i) \/ CreateEvent(i)
       \/ Update(i) \/ Commit(i) \/ CommitTrash(i) \/ CommandFails(i)
       \/ Worker(i)
  \/ Crash

Spec == Init /\ [][Next]_vars

-----------------------------------------------------------------------------
(* Properties                                                              *)

\* The path of an active folder is its parent's path and its name, its parent is
\* active, and no two active folders have one path.
IsTree ==
  \A f \in Folders : Active(f) =>
    /\ Active(row[f].parent)
    /\ row[f].path = Below(RowOf(row[f].parent).path, row[f].name)
    /\ \A g \in Folders \ {f} : Active(g) => row[g].path # row[f].path

\* The paths keep to the tree, whatever commands are under way, fail or are rolled
\* back, unless one of them used what it had read too late, a job turned back a move
\* that was not the last one, or REPLACE hit too much.
\* As paths grow with every step down, no folder is its own ancestor.
TreeMatchesPaths == ~torn /\ ~mangled => IsTree

\* No command is about this folder, and no unfinished job leads to its path.
Settled(f) ==
  /\ Active(f)
  /\ \A i \in Calls : UnderWay(i) => call[i].folder # f
  /\ \A i \in Calls : Unfinished(i) => ~IsPrefix(job[i].new, row[f].path)

InPlace(f) == key[f] = [status |-> "AVAILABLE", path |-> row[f].path] /\ row[f].path \in dirs

\* Once the jobs of a folder and of the folders above it have run, its storage row
\* is AVAILABLE with the path of the folder, where the directory is, although each
\* job moves the directory and the rows one after the other, is retried and runs
\* again after a crash.
FolderIsWherePathSays ==
  ~torn /\ ~mangled /\ ~crossed => \A f \in Folders : Settled(f) => InPlace(f)

\* The bulk update of the paths changes those of the folders below, and no others:
\* the first property without the exclusion of what REPLACE does.
OnlyPathsBelowChange == ~torn => IsTree
=============================================================================
