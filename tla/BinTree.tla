------------------------------- MODULE BinTree -------------------------------
(* $PKGDIR: the files of one package, and the Packages index that describes   *)
(* them, under several processes with a binarytree each.  A process reads the *)
(* index and the directory once (populate), then adds, updates and removes    *)
(* packages.  The index is changed under its lock, the files are not: numbers *)
(* are taken by creating an empty file, and metadata are updated in place.    *)
EXTENDS Naturals, FiniteSets, FiniteSetsExt

CONSTANTS
  Users,          \* processes
  MaxId,          \* bound: build ids, each with a path of its own
  Settings,       \* the settings of all of them: [multi, trusted, signed]
  MaxWork,        \* bound: operations that are started
  MaxDeaths       \* bound: processes that are killed

ASSUME BinTreeAssumption ==
  /\ MaxId \in Nat \ {0} /\ {MaxWork, MaxDeaths} \subseteq Nat
  /\ "nobody" \notin Users
  /\ Settings \subseteq [multi : BOOLEAN, trusted : BOOLEAN, signed : BOOLEAN]

VARIABLES
  setting,
  file,           \* what is at each path
  index,          \* the Packages file: the entry of each path
  indexLock,      \* who has it
  tree,           \* the binarytree of each process, and where it is
  count,          \* work started, builds and updates made, deaths
  stray,          \* history: files that nobody has put into the index
  added           \* history: builds whose inject has returned, until a remove

binDisk == <<file, index, indexLock>>
binHist == <<stray, added>>
binVars == <<setting, binDisk, tree, count, binHist>>

Ids == 1..MaxId
\* A package: whose metadata and whose image it holds, and the rewrite it comes
\* from, which stands for its mtime, size and digests.
Pkg(build) == [meta |-> build, image |-> build, rev |-> 0]
Missing == Pkg(0)
Placeholder == [Missing EXCEPT !.rev = 1]
Complete(x) == x.image # 0
\* An entry of the index: the metadata in it, and the file that it describes.
Entry(meta, x) == [meta |-> meta, of |-> x]
NoEntry == Entry(0, Missing)
NoUser == "nobody"

Fresh == [at |-> "idle", op |-> "none", populated |-> FALSE, known |-> [q \in Ids |-> NoEntry],
          listing |-> {}, target |-> 1, pkg |-> Missing]

\* At first there may be a package that is in the index, one that was copied there,
\* or the entry of one that has been deleted by hand.
BinTreeInit ==
  /\ setting \in Settings
  /\ \E x \in {Missing, Pkg(1)}, e \in {NoEntry, Entry(1, Pkg(1))} :
       /\ file = [q \in Ids |-> IF q = 1 THEN x ELSE Missing]
       /\ index = [q \in Ids |-> IF q = 1 THEN e ELSE NoEntry]
       /\ stray = IF e.of # x THEN {1} ELSE {}
  /\ indexLock = NoUser
  /\ tree = [u \in Users |-> Fresh]
  /\ count = [work |-> 0, builds |-> 1, updates |-> 0, deaths |-> 0]
  /\ added = {}

At(u, place) == tree[u].at = place
Goto(u, place) == tree' = [tree EXCEPT ![u].at = place]
Done(u, known) == tree' = [tree EXCEPT ![u] = [Fresh EXCEPT !.populated = TRUE, !.known = known]]

\* A process is gone, with what it knew and with the lock.
InFlight(u, q) ==
  /\ tree[u].target = q
  /\ At(u, "write") \/ At(u, "unlink") \/ (tree[u].op = "update" /\ tree[u].at \in {"stat", "inject"})
Gone(u) ==
  /\ tree' = [tree EXCEPT ![u] = Fresh]
  /\ indexLock' = IF indexLock = u THEN NoUser ELSE indexLock
  /\ stray' = stray \cup {q \in Ids : InFlight(u, q)}

-------------------------------------------------------------------------------
\* Where an operation begins, once the tree is populated.
FirstStep(op) == IF op = "update" THEN "choose"
             ELSE IF op = "package" \/ ~setting.multi THEN "make" ELSE "probe"

Begin(u, op) ==
  /\ At(u, "idle") /\ count.work < MaxWork
  /\ count' = [count EXCEPT !.work = @ + 1]
  /\ tree' = [tree EXCEPT ![u].op = op, ![u].target = 1,
                          ![u].at = IF tree[u].populated THEN FirstStep(op) ELSE "walk"]
  /\ UNCHANGED <<setting, binDisk, binHist>>

Populated(u, found) ==
  tree' = [tree EXCEPT ![u].populated = TRUE, ![u].known = found, ![u].listing = {},
                       ![u].at = FirstStep(tree[u].op)]

\* _populate_local: os.walk, unless the index is trusted.
Walk(u) ==
  /\ At(u, "walk")
  /\ IF setting.trusted THEN Populated(u, index)
     ELSE tree' = [tree EXCEPT ![u].listing = {q \in Ids : file[q] # Missing}, ![u].at = "scan"]
  /\ UNCHANGED <<setting, binDisk, count, binHist>>

\* The rest of it: an entry is kept when mtime and size agree, other packages are
\* read, and what is not a package is left out.
Matched(q) == index[q].of = file[q]
Found(paths) ==
  [q \in Ids |-> IF q \notin paths \/ ~Complete(file[q]) THEN NoEntry
                   ELSE IF Matched(q) THEN index[q] ELSE Entry(file[q].meta, file[q])]
Outdated(paths) == \E q \in paths : Complete(file[q]) /\ ~Matched(q)

\* An os.lstat of a file that is gone raises FileNotFoundError.
Scan(u) ==
  /\ At(u, "scan")
  /\ LET paths == tree[u].listing IN
     IF \E q \in paths : file[q] = Missing THEN Gone(u)
     ELSE /\ IF Outdated(paths)
             THEN tree' = [tree EXCEPT ![u].known = Found(paths), ![u].listing = {}, ![u].at = "relock"]
             ELSE Populated(u, Found(paths))
          /\ UNCHANGED <<indexLock, stray>>
  /\ UNCHANGED <<setting, file, index, count, added>>

TakeLock(u, from, to) ==
  /\ At(u, from) /\ indexLock = NoUser /\ indexLock' = u
  /\ Goto(u, to)
  /\ UNCHANGED <<setting, file, index, count, binHist>>
Relock(u) == TakeLock(u, "relock", "rescan")

\* populate, with the lock: once again from the beginning.
MutRescanned(u) == tree[u].known
Rescanned(u) == Found(Ids)
Rescan(u) ==
  /\ At(u, "rescan")
  /\ index' = IF Outdated(Ids) THEN Rescanned(u) ELSE index
  /\ Populated(u, Rescanned(u))
  /\ indexLock' = NoUser /\ stray' = {}
  /\ UNCHANGED <<setting, file, count, added>>

-------------------------------------------------------------------------------
\* _allocate_filename_multi: the build id of a package from elsewhere, or the first
\* one above those that are known for which there is no file.
Known(u) == {q \in Ids : tree[u].known[q] # NoEntry}
MaxBuildId(u) == IF Known(u) = {} THEN 0 ELSE Max(Known(u))
Unused(from) == {q \in Ids : q >= from /\ file[q] = Missing}
Preferred(u) == tree[u].op = "fetch" /\ file[1] = Missing
Candidates(u) == IF Preferred(u) THEN {1} ELSE Unused(MaxBuildId(u) + 1)

Probe(u) ==
  /\ At(u, "probe") /\ Candidates(u) # {}
  /\ tree' = [tree EXCEPT ![u].target = Min(Candidates(u)), ![u].at = "create"]
  /\ UNCHANGED <<setting, binDisk, count, binHist>>

\* open(filename, "x"): another process may have been faster.
MutTaken(q) == FALSE
Taken(q) == file[q] # Missing
NextId(u) == IF tree[u].op = "fetch" /\ tree[u].target = 1 THEN MaxBuildId(u) + 1 ELSE tree[u].target + 1
Create(u) ==
  LET q == tree[u].target IN
  /\ At(u, "create")
  /\ IF Taken(q)
     THEN /\ Unused(NextId(u)) # {}
          /\ tree' = [tree EXCEPT ![u].target = Min(Unused(NextId(u)))]
          /\ UNCHANGED file
     ELSE /\ file' = [file EXCEPT ![q] = Placeholder]
          /\ Goto(u, IF tree[u].op = "package" THEN "move" ELSE "make")
  /\ UNCHANGED <<setting, index, indexLock, count, binHist>>

\* The package phase or the download, to a file beside it.
Make(u) ==
  /\ At(u, "make")
  /\ tree' = [tree EXCEPT ![u].pkg = Pkg(count.builds + 1), ![u].at = "inject"]
  /\ count' = [count EXCEPT !.builds = @ + 1]
  /\ UNCHANGED <<setting, binDisk, binHist>>
\* The empty file stays.
MakeFails(u) ==
  /\ At(u, "make") /\ Done(u, tree[u].known)
  /\ UNCHANGED <<setting, binDisk, count, binHist>>

(****************************************************************************)
(* inject: lock, allocate unless that has been done, move the file into       *)
(* place, and add its entry to the index as it is now.                        *)
(****************************************************************************)
Inject(u) ==
  TakeLock(u, "inject", CASE tree[u].op = "update" -> "write"
                          [] tree[u].op = "package" /\ setting.multi -> "probe"
                          [] OTHER -> "move")

Move(u) ==
  /\ At(u, "move") /\ Goto(u, "write")
  /\ file' = [file EXCEPT ![tree[u].target] = tree[u].pkg]
  /\ UNCHANGED <<setting, index, indexLock, count, binHist>>

MutLoaded(u) == tree[u].known
Loaded(u) == index
\* Size, time and digests are those of the file by now.
Write(u) ==
  LET q == tree[u].target
      e == Entry(tree[u].pkg.meta, file[q]) IN
  /\ At(u, "write")
  /\ IF file[q] = Missing THEN Gone(u) /\ UNCHANGED <<index, added>>
     ELSE /\ index' = [Loaded(u) EXCEPT ![q] = e]
          /\ Done(u, [tree[u].known EXCEPT ![q] = e])
          /\ indexLock' = NoUser
          /\ stray' = stray \ {q} /\ added' = added \cup {file[q].image}
  /\ UNCHANGED <<setting, file, count>>

-------------------------------------------------------------------------------
\* aux_update, for a slot move: of a package that is known, if its file is there.
ChoosePkg(u) ==
  /\ At(u, "choose")
  /\ \/ (Known(u) = {} \/ \E q \in Known(u) : file[q] = Missing) /\ Done(u, tree[u].known)
     \/ \E q \in Known(u) :
          file[q] # Missing /\ tree' = [tree EXCEPT ![u].target = q, ![u].at = "open"]
  /\ UNCHANGED <<setting, binDisk, count, binHist>>

\* A signed package cannot be updated and is removed instead.
Open(u) ==
  LET q == tree[u].target IN
  /\ At(u, "open")
  /\ IF ~Complete(file[q]) THEN Gone(u)
     ELSE /\ tree' = [tree EXCEPT ![u].pkg = file[q], ![u].at = IF setting.signed THEN "remove" ELSE "rewrite"]
          /\ UNCHANGED <<indexLock, stray>>
  /\ UNCHANGED <<setting, file, index, count, added>>

\* The new metadata with the image that is there now, moved over the file.
Rewrite(u) ==
  LET q == tree[u].target IN
  /\ At(u, "rewrite")
  /\ IF ~Complete(file[q]) THEN Gone(u) /\ UNCHANGED <<file, count>>
     ELSE /\ file' = [file EXCEPT ![q] = [meta |-> tree[u].pkg.meta, image |-> file[q].image,
                                          rev |-> count.updates + 1]]
          /\ count' = [count EXCEPT !.updates = @ + 1]
          /\ Goto(u, "stat") /\ UNCHANGED <<indexLock, stray>>
  /\ UNCHANGED <<setting, index, added>>

\* inject reads what it has to inject before it takes the lock.
Stat(u) ==
  LET q == tree[u].target IN
  /\ At(u, "stat")
  /\ IF Complete(file[q])
     THEN tree' = [tree EXCEPT ![u].pkg = file[q], ![u].at = "inject"] /\ UNCHANGED stray
     ELSE Done(u, tree[u].known) /\ stray' = stray \cup {q}
  /\ UNCHANGED <<setting, binDisk, count, added>>

\* remove: the entry first, then the file.
LockToRemove(u) == TakeLock(u, "remove", "unindex")

Unindex(u) ==
  LET q == tree[u].target IN
  /\ At(u, "unindex")
  /\ tree' = [tree EXCEPT ![u].known[q] = NoEntry, ![u].at = "unlink"]
  /\ index' = [index EXCEPT ![q] = NoEntry]
  /\ added' = added \ {file[q].image}
  /\ UNCHANGED <<setting, file, indexLock, count, stray>>

Unlink(u) ==
  /\ At(u, "unlink") /\ Done(u, tree[u].known)
  /\ file' = [file EXCEPT ![tree[u].target] = Missing]
  /\ indexLock' = NoUser
  /\ UNCHANGED <<setting, index, count, binHist>>

-------------------------------------------------------------------------------
\* A process ends, or is killed, and another one takes its place.
Exit(u) ==
  /\ At(u, "idle") /\ tree[u].populated /\ Gone(u)
  /\ UNCHANGED <<setting, file, index, count, added>>
Kill(u) ==
  /\ ~At(u, "idle") /\ count.deaths < MaxDeaths
  /\ count' = [count EXCEPT !.deaths = @ + 1]
  /\ Gone(u)
  /\ UNCHANGED <<setting, file, index, added>>

BinTreeNext ==
  \E u \in Users :
    \/ \E op \in {"build", "fetch", "package", "update"} : Begin(u, op)
    \/ Walk(u) \/ Scan(u) \/ Relock(u) \/ Rescan(u)
    \/ Probe(u) \/ Create(u) \/ Make(u) \/ MakeFails(u)
    \/ Inject(u) \/ Move(u) \/ Write(u)
    \/ ChoosePkg(u) \/ Open(u) \/ Rewrite(u) \/ Stat(u) \/ LockToRemove(u) \/ Unindex(u) \/ Unlink(u)
    \/ Exit(u) \/ Kill(u)
BinTreeSpec == BinTreeInit /\ [][BinTreeNext]_binVars
-------------------------------------------------------------------------------
\* What lies in $PKGDIR is in the index, with the size, the time and the digests that
\* it has, unless somebody is about to see to that or has died before he could.
FilesIndexed ==
  \A q \in Ids :
    Complete(file[q]) /\ q \notin stray /\ (\A u \in Users : ~InFlight(u, q)) => index[q].of = file[q]
\* No operation leaves the entry of a file that is not there.
NothingDangles ==
  \A q \in Ids : index[q] # NoEntry /\ index[q].of # Pkg(1) => Complete(file[q])
\* With a path for each build, the metadata in an entry and in a package are those
\* of the build that it holds.
MetadataTrue ==
  setting.multi => \A q \in Ids : /\ file[q].meta = file[q].image
                                    /\ index[q].meta = index[q].of.image
\* Whatever dies or races, the index tells what populate would find.
IndexTrue == FilesIndexed /\ NothingDangles /\ MetadataTrue

\* With a path for each build, no build that was added is overwritten by another, as
\* long as nothing is removed: a process whose knowledge is old may remove the empty
\* file by which another one holds its number.
InstancesKept ==
  setting.multi /\ ~setting.signed => \A b \in added : \E q \in Ids : file[q].image = b
===============================================================================
