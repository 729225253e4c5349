-------------------------------- MODULE Dblink --------------------------------
(***************************************************************************)
(* dblink: a package is merged from its image into the live file system,   *)
(* the instance that it replaces is unmerged, and the installed-package    *)
(* database follows.  Files are merged and removed one at a time, while    *)
(* the administrator edits files and handles configuration updates, other  *)
(* merges run under FEATURES=parallel-install, and a merge may die at any  *)
(* point.  Paths stand for regular files; directories, symbolic links and  *)
(* device nodes are left out.                                              *)
(***************************************************************************)
EXTENDS Integers, FiniteSets

CONSTANTS
  Pkgs,          \* package versions (cpv)
  NoPkg,
  SlotOf,        \* SlotOf[p]: the slot atom of p
  Blocks,        \* Blocks[p]: the packages that p blocks, whose files it may take
  Older,         \* Older[p]: the versions that p is a downgrade of
  Image,         \* Image[p]: what p installs, from paths to contents
  Protected,     \* paths under CONFIG_PROTECT
  Libs,          \* paths of shared libraries
  Needs,         \* Needs[c]: the libraries that a file with contents c is linked to
  Edits,         \* contents that the administrator writes
  FeatureSets,   \* the FEATURES that emerge may run with
  Installed,     \* what is installed in the beginning
  MaxMerges,     \* bound: merges and unmerges
  MaxEdits,      \* bound: actions of the administrator, for each of the feature sets
  MaxKills       \* bound: merges that die, for each of the feature sets

Paths    == UNION {DOMAIN Image[p] : p \in Pkgs}
Slots    == {SlotOf[p] : p \in Pkgs}
Contents == UNION {{Image[p][f] : f \in DOMAIN Image[p]} : p \in Pkgs} \cup Edits
None     == -1

ASSUME DblinkAssumption ==
  /\ IsFiniteSet(Pkgs) /\ NoPkg \notin Pkgs /\ Installed \subseteq Pkgs
  /\ \A p, q \in Installed : p # q => SlotOf[p] # SlotOf[q]
  /\ Protected \subseteq Paths /\ Libs \subseteq Paths
  /\ None \notin Contents /\ Contents \subseteq Int
  /\ MaxMerges \in Nat /\ MaxEdits \in [FeatureSets -> Nat] /\ MaxKills \in [FeatureSets -> Nat]

VARIABLES
  feats,       \* FEATURES
  fs,          \* fs[f]: [c: its contents, t: its mtime] or NoFile
  cfgs,        \* cfgs[f]: the contents of the ._cfg????_ files beside f
  confmem,     \* confmem[f]: the update last offered for f
  vdb,         \* vdb[p]: [files: CONTENTS, n: COUNTER] or NotThere
  registry,    \* preserved libraries of a slot: [cpv, n, paths] or NoRecord
  counter,     \* the global counter
  pc,          \* pc[p]: where the process that merges or unmerges p is
  w,           \* w[p]: its local variables
  fsLock,      \* who holds vardbapi._fs_lock over several steps
  edits, kills,
  torn         \* history: the paths that a merge or an unmerge that died was working on

dblinkVars == <<feats, fs, cfgs, confmem, vdb, registry, counter, pc, w, fsLock,
                edits, kills, torn>>

NoFile   == [c |-> None, t |-> 0]
NotThere == [files |-> << >>, n |-> 0]
NoRecord == [cpv |-> NoPkg, n |-> 0, paths |-> {}]

Exists(f)   == fs[f] # NoFile
IsIn(p)     == vdb[p] # NotThere
Files(p)    == DOMAIN vdb[p].files
Has(f)      == f \in feats
\* The mtimes that administrators make are those of no merge.
EditTime    == -1
Drop(fun, S) == [x \in DOMAIN fun \ S |-> fun[x]]

Idle == [left |-> {}, mine |-> << >>, keep |-> {}, taken |-> {}, mem |-> << >>,
         olds |-> {}, blockers |-> {}, n |-> 0]

DblinkInit ==
  /\ feats \in FeatureSets
  /\ fs = [f \in Paths |-> IF \E p \in Installed : f \in DOMAIN Image[p]
             THEN [c |-> Image[CHOOSE p \in Installed : f \in DOMAIN Image[p]][f], t |-> 1] ELSE NoFile]
  /\ cfgs = [f \in Protected |-> {}] /\ confmem = [f \in Protected |-> None]
  /\ vdb = [p \in Pkgs |-> IF p \in Installed
             THEN [files |-> [f \in DOMAIN Image[p] |-> [c |-> Image[p][f], t |-> 1]], n |-> 1]
             ELSE NotThere]
  /\ registry = [s \in Slots |-> NoRecord] /\ counter = 1
  /\ pc = [p \in Pkgs |-> "idle"] /\ w = [p \in Pkgs |-> Idle] /\ fsLock = NoPkg
  /\ edits = 0 /\ kills = 0 /\ torn = {}

-------------------------------------------------------------------------------
(* Locks                                                                   *)

\* Without parallel-install one lock of the database is held for a whole merge.
\* With it, a merge holds the locks of its slot and of the slots it blocks.
SlotLocks(p) == {SlotOf[p]} \cup {SlotOf[b] : b \in {b \in Blocks[p] : IsIn(b)}}
Busy == {p \in Pkgs : pc[p] # "idle"}
MayStart(p) ==
  /\ p \notin Busy
  /\ IF Has("parallel-install")
     THEN \A q \in Busy : SlotLocks(p) \cap ({SlotOf[q]} \cup {SlotOf[b] : b \in w[q].blockers}) = {}
     ELSE Busy = {}
FsFree(p) == fsLock \in {NoPkg, p}

Goes(p, from, to) == pc[p] = from /\ pc' = [pc EXCEPT ![p] = to]
Ends(p) == pc' = [pc EXCEPT ![p] = "idle"] /\ w' = [w EXCEPT ![p] = Idle]

\* Packages that p may take files from, and the paths that an interruption damages.
Related(p) == {p} \cup w[p].olds \cup w[p].blockers
                \cup {q \in Pkgs : Files(q) \cap w[p].taken # {}}
Torn(p) == DOMAIN Image[p] \cup UNION {Files(q) \cup registry[SlotOf[q]].paths : q \in Related(p)}

-------------------------------------------------------------------------------
(* Preserved libraries                                                     *)

\* PreservedLibsRegistry.load: libraries that are gone are forgotten.
Pruned(reg) == [s \in Slots |->
  LET there == {l \in reg[s].paths : Exists(l)}
  IN  IF there = {} THEN NoRecord ELSE [reg[s] EXCEPT !.paths = there]]

\* register, and unregister with no paths.
Register(reg, p, n, paths) ==
  LET s == SlotOf[p]
  IN  IF paths # {} THEN [reg EXCEPT ![s] = [cpv |-> p, n |-> n, paths |-> paths]]
      ELSE IF reg[s].cpv = p /\ reg[s].n = n THEN [reg EXCEPT ![s] = NoRecord]
      ELSE reg
PreservedLibs(reg) == UNION {reg[s].paths : s \in Slots}

\* LinkageMapELF: the files that are linked to l, according to the NEEDED entries of
\* the installed packages but those in out, and of the image that is being merged.
MutLinkMap(out, image) ==
  {<<f, c>> \in Paths \X Contents :
     \/ \E p \in Pkgs \cap out : f \in Files(p) /\ c = vdb[p].files[f].c
     \/ f \in DOMAIN image /\ c = image[f]}
LinkMap(out, image) ==
  {<<f, c>> \in Paths \X Contents :
     \/ \E p \in Pkgs \ out : f \in Files(p) /\ c = vdb[p].files[f].c
     \/ f \in DOMAIN image /\ c = image[f]
     \/ f \in PreservedLibs(registry) /\ c = fs[f].c}
Consumers(map, l) == {f \in Paths : \E c \in Contents : <<f, c>> \in map /\ l \in Needs[c]}

\* _find_libs_to_preserve: the libraries among the files of the old instance that can
\* be reached from consumers that stay, unless the new instance brings them as well.
FindLibsToPreserve(old, map, owned) ==
  LET files == DOMAIN old
      providers == {l \in files \cap Libs : Consumers(map, l) # {}}
      Outside(l) == \E f \in Consumers(map, l) : f \notin files
      \* the smallest set with the libraries of outside consumers, closed under needs
      closed == {S \in SUBSET providers : \A l \in providers :
                   Outside(l) \/ Consumers(map, l) \cap S # {} => l \in S}
      reached == {l \in providers : \A S \in closed : l \in S}
  IN  IF Has("preserve-libs") THEN {l \in reached : Exists(l) /\ l \notin owned} ELSE {}

\* _find_unused_preserved_libs: what is left when libraries without consumers are
\* removed again and again; dropped are the files of a package that goes away.
FindUnusedPreservedLibs(reg, map, dropped) ==
  LET preserved == {l \in PreservedLibs(reg) : Exists(l)}
      Needed(l, S) == \E f \in Consumers(map, l) :
                        Exists(f) /\ (f \in S \/ f \notin preserved \cup dropped)
      used == UNION {S \in SUBSET preserved : \A l \in S : Needed(l, S)}
  IN  preserved \ used

\* _remove_preserved_libs and removeFromContents: the files, the records and the
\* contents of the packages they were recorded for.
MutWithout(lost, reg) ==
  /\ fs' = fs
  /\ registry' = [s \in Slots |->
       IF reg[s].paths \subseteq lost THEN NoRecord ELSE [reg[s] EXCEPT !.paths = @ \ lost]]
Without(lost, reg) ==
  /\ fs' = [f \in Paths |-> IF f \in lost THEN NoFile ELSE fs[f]]
  /\ registry' = [s \in Slots |->
       IF reg[s].paths \subseteq lost THEN NoRecord ELSE [reg[s] EXCEPT !.paths = @ \ lost]]
Forget(db, lost, reg) ==
  [q \in Pkgs |-> [db[q] EXCEPT !.files =
     Drop(@, lost \cap UNION {reg[s].paths : s \in {s \in Slots : reg[s].cpv = q}})]]

-------------------------------------------------------------------------------
(* treewalk                                                                *)

\* merge and the beginning of treewalk: the instances in the slot, and the blockers
\* that are still there.
StartMerge(p) ==
  /\ MayStart(p) /\ counter <= MaxMerges
  /\ pc' = [pc EXCEPT ![p] = "check"]
  /\ w' = [w EXCEPT ![p] = [Idle EXCEPT
       !.olds = {q \in Pkgs : IsIn(q) /\ SlotOf[q] = SlotOf[p]},
       !.blockers = {b \in Blocks[p] : IsIn(b)},
       !.left = DOMAIN Image[p], !.n = counter + 1]]
  /\ counter' = counter + 1
  /\ UNCHANGED <<feats, fs, cfgs, confmem, vdb, registry, fsLock, edits, kills, torn>>

\* _collision_protect: a preserved library is taken over; everything else that is there
\* has to belong to the old instance or to a blocker, or to be protected.
Collisions(p) ==
  {f \in DOMAIN Image[p] :
     /\ Exists(f) /\ f \notin PreservedLibs(registry) /\ f \notin Protected
     /\ \A q \in w[p].olds \cup w[p].blockers : f \notin Files(q)}
Owners(files) == {q \in Pkgs : Files(q) \cap files # {}}
MutRefused(p) == Collisions(p) # {} /\ Has("collision-protect")
Refused(p) ==
  /\ Collisions(p) # {}
  /\ \/ Has("collision-protect")
     \/ Has("protect-owned") /\ Owners(Collisions(p)) # {}
CollisionProtect(p) ==
  /\ pc[p] = "check"
  /\ \/ Refused(p) /\ Ends(p)
     \/ ~Refused(p) /\ Goes(p, "check", "preinst")
        /\ w' = [w EXCEPT ![p].taken = DOMAIN Image[p] \cap PreservedLibs(registry)]
  /\ UNCHANGED <<feats, fs, cfgs, confmem, vdb, registry, counter, fsLock, edits, kills, torn>>

\* pkg_preinst may fail.  Then the file system lock, the registry and the memory of
\* configuration updates.
Preinst(p) ==
  /\ pc[p] = "preinst"
  /\ \/ Ends(p) /\ UNCHANGED <<registry, fsLock>>
     \/ /\ FsFree(p) /\ Goes(p, "preinst", "files")
        /\ fsLock' = p /\ registry' = Pruned(registry)
        /\ w' = [w EXCEPT ![p].mem = confmem]
  /\ UNCHANGED <<feats, fs, cfgs, confmem, vdb, counter, edits, kills, torn>>

\* FEATURES=config-protect-if-modified: f is as the old instance has installed it.
MutUnmodified(p, f) ==
  Has("config-protect-if-modified")
  /\ \E q \in w[p].olds : f \in Files(q) /\ vdb[q].files[f].c # Image[p][f]
Unmodified(p, f) ==
  Has("config-protect-if-modified")
  /\ \E q \in w[p].olds : f \in Files(q) /\ vdb[q].files[f].c = fs[f].c

\* _protect: where the new file goes ("here", to a ._cfg file, or nowhere), and what
\* is remembered of it.
Protect(p, f) ==
  LET src == Image[p][f]
      dest == fs[f].c
      known == \E q \in w[p].olds : f \in Files(q)
      noconfmem == \E q \in w[p].olds : q \in Older[p]
  IN  IF dest = None THEN [to |-> IF known THEN "cfg" ELSE "here", mem |-> w[p].mem[f]]
      ELSE IF Unmodified(p, f) THEN [to |-> "here", mem |-> w[p].mem[f]]
      ELSE IF dest = src THEN [to |-> "here", mem |-> src]
      ELSE IF src = w[p].mem[f] /\ ~noconfmem THEN [to |-> "nowhere", mem |-> src]
      ELSE [to |-> "cfg", mem |-> src]

\* mergeme, for one regular file.
MergeFile(p, f) ==
  /\ pc[p] = "files" /\ f \in w[p].left
  /\ LET new == [c |-> Image[p][f], t |-> w[p].n]
     IN  IF f \in Protected
         THEN LET how == Protect(p, f) IN
                /\ fs' = IF how.to = "here" THEN [fs EXCEPT ![f] = new] ELSE fs
                /\ cfgs' = IF how.to = "cfg" THEN [cfgs EXCEPT ![f] = @ \cup {new.c}] ELSE cfgs
                /\ w' = [w EXCEPT ![p].left = @ \ {f}, ![p].mem[f] = how.mem,
                           ![p].mine = [x \in DOMAIN @ \cup {f} |-> IF x = f THEN new ELSE @[x]]]
         ELSE /\ fs' = [fs EXCEPT ![f] = new]
              /\ w' = [w EXCEPT ![p].left = @ \ {f},
                         ![p].mine = [x \in DOMAIN @ \cup {f} |-> IF x = f THEN new ELSE @[x]]]
              /\ UNCHANGED cfgs
  /\ UNCHANGED <<feats, confmem, vdb, registry, counter, pc, fsLock, edits, kills, torn>>
\* movefile fails: what was merged stays.
MergeFails(p) ==
  /\ pc[p] = "files" /\ w[p].left # {} /\ kills < MaxKills[feats]
  /\ Ends(p) /\ fsLock' = NoPkg /\ kills' = kills + 1 /\ torn' = torn \cup Torn(p)
  /\ UNCHANGED <<feats, fs, cfgs, confmem, vdb, registry, counter, edits>>
\* The rest of _merge_contents.
ContentsWritten(p) ==
  /\ Goes(p, "files", "preserve") /\ w[p].left = {}
  /\ confmem' = w[p].mem /\ fsLock' = NoPkg
  /\ UNCHANGED <<feats, fs, cfgs, vdb, registry, counter, w, edits, kills, torn>>

\* Libraries of the old instance that are still in use are added to the new CONTENTS.
Preserve(p) ==
  /\ FsFree(p) /\ Goes(p, "preserve", IF w[p].olds = {} THEN "commit" ELSE "prune")
  /\ LET old == IF w[p].olds = {} THEN << >> ELSE vdb[CHOOSE q \in w[p].olds : TRUE].files
         keep == FindLibsToPreserve(old, LinkMap({}, Image[p]), DOMAIN w[p].mine)
     IN  w' = [w EXCEPT ![p].keep = keep,
                 ![p].mine = [f \in DOMAIN @ \cup keep |-> IF f \in keep THEN old[f] ELSE @[f]]]
  /\ UNCHANGED <<feats, fs, cfgs, confmem, vdb, registry, counter, fsLock, edits, kills, torn>>

-------------------------------------------------------------------------------
(* unmerge, of an old instance q by the merge of p, or of p by itself      *)

Going(p) == IF pc[p] \in {"uprune", "ufiles", "udelete"} THEN p ELSE CHOOSE q \in w[p].olds : TRUE

\* _prune_plib_registry(unmerge=True), for the merge of a replacement...
PruneReplaced(p) ==
  /\ FsFree(p) /\ Goes(p, "prune", "remove")
  /\ LET q == Going(p)
         reg == Register(Pruned(registry), q, vdb[q].n, {})
         lost == FindUnusedPreservedLibs(reg, LinkMap({q}, Image[p]), {})
     IN  /\ Without(lost, reg)
         /\ vdb' = Forget(vdb, lost, reg)
         /\ w' = [w EXCEPT ![p].left = DOMAIN vdb'[q].files]
  /\ UNCHANGED <<feats, cfgs, confmem, counter, fsLock, edits, kills, torn>>
\* ... and for a package that goes away: the libraries of its own that are still in
\* use are registered, and no longer recorded as its files.
PruneUnmerged(p) ==
  /\ FsFree(p) /\ Goes(p, "uprune", "ufiles")
  /\ LET keep == FindLibsToPreserve(vdb[p].files, LinkMap({}, << >>), {})
         reg0 == Register(Pruned(registry), p, vdb[p].n, {})
         reg == IF keep = {} THEN reg0 ELSE Register(reg0, p, vdb[p].n, keep)
         lost == FindUnusedPreservedLibs(reg, LinkMap({}, << >>), Files(p) \ keep)
     IN  /\ Without(lost, reg)
         /\ vdb' = Forget([vdb EXCEPT ![p].files = Drop(@, keep)], lost, reg)
         /\ w' = [w EXCEPT ![p].left = DOMAIN vdb'[p].files]
  /\ UNCHANGED <<feats, cfgs, confmem, counter, fsLock, edits, kills, torn>>

\* _unmerge_pkgfiles, for one file: what another instance in the slot owns stays, and
\* so does what was changed, unless unmerge-orphans removes what is not protected.
MutReplaced(p, f) == FALSE
Replaced(p, f) == pc[p] = "remove" /\ f \in DOMAIN w[p].mine
UnmergeFile(p, f) ==
  /\ pc[p] \in {"remove", "ufiles"} /\ f \in w[p].left \cap Files(Going(p))
  /\ FsFree(p) /\ fsLock' = p
  /\ LET recorded == vdb[Going(p)].files[f]
         stays == ~Exists(f) \/ Replaced(p, f)
         orphan == Has("unmerge-orphans") /\ f \notin Protected
     IN  /\ fs' = IF ~stays /\ (orphan \/ fs[f] = recorded) THEN [fs EXCEPT ![f] = NoFile] ELSE fs
         /\ confmem' = IF ~stays /\ f \in Protected THEN [confmem EXCEPT ![f] = None] ELSE confmem
  /\ w' = [w EXCEPT ![p].left = @ \ {f}]
  /\ UNCHANGED <<feats, cfgs, vdb, registry, counter, pc, edits, kills, torn>>
FilesRemoved(p) ==
  /\ pc[p] \in {"remove", "ufiles"} /\ w[p].left \cap Files(Going(p)) = {}
  /\ pc' = [pc EXCEPT ![p] = IF @ = "remove" THEN "delete" ELSE "udelete"]
  /\ fsLock' = IF fsLock = p THEN NoPkg ELSE fsLock
  /\ UNCHANGED <<feats, fs, cfgs, confmem, vdb, registry, counter, w, edits, kills, torn>>

\* dblink.delete of the old instance.
DeleteOld(p) ==
  /\ Goes(p, "delete", "commit")
  /\ vdb' = [vdb EXCEPT ![Going(p)] = NotThere] /\ w' = [w EXCEPT ![p].olds = {}]
  /\ UNCHANGED <<feats, fs, cfgs, confmem, registry, counter, fsLock, edits, kills, torn>>

-------------------------------------------------------------------------------
\* The temporary entry takes the place of the entry of p.
CommitEntry(p) ==
  /\ Goes(p, "commit", "blockers")
  /\ vdb' = [vdb EXCEPT ![p] = [files |-> w[p].mine, n |-> w[p].n]]
  /\ UNCHANGED <<feats, fs, cfgs, confmem, registry, counter, w, fsLock, edits, kills, torn>>

\* Files of blockers belong to this package now.
TakeFromBlockers(p) ==
  /\ Goes(p, "blockers", "register")
  /\ vdb' = [q \in Pkgs |-> [vdb[q] EXCEPT !.files =
               IF q \in w[p].blockers THEN Drop(@, Files(p)) ELSE @]]
  /\ UNCHANGED <<feats, fs, cfgs, confmem, registry, counter, w, fsLock, edits, kills, torn>>

\* Libraries that were preserved for p are registered; those that it has overwritten
\* are taken from the records of others, and from the contents of others.
RegisterPreserved(p) ==
  /\ FsFree(p) /\ Goes(p, "register", "final")
  /\ LET reg == IF w[p].keep = {} THEN Pruned(registry)
                ELSE Register(Pruned(registry), p, w[p].n, w[p].keep)
         hit == {s \in Slots : reg[s].paths \cap w[p].taken # {}}
         Rest(s) == reg[s].paths \ w[p].taken
         N(s) == IF reg[s].cpv # p /\ IsIn(reg[s].cpv) THEN vdb[reg[s].cpv].n ELSE reg[s].n
     IN  /\ registry' = [s \in Slots |-> IF s \in hit
                          THEN Register(reg, reg[s].cpv, N(s), Rest(s))[s] ELSE reg[s]]
         /\ vdb' = [q \in Pkgs |-> [vdb[q] EXCEPT !.files =
                      IF q # p /\ \E s \in hit : reg[s].cpv = q THEN Drop(@, w[p].taken) ELSE @]]
  /\ UNCHANGED <<feats, fs, cfgs, confmem, counter, w, fsLock, edits, kills, torn>>

\* pkg_postinst, whose failure changes nothing here, and _prune_plib_registry.
FinalPrune(p) ==
  /\ pc[p] = "final" /\ FsFree(p) /\ Ends(p)
  /\ LET reg == Pruned(registry)
         lost == FindUnusedPreservedLibs(reg, LinkMap({}, << >>), {})
     IN  /\ Without(lost, reg)
         /\ vdb' = Forget(vdb, lost, reg)
  /\ UNCHANGED <<feats, cfgs, confmem, counter, fsLock, edits, kills, torn>>

\* vartree.unmerge: the package is unmerged for its own sake.
StartUnmerge(p) ==
  /\ MayStart(p) /\ IsIn(p) /\ counter <= MaxMerges /\ counter' = counter + 1
  /\ pc' = [pc EXCEPT ![p] = "uprune"] /\ w' = [w EXCEPT ![p] = Idle]
  /\ UNCHANGED <<feats, fs, cfgs, confmem, vdb, registry, fsLock, edits, kills, torn>>
\* The second _prune_plib_registry, and the removal of the entry.
FinishUnmerge(p) ==
  /\ pc[p] = "udelete" /\ FsFree(p) /\ Ends(p)
  /\ LET reg == Pruned(registry)
         lost == FindUnusedPreservedLibs(reg, LinkMap({}, << >>), {})
     IN  /\ Without(lost, reg)
         /\ vdb' = [Forget(vdb, lost, reg) EXCEPT ![p] = NotThere]
  /\ UNCHANGED <<feats, cfgs, confmem, counter, fsLock, edits, kills, torn>>

-------------------------------------------------------------------------------
\* The process dies.
Killed(p) ==
  /\ pc[p] # "idle" /\ kills < MaxKills[feats] /\ kills' = kills + 1
  /\ Ends(p) /\ torn' = torn \cup Torn(p)
  /\ fsLock' = IF fsLock = p THEN NoPkg ELSE fsLock
  /\ UNCHANGED <<feats, fs, cfgs, confmem, vdb, registry, counter, edits>>

\* The administrator changes or removes a protected file, or handles an update.
Edit(f) ==
  /\ edits < MaxEdits[feats] /\ edits' = edits + 1
  /\ \/ \E c \in Edits : fs' = [fs EXCEPT ![f] = [c |-> c, t |-> EditTime]] /\ UNCHANGED cfgs
     \/ /\ Exists(f) /\ fs' = [fs EXCEPT ![f] = NoFile] /\ UNCHANGED cfgs
     \/ \E c \in cfgs[f] : /\ cfgs' = [cfgs EXCEPT ![f] = @ \ {c}]
                           /\ fs' \in {fs, [fs EXCEPT ![f] = [c |-> c, t |-> EditTime]]}
  /\ UNCHANGED <<feats, confmem, vdb, registry, counter, pc, w, fsLock, kills, torn>>

Step(p) ==
  \/ StartMerge(p) \/ CollisionProtect(p) \/ Preinst(p) \/ (\E f \in Paths : MergeFile(p, f))
  \/ MergeFails(p) \/ ContentsWritten(p) \/ Preserve(p)
  \/ PruneReplaced(p) \/ (\E f \in Paths : UnmergeFile(p, f)) \/ FilesRemoved(p) \/ DeleteOld(p)
  \/ CommitEntry(p) \/ TakeFromBlockers(p) \/ RegisterPreserved(p) \/ FinalPrune(p)
  \/ StartUnmerge(p) \/ PruneUnmerged(p) \/ FinishUnmerge(p) \/ Killed(p)

DblinkNext == (\E p \in Pkgs : Step(p)) \/ (\E f \in Protected : Edit(f))
DblinkSpec == DblinkInit /\ [][DblinkNext]_dblinkVars

DblinkTypeOK ==
  /\ feats \in FeatureSets /\ torn \subseteq Paths /\ fsLock \in Pkgs \cup {NoPkg}
  /\ \A f \in Paths : fs[f] = NoFile \/ fs[f].c \in Contents
  /\ \A f \in Protected : cfgs[f] \subseteq Contents /\ confmem[f] \in Contents \cup {None}
  /\ \A p \in Pkgs : Files(p) \subseteq Paths
  /\ \A s \in Slots : registry[s].cpv \in Pkgs \cup {NoPkg} /\ registry[s].paths \subseteq Libs

-------------------------------------------------------------------------------
\* What the administrator has written into a protected file is changed by nobody else:
\* no merge, unmerge, downgrade or remerge overwrites or removes it.
UserEditsKept ==
  [][\A f \in Protected : fs[f].c \in Edits /\ fs'[f].c # fs[f].c => edits' # edits]_dblinkVars

\* With collision-protect or protect-owned, the files of an installed package change
\* only while it is replaced, blocked, rebuilt or removed, unless they are preserved
\* libraries, or paths that a merge that died was working on.
Guarded == {"collision-protect", "protect-owned"} \cap feats # {} /\ ~Has("parallel-install")
ForeignFilesKept ==
  [][\A q \in Pkgs : \A f \in Files(q) \ (Protected \cup torn) :
       Guarded /\ Exists(f) /\ fs'[f] # fs[f] =>
         \/ \E p \in Busy : q \in Related(p)
         \/ f \in PreservedLibs(registry)]_dblinkVars

\* What CONTENTS records is in the file system, with these contents, unless a merge that
\* died was working on it: the removal of an old instance never takes files of the new one,
\* nor does the removal of libraries.  (With parallel-install this is not so: another
\* merge may look for the owner of a file between DeleteOld and CommitEntry, when it has
\* none, and overwrite it, or remove a library that is being taken over.)
Intact ==
  ~Has("parallel-install") => \A q \in Pkgs : IsIn(q) /\ (\A p \in Busy : q \notin Related(p)) =>
     \A f \in Files(q) \ (Protected \cup torn) :
       Exists(f) /\ (f \in PreservedLibs(registry) \/ fs[f].c = vdb[q].files[f].c)

\* Between merges every file belongs to a package or to the registry of preserved
\* libraries, if none has died: files are handed over without a gap.
NoOrphans ==
  Busy = {} /\ kills = 0 => \A f \in Paths \ Protected :
     Exists(f) => (\E q \in Pkgs : f \in Files(q)) \/ f \in PreservedLibs(registry)

\* With preserve-libs no library is removed while a file of an installed package that
\* is not being merged itself is linked to it.  (With parallel-install the new instance
\* is in no database between DeleteOld and CommitEntry, and its libraries are not seen.)
LibrariesKept ==
  [][\A l \in Libs : Has("preserve-libs") /\ ~Has("parallel-install")
                     /\ Exists(l) /\ fs'[l] = NoFile =>
       \A q \in Pkgs : \A f \in Files(q)' :
          fs'[f] = vdb'[q].files[f] /\ l \in Needs[fs'[f].c] => \E p \in Busy : q = p]_dblinkVars

\* The database and the disk agree...
DatabaseAgrees == Intact /\ NoOrphans
\* ... and no step takes a file away from somebody else.
FilesKept == UserEditsKept /\ ForeignFilesKept /\ LibrariesKept

\* vartree.py, _collision_protect: "For collisions with preserved libraries, the current
\* package will assume ownership and the libraries will be unregistered."
TakenOver ==
  \A p \in Pkgs : pc[p] = "final" => \A f \in w[p].taken : fs[f].c = Image[p][f]
===============================================================================
