--------------------------- MODULE PackageTracker ---------------------------
(***************************************************************************)
(* The packages of a dependency calculation: those that are to be          *)
(* installed, which the resolver adds and takes back, and the installed    *)
(* ones, which they may replace.  What it is asked it answers from caches  *)
(* and indexes that each operation keeps up to date.                       *)
(***************************************************************************)
EXTENDS Naturals, FiniteSets

CONSTANTS
  Packages,   \* packages, each of them one object
  CpKeys,       \* pairs of a root and a category/package name
  CpKey,        \* the pair of each package
  SlotAtom,     \* the slot_atom of each package
  Cpv,          \* the cpv of each package
  Queries,      \* pairs of a root and an atom that match() is asked for
  QueryKey,     \* the root and the name of each
  Matching,     \* match_from_list: the packages that each accepts
  Sonames,      \* provided libraries
  Provides      \* the libraries of each package

ASSUME PackageTrackerAssumption ==
  /\ IsFiniteSet(Packages)
  /\ CpKey \in [Packages -> CpKeys]
  /\ QueryKey \in [Queries -> CpKeys]
  /\ Matching \in [Queries -> SUBSET Packages]
  /\ \A q \in Queries : \A p \in Matching[q] : CpKey[p] = QueryKey[q]
  /\ Provides \in [Packages -> SUBSET Sonames]

\* A cache holds no answer, {}, or one, {answer}.  An answer is a set: the order
\* of the lists, by version or by time of arrival, is left out.
VARIABLES
  cpPkgs,         \* _cp_pkg_map: the packages to be installed
  vdbPkgs,        \* _cp_vdb_pkg_map: the installed packages
  multiPkgs,      \* _multi_pkgs: the names with more than one to be installed
  conflictsCache, \* _conflicts_cache
  replacing,      \* _replacing: pairs of a new and an installed package
  replacedBy,     \* _replaced_by: pairs of an installed and a new package
  matchCache,     \* _match_cache: by the atom and by "installed"
  providesIndex   \* _provides_index: the packages with each soname

trackerVars == <<cpPkgs, vdbPkgs, multiPkgs, conflictsCache, replacing, replacedBy,
                 matchCache, providesIndex>>

PackageTrackerInit ==
  /\ cpPkgs = {} /\ vdbPkgs = {} /\ multiPkgs = {}
  /\ conflictsCache = {} /\ replacing = {} /\ replacedBy = {}
  /\ matchCache = [q \in Queries \X BOOLEAN |-> {}]
  /\ providesIndex = [s \in Sonames |-> {}]

PkgsOf(key) == {p \in cpPkgs : CpKey[p] = key}

\* A new package takes the place of an installed one in its slot, or of its cpv.
Covers(new, old) ==
  CpKey[new] = CpKey[old] /\ (SlotAtom[new] = SlotAtom[old] \/ Cpv[new] = Cpv[old])

\* _match_cache.pop(cp_key)
Forgotten(key) ==
  [q \in Queries \X BOOLEAN |-> IF QueryKey[q[1]] = key THEN {} ELSE matchCache[q]]

MutTrackPkg(p) ==
  /\ p \notin cpPkgs
  /\ cpPkgs' = cpPkgs \cup {p}
  /\ LET key == CpKey[p]
         n   == Cardinality(PkgsOf(key)) + 1
         old == {i \in vdbPkgs : Covers(p, i)}
     IN  /\ conflictsCache' = IF n = 2 THEN {} ELSE conflictsCache
         /\ multiPkgs' = IF n = 2 THEN multiPkgs \cup {key} ELSE multiPkgs
         /\ replacing' = {r \in replacing : r[1] # p} \cup {<<p, i>> : i \in old}
         /\ replacedBy' = replacedBy \cup {<<i, p>> : i \in old}
         /\ matchCache' = Forgotten(key)
  /\ providesIndex' = [s \in Sonames |-> providesIndex[s] \cup {q \in {p} : s \in Provides[q]}]
  /\ UNCHANGED vdbPkgs
TrackPkg(p) ==
  /\ p \notin cpPkgs
  /\ cpPkgs' = cpPkgs \cup {p}
  /\ LET key == CpKey[p]
         n   == Cardinality(PkgsOf(key)) + 1
         old == {i \in vdbPkgs : Covers(p, i)}
     IN  /\ conflictsCache' = IF n > 1 THEN {} ELSE conflictsCache
         /\ multiPkgs' = IF n = 2 THEN multiPkgs \cup {key} ELSE multiPkgs
         /\ replacing' = {r \in replacing : r[1] # p} \cup {<<p, i>> : i \in old}
         /\ replacedBy' = replacedBy \cup {<<i, p>> : i \in old}
         /\ matchCache' = Forgotten(key)
  /\ providesIndex' = [s \in Sonames |-> providesIndex[s] \cup {q \in {p} : s \in Provides[q]}]
  /\ UNCHANGED vdbPkgs

MutAddInstalledPkg(i) ==
  /\ i \notin vdbPkgs
  /\ vdbPkgs' = vdbPkgs \cup {i}
  /\ matchCache' = Forgotten(CpKey[i])
  /\ UNCHANGED <<cpPkgs, multiPkgs, conflictsCache, replacing, replacedBy, providesIndex>>
AddInstalledPkg(i) ==
  /\ i \notin vdbPkgs
  /\ vdbPkgs' = vdbPkgs \cup {i}
  /\ LET new == {p \in cpPkgs : Covers(p, i)}
     IN  /\ replacing' = replacing \cup {<<p, i>> : p \in new}
         /\ replacedBy' = replacedBy \cup {<<i, p>> : p \in new}
  /\ matchCache' = Forgotten(CpKey[i])
  /\ UNCHANGED <<cpPkgs, multiPkgs, conflictsCache, providesIndex>>

\* remove_pkg, or discard_pkg, which does nothing to a package that is not there.
MutRemovePkg(p) ==
  /\ p \in cpPkgs
  /\ cpPkgs' = cpPkgs \ {p}
  /\ LET key == CpKey[p]
         n   == Cardinality(PkgsOf(key)) - 1
     IN  /\ conflictsCache' = IF n > 1 THEN {} ELSE conflictsCache
         /\ multiPkgs' = IF n = 1 THEN multiPkgs \ {key} ELSE multiPkgs
         /\ matchCache' = Forgotten(key)
  /\ replacedBy' = replacedBy \ {<<r[2], p>> : r \in {r \in replacing : r[1] = p}}
  /\ replacing' = {r \in replacing : r[1] # p}
  /\ providesIndex' = [s \in Sonames |-> providesIndex[s] \ {q \in {p} : s \in Provides[q]}]
  /\ UNCHANGED vdbPkgs
RemovePkg(p) ==
  /\ p \in cpPkgs
  /\ cpPkgs' = cpPkgs \ {p}
  /\ LET key == CpKey[p]
         n   == Cardinality(PkgsOf(key)) - 1
     IN  /\ conflictsCache' = IF n > 0 THEN {} ELSE conflictsCache
         /\ multiPkgs' = IF n = 1 THEN multiPkgs \ {key} ELSE multiPkgs
         /\ matchCache' = Forgotten(key)
  /\ replacedBy' = replacedBy \ {<<r[2], p>> : r \in {r \in replacing : r[1] = p}}
  /\ replacing' = {r \in replacing : r[1] # p}
  /\ providesIndex' = [s \in Sonames |-> providesIndex[s] \ {q \in {p} : s \in Provides[q]}]
  /\ UNCHANGED vdbPkgs

\* The installed packages that are not in _replaced_by.
MutUncovered == {i \in vdbPkgs : ~ \E r \in replacedBy : r[2] = i}
Uncovered == {i \in vdbPkgs : ~ \E r \in replacedBy : r[1] = i}

\* match: what is cached, or a new answer, which is cached.
Match(q, installed) ==
  LET candidates == cpPkgs \cup IF installed THEN Uncovered ELSE {}
  IN  /\ matchCache[<<q, installed>>] = {}
      /\ matchCache' = [matchCache EXCEPT ![<<q, installed>>] = {Matching[q] \cap candidates}]
      /\ UNCHANGED <<cpPkgs, vdbPkgs, multiPkgs, conflictsCache, replacing, replacedBy,
                     providesIndex>>

\* The packages of one name by slot and by cpv; a cpv conflict in a single slot is
\* a slot conflict already.
InSlotOf(p, pkgs) == {o \in pkgs : CpKey[o] = CpKey[p] /\ SlotAtom[o] = SlotAtom[p]}
WithCpvOf(p, pkgs)  == {o \in pkgs : CpKey[o] = CpKey[p] /\ Cpv[o] = Cpv[p]}
ConflictsAmong(pkgs) ==
  {[description |-> "slot", pkgs |-> InSlotOf(p, pkgs)] :
     p \in {p \in pkgs : Cardinality(InSlotOf(p, pkgs)) > 1}}
  \cup {[description |-> "cpv", pkgs |-> WithCpvOf(p, pkgs)] :
     p \in {p \in pkgs : \E o \in WithCpvOf(p, pkgs) : SlotAtom[o] # SlotAtom[p]}}

\* conflicts: what is cached, or what is found among _multi_pkgs, which is cached.
MultiConflicts == ConflictsAmong({p \in cpPkgs : CpKey[p] \in multiPkgs})
Conflicts ==
  /\ conflictsCache = {}
  /\ conflictsCache' = {MultiConflicts}
  /\ UNCHANGED <<cpPkgs, vdbPkgs, multiPkgs, replacing, replacedBy, matchCache, providesIndex>>

PackageTrackerNext ==
  \/ \E p \in Packages : TrackPkg(p) \/ AddInstalledPkg(p) \/ RemovePkg(p)
  \/ \E q \in Queries, installed \in BOOLEAN : Match(q, installed)
  \/ Conflicts

PackageTrackerSpec == PackageTrackerInit /\ [][PackageTrackerNext]_trackerVars

PackageTrackerTypeOK ==
  /\ cpPkgs \subseteq Packages /\ vdbPkgs \subseteq Packages
  /\ multiPkgs \subseteq CpKeys
  /\ replacing \subseteq Packages \X Packages
  /\ replacedBy \subseteq Packages \X Packages
  /\ matchCache \in [Queries \X BOOLEAN -> SUBSET SUBSET Packages]
  /\ providesIndex \in [Sonames -> SUBSET Packages]

-----------------------------------------------------------------------------
(* Properties                                                              *)

\* What all_pkgs, contains and match may show of the installed packages: those
\* that no package to be installed replaces at this moment, whatever has been
\* added and taken back before.
Present(installed) ==
  cpPkgs \cup {i \in vdbPkgs : installed /\ ~ \E p \in cpPkgs : Covers(p, i)}

\* Every answer that match() keeps is what the lists say now, and so is the one
\* that it would give next.
MatchesTrue ==
  /\ Uncovered \cup cpPkgs = Present(TRUE)
  /\ \A q \in Queries, installed \in BOOLEAN :
       matchCache[<<q, installed>>] \subseteq {Matching[q] \cap Present(installed)}

\* The conflicts that are kept are all there are now, of every name.
ConflictsTrue == conflictsCache \cup {MultiConflicts} = {ConflictsAmong(cpPkgs)}

\* The resolver is never told of a package that it has taken back, of an
\* installed one that is being replaced, or of a conflict that is solved, and no
\* conflict or package is hidden from it: the caches and the indexes are what a
\* new tracker with the same packages would have.
AnswersTrue ==
  /\ MatchesTrue
  /\ ConflictsTrue
  /\ \A s \in Sonames : providesIndex[s] = {p \in cpPkgs : s \in Provides[p]}
=============================================================================
