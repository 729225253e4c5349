------------------------------ MODULE Resolver ------------------------------
(* The choice of packages: _backtrack_depgraph with its Backtracker, and what *)
(* one depgraph does: select a package for each atom, add it with its         *)
(* dependencies, complete the graph with the installed system, solve slot     *)
(* conflicts or turn them into masks for another try.                         *)
(*                                                                            *)
(* All versions of a name share one slot, all dependencies are run-time       *)
(* dependencies without choices, a package has one atom at most for a name    *)
(* and none for its own.  USE, masks of the configuration, binary packages,   *)
(* slot operators and sets other than world are left out.                     *)
EXTENDS Integers, SequencesExt, FiniteSetsExt

CONSTANTS Requests   \* what emerge may be asked for, see below

\* A package is <<name, version, type>>, an atom <<name, versions that match>>.  A request
\* has the ebuilds and the installed packages as <<name, version>>, the atoms each of them
\* depends on, the atoms on the command line and of the world set, --update, --deep, and
\* the number of --backtrack.
ASSUME RequestsAreKnown ==
  \A r \in Requests :
    /\ r.update \in BOOLEAN /\ r.deep \in BOOLEAN /\ r.retries \in Nat
    /\ \A i, j \in r.inst : i[1] = j[1] => i = j
    /\ \A nv \in r.avail \cup r.inst :
         LET d == r.deps[nv]
         IN  \A k, l \in DOMAIN d : d[k][1] # nv[1] /\ (d[k][1] = d[l][1] => k = l)

VARIABLES
  request,  \* what is asked for
  stage,    \* where the current depgraph is
  dg,       \* its state, see NewGraph
  search,   \* the backtracker and the loop around it
  success   \* what the last depgraph returned

resolverVars == <<request, stage, dg, search, success>>

Nothing   == <<>>
IsPkg(x)  == Len(x) = 3
IsInst(p) == p[3] = "installed"
Fits(atom, p) == p[1] = atom[1] /\ p[2] \in atom[2]

\* Parents that are no packages.
Arg(atom) == <<"arg", atom>>
WorldSet  == <<"world">>

Root == [mask |-> {}, steps |-> 0]

\* mask has <<package, reason, data>>: "slot conflict" with <<parent, atom>> pairs, or
\* "missing dependency".
NewGraph(mask, allow) ==
  [mask         |-> mask,   \* _runtime_pkg_mask
   allow        |-> allow,  \* _allow_backtracking
   tracker      |-> <<>>,   \* packages in the order they were pulled in
   multi        |-> <<>>,   \* _multi_pkgs: names with more than one package
   edges        |-> {},     \* digraph and _parent_atoms: <<package, parent, atom>>
   far          |-> {},     \* packages with _UNREACHABLE_DEPTH
   cache        |-> {},     \* _highest_pkg_cache: <<atom, package>>
   stack        |-> <<>>,   \* _dep_stack
   pool         |-> {},     \* packages put on it in any order
   ignored      |-> <<>>,   \* _ignored_deps
   unsat        |-> <<>>,   \* _unsatisfied_deps
   spared       |-> {},     \* _initially_unsatisfied_deps
   completeMode |-> FALSE,
   missing      |-> {},     \* _backtrack_infos["missing dependency"]
   conflicts    |-> <<>>,   \* _backtrack_infos["slot conflict"]
   needRestart  |-> FALSE,
   skipRestart  |-> FALSE,
   failed       |-> FALSE,
   forced       |-> {}]

PkgItem(p) == <<"package", p>>
DepItem(d) == <<"dependency", d>>
Dep(atom, parent, far, child) == [atom |-> atom, parent |-> parent, far |-> far, child |-> child]

-----------------------------------------------------------------------------
(* PackageTracker and queries                                              *)

Named(g, n) == SelectSeq(g.tracker, LAMBDA p : p[1] = n)
InGraph(g, n) == Named(g, n) # <<>>
LowestOf(s)  == s[CHOOSE i \in DOMAIN s :
                    \A j \in DOMAIN s : s[i][2] < s[j][2] \/ (s[i][2] = s[j][2] /\ i <= j)]
HighestOf(s) == s[CHOOSE i \in DOMAIN s :
                    \A j \in DOMAIN s : s[i][2] > s[j][2] \/ (s[i][2] = s[j][2] /\ i >= j)]
TopOf(S)     == CHOOSE p \in S : \A q \in S : q[2] <= p[2]

MaskedBy(mask) == {m[1] : m \in mask}
EbuildsFor(atom)   == {p \in {<<a[1], a[2], "ebuild">> : a \in request.avail} : Fits(atom, p)}
InstalledFor(atom) == {p \in {<<i[1], i[2], "installed">> : i \in request.inst} : Fits(atom, p)}
DepsOf(p) == request.deps[<<p[1], p[2]>>]
DeepNow(g) == request.deep \/ g.completeMode

ArgAtoms(g) ==
  {<<Arg(a), a>> : a \in ToSet(request.args)}
  \cup {<<WorldSet, a>> : a \in IF g.completeMode THEN ToSet(request.world) ELSE {}}
ArgsOf(g, p) == {pa \in ArgAtoms(g) : Fits(pa[2], p)}

WantInstalled(g, p) == request.update \/ ArgsOf(g, p) = {}
WantUpdate(g, p) ==
  ~g.completeMode /\ (ArgsOf(g, p) # {} \/ (request.update /\ request.deep))

-----------------------------------------------------------------------------
(* Package selection                                                       *)

\* An installed package is no candidate beside an ebuild if it is to be replaced by it, or
\* if it is to be updated and its own ebuild is gone.
Candidate(g, ebuilds, parent, i) ==
  /\ i \notin MaskedBy(g.mask)
  /\ ebuilds # {} =>
       /\ request.update \/ ArgsOf(g, TopOf(ebuilds)) = {}
       /\ \/ ~request.update
          \/ parent # Nothing /\ ~WantUpdate(g, i)
          \/ <<i[1], i[2]>> \in request.avail

\* The highest package in the graph is used again, as long as anything would do.
Reused(g, atom) ==
  LET here == Named(g, atom[1])
  IN  /\ (EbuildsFor(atom) \cup InstalledFor(atom)) \ MaskedBy(g.mask) # {}
      /\ here # <<>> /\ Fits(atom, HighestOf(here))

HighestAvailable(g, atom, parent) ==
  LET ebuilds == EbuildsFor(atom) \ MaskedBy(g.mask)
      reuse == Reused(g, atom)
      old == {i \in InstalledFor(atom) : Candidate(g, ebuilds, parent, i)}
      keep == \E i \in old :
                \/ parent # Nothing /\ ~WantUpdate(g, i)
                \/ ~request.update
                \/ \A e \in ebuilds : e[2] <= i[2]
  IN  CASE reuse -> HighestOf(Named(g, atom[1]))
        [] ~reuse /\ keep -> TopOf(old)
        [] ~reuse /\ ~keep /\ ebuilds # {} -> TopOf(ebuilds)
        [] ~reuse /\ ~keep /\ ebuilds = {} -> Nothing

FromGraph(g, atom) ==
  LET fitting == SelectSeq(g.tracker, LAMBDA p : Fits(atom, p))
      old == {i \in InstalledFor(atom) : ~InGraph(g, i[1])}
  IN  CASE fitting # <<>> -> HighestOf(fitting)
        [] fitting = <<>> /\ old # {} -> TopOf(old)
        [] fitting = <<>> /\ old = {} -> Nothing

\* _select_package: the cache does not know the parent that a choice was made for.
Cached(g, atom) == {c \in g.cache : c[1] = atom}
SelectPackage(g, atom, parent) ==
  IF g.completeMode THEN FromGraph(g, atom)
  ELSE IF Cached(g, atom) # {} THEN (CHOOSE c \in Cached(g, atom) : TRUE)[2]
  ELSE HighestAvailable(g, atom, parent)
Remember(g, atom, parent) ==
  IF g.completeMode THEN g
  ELSE [g EXCEPT !.cache = @ \cup {<<atom, SelectPackage(g, atom, parent)>>}]

-----------------------------------------------------------------------------
(* _add_pkg, _add_dep and _add_pkg_deps                                    *)

\* A package of the same name that the atom matches is used again; one that it does not
\* match stays beside the new one, as a slot conflict.
AddPkg(g, pkg, d) ==
  LET here == Named(g, pkg[1])
      reuse == here # <<>> /\ Fits(d.atom, LowestOf(here))
      p == IF reuse THEN LowestOf(here) ELSE pkg
      known == Contains(g.tracker, p)
      args == ArgsOf(g, p)
      near == \/ ~d.far
              \/ \E pa \in args : pa[1] # WorldSet
              \/ known /\ p \notin g.far
      g1 == IF known THEN g
            ELSE [g EXCEPT !.tracker = Append(@, p),
                           !.multi = IF Len(here) = 1 THEN Append(@, p[1]) ELSE @,
                           !.cache = {c \in @ : c[1][1] # p[1]}]
      g2 == [g1 EXCEPT !.edges = @ \cup {<<p, d.parent, d.atom>>}
                                   \cup {<<p, pa[1], pa[2]>> : pa \in args},
                       !.far = IF near THEN @ \ {p} ELSE @ \cup {p}]
  IN  IF known THEN g2
      ELSE IF IsInst(p) /\ ~DeepNow(g)
      THEN [g2 EXCEPT !.ignored = Append(@, PkgItem(p))]
      ELSE [g2 EXCEPT !.stack = Append(@, PkgItem(p))]

\* A masked package that all parents of a slot conflict matched.
MaskedNeedlessly(g, atom) ==
  \E p \in MaskedBy(g.mask) :
    Fits(atom, p) /\ {m \in g.mask : m[1] = p} = {<<p, "slot conflict", {}>>}

\* No package for d: an error, unless it was like that before.
Unsatisfied(g, d, allowUnsatisfied) ==
  LET wasSo == /\ g.completeMode /\ IsPkg(d.parent) /\ IsInst(d.parent)
               /\ d.parent \in g.far \/ ~request.deep
               /\ InstalledFor(d.atom) = {}
      hopeless == /\ g.allow /\ IsInst(d.parent) /\ d.parent \in MaskedBy(g.mask)
                  /\ EbuildsFor(d.atom) \cup InstalledFor(d.atom) = {}
  IN  IF allowUnsatisfied THEN [g EXCEPT !.unsat = Append(@, d)]
      ELSE IF wasSo \/ hopeless THEN [g EXCEPT !.spared = @ \cup {d}]
      ELSE IF ~g.allow THEN [g EXCEPT !.failed = TRUE]
      ELSE IF MaskedNeedlessly(g, d.atom)
      THEN [g EXCEPT !.failed = TRUE, !.skipRestart = TRUE]
      ELSE [g EXCEPT !.failed = TRUE, !.needRestart = TRUE, !.missing = {d}]

AddDep(g, d, allowUnsatisfied) ==
  LET g1 == IF d.child = Nothing THEN Remember(g, d.atom, Nothing) ELSE g
      p == IF d.child = Nothing THEN SelectPackage(g, d.atom, Nothing) ELSE d.child
  IN  IF p = Nothing THEN Unsatisfied(g1, d, allowUnsatisfied) ELSE AddPkg(g1, p, d)

MutIgnorable(g, atom, child) == InstalledFor(atom) # {}
\* _ignore_dependency: the dependency is satisfied, and only --deep would go further.
Ignorable(g, atom, child) ==
  /\ InstalledFor(atom) # {} /\ ~DeepNow(g)
  /\ child # Nothing /\ ~IsInst(child) /\ ~InGraph(g, child[1])
  /\ ArgsOf(g, child) = {}

\* All atoms get their package before the first one is added; those that have none come
\* first.
AddPkgDeps(g, p, allowUnsatisfied) ==
  LET deps == DepsOf(p)
      chosen == FoldLeft(LAMBDA h, a : Remember(h, a, p), g, deps)
      Child(a) == SelectPackage(chosen, a, p)
      without == SelectSeq(deps, LAMBDA a : Child(a) = Nothing)
      with == SelectSeq(deps, LAMBDA a : Child(a) # Nothing)
      Follow(h, a) ==
        IF h.failed THEN h
        ELSE IF Ignorable(h, a, Child(a))
        THEN [h EXCEPT !.ignored = Append(@, DepItem(Dep(a, p, p \in h.far, Nothing)))]
        ELSE AddDep(h, Dep(a, p, p \in h.far, Child(a)), allowUnsatisfied)
  IN  FoldLeft(Follow, chosen, without \o with)

\* One turn of _create_graph.
Popped(g, allowUnsatisfied) ==
  LET item == Last(g.stack)
      h == [g EXCEPT !.stack = Front(@)]
  IN  IF item[1] = "package" THEN AddPkgDeps(h, item[2], allowUnsatisfied)
      ELSE AddDep(h, item[2], allowUnsatisfied)

-----------------------------------------------------------------------------
(* _resolve: arguments, graph, completion                                  *)

StartTry ==
  /\ stage = "start"
  /\ LET node == Last(search.unexplored)
     IN  /\ search' = [search EXCEPT !.unexplored = Front(@), !.current = node]
         /\ dg' = NewGraph(node.mask, request.retries > 0)
  /\ stage' = "args"
  /\ UNCHANGED <<request, success>>

\* An argument for which there is nothing, or nothing but what is installed, ends the try.
AddArg(g, atom) ==
  LET p == SelectPackage(g, atom, Nothing)
  IN  IF g.failed \/ p = Nothing \/ (IsInst(p) /\ ~request.update)
      THEN [g EXCEPT !.failed = TRUE]
      ELSE AddPkg(Remember(g, atom, Nothing), p, Dep(atom, Arg(atom), FALSE, p))

AddArgs ==
  /\ stage = "args"
  /\ dg' = FoldLeft(AddArg, dg, request.args)
  /\ stage' = IF dg'.failed THEN "over" ELSE "create"
  /\ UNCHANGED <<request, search, success>>

CreateGraph ==
  /\ stage = "create" /\ dg.stack # <<>>
  /\ dg' = Popped(dg, FALSE)
  /\ stage' = IF dg'.failed THEN "over" ELSE stage
  /\ UNCHANGED <<request, search, success>>

MutCompleted(g) == g.multi # <<>>
\* Whether _complete_graph has anything to do: a conflict to backtrack from, or an
\* installed package that gets another version.
Completed(g) ==
  \/ g.allow /\ g.multi # <<>>
  \/ \E p \in ToSet(g.tracker) : ~IsInst(p) /\ \E i \in request.inst : i[1] = p[1] /\ i[2] # p[2]

CompleteGraph ==
  /\ stage = "create" /\ dg.stack = <<>>
  /\ IF ~Completed(dg)
     THEN dg' = dg /\ stage' = "solve"
     ELSE LET g == [dg EXCEPT !.completeMode = TRUE, !.cache = {}]
              roots == [k \in DOMAIN request.args |->
                          Dep(request.args[k], Arg(request.args[k]), TRUE, Nothing)]
                       \o [k \in DOMAIN request.world |->
                             Dep(request.world[k], WorldSet, TRUE, Nothing)]
              h == FoldLeft(LAMBDA x, d : AddDep(x, d, TRUE), g, roots)
          IN  /\ dg' = [h EXCEPT !.stack = @ \o h.ignored, !.ignored = <<>>]
              /\ stage' = "complete"
  /\ UNCHANGED <<request, search, success>>

\* An unsatisfied dependency that an installed package satisfied before pulls that package
\* in, as a slot conflict.
CompleteMore ==
  /\ stage = "complete"
  /\ \/ /\ dg.stack # <<>>
        /\ dg' = Popped(dg, TRUE) /\ stage' = stage
     \/ /\ dg.stack = <<>> /\ dg.unsat # <<>>
        /\ LET d == Last(dg.unsat)
               g == [dg EXCEPT !.unsat = Front(@)]
           IN  dg' = IF InstalledFor(d.atom) = {}
                     THEN [g EXCEPT !.spared = @ \cup {d}]
                     ELSE AddPkg(g, TopOf(InstalledFor(d.atom)), d)
        /\ stage' = stage
     \/ /\ dg.stack = <<>> /\ dg.unsat = <<>>
        /\ dg' = dg /\ stage' = "solve"
  /\ UNCHANGED <<request, search, success>>

-----------------------------------------------------------------------------
(* _solve_non_slot_operator_slot_conflicts                                 *)

InConflict(g) == UNION {ToSet(Named(g, n)) : n \in ToSet(g.multi)}
ParentsOf(g, p) == {e[2] : e \in {e \in g.edges : e[1] = p}}

\* The packages that are in the graph for packages of S only, step by step.
OnlyFor(g, S) ==
  LET grow[k \in 0 .. Len(g.tracker)] ==
        IF k = 0 THEN {}
        ELSE {p \in ToSet(g.tracker) \ S :
                ParentsOf(g, p) # {} /\ ParentsOf(g, p) \subseteq S \cup grow[k - 1]}
  IN  grow[Len(g.tracker)]

\* The packages of a conflict that the atom of an edge allows.
Allowed(g, e) ==
  LET conflict == Named(g, e[1][1])
      argParent == \E k \in DOMAIN conflict :
                     IsInst(conflict[k]) /\ ~WantInstalled(g, conflict[k])
  IN  SelectSeq(conflict, LAMBDA p : Fits(e[3], p) /\ ~(argParent /\ IsInst(p)))

\* conflict_graph, as <<node, what it needs one of>>; Nothing is the node for all parents
\* outside of the conflicts.
ConflictGraph(g) ==
  LET C == InConflict(g)
      I == OnlyFor(g, C)
      Node(x) == IF x \in C \cup I THEN x ELSE Nothing
  IN  {<<Node(e[2]), Allowed(g, e)>> : e \in {e \in g.edges : e[1] \in C}}
      \cup {<<Node(e[2]), <<e[1]>>>> : e \in {e \in g.edges : e[1] \in I}}
NonMatching(g) ==
  UNION {ToSet(Named(g, e[1][1])) :
           e \in {e \in g.edges : e[1] \in InConflict(g) /\ Allowed(g, e) = <<>>}}

\* S and what is needed for it without a choice.
Needed(g, S) ==
  LET G == ConflictGraph(g)
      to[k \in 0 .. Len(g.tracker)] ==
        IF k = 0 THEN S
        ELSE to[k - 1] \cup {r[2][1] : r \in {r \in G : r[1] \in to[k - 1] /\ Len(r[2]) = 1}}
  IN  to[Len(g.tracker)]

\* unexplored_tuples that no forced package satisfies.
OpenChoices(g) ==
  {r \in ConflictGraph(g) :
     /\ r[1] \in g.forced /\ Len(r[2]) > 1
     /\ ToSet(r[2]) \cap (g.forced \cup NonMatching(g)) = {}}

StartSolve ==
  /\ stage = "solve"
  /\ IF dg.multi = <<>>
     THEN dg' = dg /\ stage' = "judge"
     ELSE dg' = [dg EXCEPT !.forced = Needed(dg, {Nothing})] /\ stage' = "choose"
  /\ UNCHANGED <<request, search, success>>

\* The package that was pulled in first is taken.
Choose ==
  /\ stage = "choose"
  /\ \E r \in OpenChoices(dg) : dg' = [dg EXCEPT !.forced = Needed(dg, @ \cup {r[2][1]})]
  /\ UNCHANGED <<request, stage, search, success>>

\* _remove_pkg for each package of S, with what is parentless then.
WithoutPkgs(g, S) ==
  LET gone == S \cup OnlyFor(g, S)
      left == SelectSeq(g.tracker, LAMBDA p : p \notin gone)
  IN  [g EXCEPT !.tracker = left,
                !.multi = SelectSeq(@, LAMBDA n : Len(SelectSeq(left, LAMBDA p : p[1] = n)) > 1),
                !.edges = {e \in @ : e[1] \notin gone /\ e[2] \notin gone},
                !.far = @ \ gone,
                !.cache = IF S = {} THEN @ ELSE {}]

RemoveUnforced ==
  /\ stage = "choose" /\ OpenChoices(dg) = {}
  /\ LET forced == Needed(dg, dg.forced \cup NonMatching(dg)) \ {Nothing}
         nonForced == InConflict(dg) \ forced
         broken == {x \in UNION {ParentsOf(dg, p) : p \in nonForced} : IsPkg(x)} \ nonForced
         g == WithoutPkgs(dg, nonForced)
     IN  dg' = [g EXCEPT !.pool = (broken \cup forced) \cap ToSet(g.tracker)]
  /\ stage' = "again"
  /\ UNCHANGED <<request, search, success>>

\* "Process dependencies.  This cannot fail", and nobody looks whether it did.
CreateAgain ==
  /\ stage = "again"
  /\ \/ /\ dg.stack # <<>>
        /\ dg' = Popped(dg, FALSE)
     \/ /\ dg.stack = <<>>
        /\ \E p \in dg.pool :
             dg' = AddPkgDeps([dg EXCEPT !.pool = @ \ {p}], p, FALSE)
     \/ /\ dg.stack = <<>> /\ dg.pool = {}
        /\ dg' = dg
  /\ stage' = IF dg'.failed \/ (dg.stack = <<>> /\ dg.pool = {}) THEN "judge" ELSE stage
  /\ UNCHANGED <<request, search, success>>

-----------------------------------------------------------------------------
(* _process_slot_conflict and the end of a try                             *)

ParentAtoms(g, n) == {<<e[2], e[3]>> : e \in {e \in g.edges : e[1][1] = n}}
Misfits(g, p) ==
  {pa \in ParentAtoms(g, p[1]) : <<p, pa[1], pa[2]>> \notin g.edges /\ ~Fits(pa[2], p)}

\* The packages to mask, one after the other, with other versions that are no better; the
\* backtracker visits the last one first.
Alternatives(g, n) ==
  LET pkgs == Named(g, n)
      misfit == SelectSeq(pkgs, LAMBDA p : Misfits(g, p) # {})
      masks == IF Contains(misfit, LowestOf(pkgs)) THEN misfit
               ELSE Append(misfit, LowestOf(pkgs))
      Count(k) == Cardinality(Misfits(g, masks[k]))
      Before(k, l) ==
        \/ Count(k) < Count(l)
        \/ Count(k) = Count(l) /\ masks[k][2] > masks[l][2]
        \/ Count(k) = Count(l) /\ masks[k][2] = masks[l][2] /\ k < l
      order == SetToSortSeq(DOMAIN masks, Before)
      NoBetter(p, q) == {pa \in Misfits(g, p) : ~Fits(pa[2], q)}
      similar(p) ==
        {q \in EbuildsFor(<<n, {a[2] : a \in request.avail}>>) \ MaskedBy(g.mask) :
           ~Contains(masks, q) /\ NoBetter(p, q) # {}}
      Masking(p) == {<<p, Misfits(g, p)>>} \cup {<<q, NoBetter(p, q)>> : q \in similar(p)}
  IN  IF misfit = <<>> THEN <<>> ELSE [k \in DOMAIN order |-> Masking(masks[order[k]])]

Judge ==
  /\ stage = "judge"
  /\ LET all == [k \in DOMAIN dg.multi |-> Alternatives(dg, dg.multi[k])]
         found == SelectSeq(all, LAMBDA a : dg.allow /\ a # <<>>)
     IN  dg' = [dg EXCEPT !.conflicts = found, !.needRestart = @ \/ found # <<>>]
  /\ success' = (dg.multi = <<>> /\ ~(dg'.needRestart /\ ~dg.skipRestart))
  /\ stage' = "over"
  /\ UNCHANGED <<request, search>>

-----------------------------------------------------------------------------
(* Backtracker and _backtrack_depgraph                                     *)

MaxDepth == IF request.retries < 2 THEN 1 ELSE (request.retries + 1) \div 2

\* _check_runtime_pkg_mask: a mask is void if all parents that asked for it are masked.
Justified(mask) ==
  \A p \in MaskedBy(mask) :
    LET why == {m \in mask : m[1] = p}
    IN  \/ \E m \in why : m[2] = "missing dependency"
        \/ \E m \in why : m[3] = {} \/ \E pa \in m[3] : pa[1] \notin MaskedBy(mask)

AddNode(s, node) ==
  IF Justified(node.mask) /\ node.steps <= MaxDepth /\ node.mask \notin s.nodes
  THEN [s EXCEPT !.nodes = @ \cup {node.mask}, !.unexplored = Append(@, node)]
  ELSE s

SetMask(mask, p, reason, data) ==
  {m \in mask : m[1] # p \/ m[2] # reason} \cup {<<p, reason, data>>}
Deeper(s, mask) == [mask |-> mask, steps |-> s.current.steps + 1]

FeedbackSlotConflict(s, alternatives) ==
  FoldLeft(LAMBDA t, masking :
             AddNode(t, Deeper(t, {m \in t.current.mask :
                                     m[2] # "slot conflict" \/ m[1] \notin MaskedBy(masking)}
                                  \cup {<<x[1], "slot conflict", x[2]>> : x \in masking})),
           s, alternatives)
FeedbackMissingDep(s, d) ==
  AddNode(s, Deeper(s, SetMask(s.current.mask, d.parent, "missing dependency",
                               {<<d.parent, d.atom>>})))

Feedback(s) ==
  IF dg.conflicts # <<>> THEN FeedbackSlotConflict(s, dg.conflicts[1])
  ELSE FeedbackMissingDep(s, CHOOSE d \in dg.missing : TRUE)

\* The last try is made without masks and without backtracking.
BestRun(s) ==
  /\ search' = [s EXCEPT !.last = TRUE]
  /\ dg' = NewGraph(Root.mask, FALSE) /\ stage' = "args"

NextTry ==
  /\ stage = "over"
  /\ LET restart == dg.needRestart /\ ~dg.skipRestart
         again == /\ ~success /\ ~search.last /\ dg.allow
                  /\ search.tries < request.retries
                  /\ restart \/ search.unexplored # <<>>
         s == IF ~again THEN search
              ELSE [(IF restart THEN Feedback(search) ELSE search) EXCEPT !.tries = @ + 1]
     IN  \/ /\ again /\ s.unexplored # <<>>
            /\ search' = s /\ stage' = "start" /\ UNCHANGED dg
         \/ /\ ~(again /\ s.unexplored # <<>>)
            /\ ~success /\ ~search.last /\ s.tries > 0
            /\ BestRun(s)
         \/ /\ ~(again /\ s.unexplored # <<>>)
            /\ success \/ search.last \/ s.tries = 0
            /\ search' = s /\ stage' = "done" /\ UNCHANGED dg
  /\ UNCHANGED request
  /\ success' = (success /\ stage' = "done")

-----------------------------------------------------------------------------
Asked(S) ==
  /\ request \in S
  /\ stage = "start"
  /\ dg = NewGraph({}, TRUE)
  /\ search = [nodes |-> {Root.mask}, unexplored |-> <<Root>>, current |-> Root,
               tries |-> 0, last |-> FALSE]
  /\ success = FALSE
ResolverInit == Asked(Requests)
ResolverNext ==
  \/ StartTry \/ AddArgs \/ CreateGraph \/ CompleteGraph \/ CompleteMore
  \/ StartSolve \/ Choose \/ RemoveUnforced \/ CreateAgain \/ Judge \/ NextTry
ResolverSpec == ResolverInit /\ [][ResolverNext]_resolverVars

-----------------------------------------------------------------------------
\* What is there when the list has been merged.
Outcome ==
  ToSet(dg.tracker)
  \cup {i \in {<<i[1], i[2], "installed">> : i \in request.inst} : ~InGraph(dg, i[1])}
Met(atom, S) == \E p \in S : Fits(atom, p)
InstalledNow == {<<i[1], i[2], "installed">> : i \in request.inst}

\* Installed packages that the world set needs, along dependencies that are satisfied.
InUse ==
  LET to[k \in 0 .. Cardinality(InstalledNow)] ==
        IF k = 0 THEN {p \in InstalledNow : \E a \in ToSet(request.world) : Fits(a, p)}
        ELSE to[k - 1] \cup {p \in InstalledNow : \E q \in to[k - 1] :
                               \E a \in ToSet(DepsOf(q)) : Fits(a, p)}
  IN  to[Cardinality(InstalledNow)]

\* When _backtrack_depgraph reports success, the list leaves a system that works: no slot
\* holds two packages, the arguments and the dependencies of all new packages are met by
\* what will be there, nothing masked for this try is in the list, and no installed package
\* that the world set needs loses a dependency that was met before, nor the world set an
\* atom (_complete_graph, _process_slot_conflicts, Backtracker.feedback).
Consistent ==
  stage = "done" /\ success =>
    /\ dg.multi = <<>>
    /\ \A a \in ToSet(request.args) : Met(a, Outcome)
    /\ \A p \in ToSet(dg.tracker) :
         /\ p \notin MaskedBy(dg.mask)
         /\ ~IsInst(p) => \A a \in ToSet(DepsOf(p)) : Met(a, Outcome)
    /\ \A p \in Outcome \cap InUse :
         \A a \in ToSet(DepsOf(p)) : Met(a, InstalledNow) => Met(a, Outcome)
    /\ \A a \in ToSet(request.world) : Met(a, InstalledNow) => Met(a, Outcome)
=============================================================================
