------------------------ MODULE PackageTrackerProofs ------------------------
(***************************************************************************)
(* The caches and indexes of the PackageTracker are true after every       *)
(* sequence of operations, for any packages, atoms and sonames.            *)
(***************************************************************************)
EXTENDS PackageTracker, FiniteSetTheorems, TLAPS

\* The pairs in _replacing and _replaced_by are those of the two lists.
PairsTrue ==
  /\ replacing  = {r \in cpPkgs \X vdbPkgs : Covers(r[1], r[2])}
  /\ replacedBy = {r \in vdbPkgs \X cpPkgs : Covers(r[2], r[1])}

\* _multi_pkgs has the names with more than one package to be installed.
MultiTrue == multiPkgs = {key \in CpKeys : Cardinality(PkgsOf(key)) > 1}

\* A kept answer is the answer that the lists give.
CachedTrue ==
  /\ conflictsCache \subseteq {ConflictsAmong(cpPkgs)}
  /\ \A q \in Queries, installed \in BOOLEAN :
       matchCache[<<q, installed>>] \subseteq {Matching[q] \cap Present(installed)}

IndexTrueToList == \A s \in Sonames : providesIndex[s] = {p \in cpPkgs : s \in Provides[p]}

IInv == PackageTrackerTypeOK /\ PairsTrue /\ MultiTrue /\ CachedTrue /\ IndexTrueToList

\* A finite set has more than one element when two of its elements differ.
LEMMA TwoElements ==
  ASSUME NEW S, IsFiniteSet(S)
  PROVE  Cardinality(S) > 1 <=> \E x, y \in S : x # y
<1>1. Cardinality(S) \in Nat
  BY FS_CardinalityType
<1>2. ASSUME NEW x \in S, NEW y \in S, x # y PROVE Cardinality(S) > 1
  <2>1. IsFiniteSet({x}) /\ Cardinality({x}) = 1
    BY FS_Singleton
  <2>2. IsFiniteSet({x} \cup {y}) /\ Cardinality({x} \cup {y}) = 2
    <3>1. y \notin {x}
      BY <1>2
    <3>2. Cardinality({x} \cup {y}) = Cardinality({x}) + 1
      BY <2>1, <3>1, FS_AddElement
    <3>3. IsFiniteSet({x} \cup {y})
      BY <2>1, FS_AddElement
    <3> QED BY <2>1, <3>2, <3>3
  <2>3. {x} \cup {y} \subseteq S
    OBVIOUS
  <2>4. Cardinality({x} \cup {y}) <= Cardinality(S)
    BY <2>3, FS_Subset
  <2> QED BY <1>1, <2>2, <2>4
<1>3. ASSUME \A x, y \in S : x = y PROVE ~ (Cardinality(S) > 1)
  <2>1. CASE S = {}
    BY <2>1, FS_EmptySet
  <2>2. CASE S # {}
    <3>1. PICK x : x \in S
      BY <2>2
    <3>2. S = {x}
      BY <1>3, <3>1
    <3> QED BY <3>2, FS_Singleton
  <2> QED BY <2>1, <2>2
<1> QED BY <1>2, <1>3

\* The packages to be installed are finitely many.
LEMMA FinitePkgs ==
  ASSUME NEW S \in SUBSET Packages
  PROVE  IsFiniteSet(S) /\ (\A p : IsFiniteSet(InSlotOf(p, S)))
<1>1. IsFiniteSet(S)
  BY FS_Subset, PackageTrackerAssumption
<1>2. ASSUME NEW p PROVE IsFiniteSet(InSlotOf(p, S))
  BY <1>1, FS_Subset DEF InSlotOf
<1> QED BY <1>1, <1>2

\* The conflicts of a set of packages, without counting.
LEMMA ConflictsDiffer ==
  ASSUME NEW S \in SUBSET Packages
  PROVE  ConflictsAmong(S) =
           {[description |-> "slot", pkgs |-> InSlotOf(p, S)] :
              p \in {p \in S : \E o \in InSlotOf(p, S) : o # p}}
           \cup {[description |-> "cpv", pkgs |-> WithCpvOf(p, S)] :
              p \in {p \in S : \E o \in WithCpvOf(p, S) : SlotAtom[o] # SlotAtom[p]}}
<1>1. ASSUME NEW p \in S
      PROVE  Cardinality(InSlotOf(p, S)) > 1 <=> \E o \in InSlotOf(p, S) : o # p
  <2>1. Cardinality(InSlotOf(p, S)) > 1 <=> \E x, y \in InSlotOf(p, S) : x # y
    BY FinitePkgs, TwoElements
  <2>2. p \in InSlotOf(p, S)
    BY DEF InSlotOf
  <2> QED BY <2>1, <2>2
<1>2. {p \in S : Cardinality(InSlotOf(p, S)) > 1} = {p \in S : \E o \in InSlotOf(p, S) : o # p}
  BY <1>1
<1> QED BY <1>2 DEF ConflictsAmong

\* A package that is the only one of its name is in no conflict.
LEMMA LoneIsInNoConflict ==
  ASSUME NEW S \in SUBSET Packages, NEW p \in Packages,
         \A o \in S : CpKey[o] # CpKey[p]
  PROVE  ConflictsAmong(S \cup {p}) = ConflictsAmong(S)
<1> DEFINE T == S \cup {p}
<1>1. \A o \in S : InSlotOf(o, T) = InSlotOf(o, S) /\ WithCpvOf(o, T) = WithCpvOf(o, S)
  BY DEF InSlotOf, WithCpvOf
<1>2. InSlotOf(p, T) = {p} /\ WithCpvOf(p, T) = {p}
  BY DEF InSlotOf, WithCpvOf
<1>3. {o \in T : \E x \in InSlotOf(o, T) : x # o} = {o \in S : \E x \in InSlotOf(o, S) : x # o}
  BY <1>1, <1>2
<1>4. {o \in T : \E x \in WithCpvOf(o, T) : SlotAtom[x] # SlotAtom[o]}
        = {o \in S : \E x \in WithCpvOf(o, S) : SlotAtom[x] # SlotAtom[o]}
  BY <1>1, <1>2
<1>5. {[description |-> "slot", pkgs |-> InSlotOf(o, T)] :
              o \in {o \in T : \E x \in InSlotOf(o, T) : x # o}}
        = {[description |-> "slot", pkgs |-> InSlotOf(o, S)] :
              o \in {o \in S : \E x \in InSlotOf(o, S) : x # o}}
  <2> DEFINE A == {o \in T : \E x \in InSlotOf(o, T) : x # o}
             B == {o \in S : \E x \in InSlotOf(o, S) : x # o}
  <2>1. A = B /\ B \subseteq S
    BY <1>3
  <2>2. \A o \in B : InSlotOf(o, T) = InSlotOf(o, S)
    BY <1>1, <2>1
  <2> HIDE DEF A, B, T
  <2>3. {[description |-> "slot", pkgs |-> InSlotOf(o, T)] : o \in A}
          = {[description |-> "slot", pkgs |-> InSlotOf(o, S)] : o \in B}
    BY <2>1, <2>2
  <2> QED BY <2>3 DEF A, B
<1>6. {[description |-> "cpv", pkgs |-> WithCpvOf(o, T)] :
              o \in {o \in T : \E x \in WithCpvOf(o, T) : SlotAtom[x] # SlotAtom[o]}}
        = {[description |-> "cpv", pkgs |-> WithCpvOf(o, S)] :
              o \in {o \in S : \E x \in WithCpvOf(o, S) : SlotAtom[x] # SlotAtom[o]}}
  <2> DEFINE A == {o \in T : \E x \in WithCpvOf(o, T) : SlotAtom[x] # SlotAtom[o]}
             B == {o \in S : \E x \in WithCpvOf(o, S) : SlotAtom[x] # SlotAtom[o]}
  <2>1. A = B /\ B \subseteq S
    BY <1>4
  <2>2. \A o \in B : WithCpvOf(o, T) = WithCpvOf(o, S)
    BY <1>1, <2>1
  <2> HIDE DEF A, B, T
  <2>3. {[description |-> "cpv", pkgs |-> WithCpvOf(o, T)] : o \in A}
          = {[description |-> "cpv", pkgs |-> WithCpvOf(o, S)] : o \in B}
    BY <2>1, <2>2
  <2> QED BY <2>3 DEF A, B
<1>7. T \in SUBSET Packages
  OBVIOUS
<1> QED BY <1>5, <1>6, <1>7, ConflictsDiffer

\* The names in _multi_pkgs are all that can be in conflict.
LEMMA MultiIsEnough ==
  ASSUME PackageTrackerTypeOK, MultiTrue
  PROVE  MultiConflicts = ConflictsAmong(cpPkgs)
<1> DEFINE M == {p \in cpPkgs : CpKey[p] \in multiPkgs}
<1>1. M \in SUBSET Packages /\ cpPkgs \in SUBSET Packages
  BY DEF PackageTrackerTypeOK
<1>2. ASSUME NEW p \in cpPkgs, NEW o \in cpPkgs, o # p, CpKey[o] = CpKey[p]
      PROVE  p \in M
  <2>1. IsFiniteSet(PkgsOf(CpKey[p]))
    BY <1>1, FinitePkgs, FS_Subset DEF PkgsOf
  <2>2. p \in PkgsOf(CpKey[p]) /\ o \in PkgsOf(CpKey[p])
    BY <1>2 DEF PkgsOf
  <2>3. Cardinality(PkgsOf(CpKey[p])) > 1
    BY <1>2, <2>1, <2>2, TwoElements
  <2>4. CpKey[p] \in CpKeys
    BY <1>1, PackageTrackerAssumption
  <2> QED BY <2>3, <2>4 DEF MultiTrue
<1>3. \A p \in M : InSlotOf(p, M) = InSlotOf(p, cpPkgs) /\ WithCpvOf(p, M) = WithCpvOf(p, cpPkgs)
  BY DEF InSlotOf, WithCpvOf
<1>4. {p \in M : \E x \in InSlotOf(p, M) : x # p}
        = {p \in cpPkgs : \E x \in InSlotOf(p, cpPkgs) : x # p}
  BY <1>2, <1>3 DEF InSlotOf
<1>5. {p \in M : \E x \in WithCpvOf(p, M) : SlotAtom[x] # SlotAtom[p]}
        = {p \in cpPkgs : \E x \in WithCpvOf(p, cpPkgs) : SlotAtom[x] # SlotAtom[p]}
  BY <1>2, <1>3 DEF WithCpvOf
<1>6. {[description |-> "slot", pkgs |-> InSlotOf(p, M)] :
              p \in {p \in M : \E x \in InSlotOf(p, M) : x # p}}
        = {[description |-> "slot", pkgs |-> InSlotOf(p, cpPkgs)] :
              p \in {p \in cpPkgs : \E x \in InSlotOf(p, cpPkgs) : x # p}}
  BY <1>3, <1>4
<1>7. {[description |-> "cpv", pkgs |-> WithCpvOf(p, M)] :
              p \in {p \in M : \E x \in WithCpvOf(p, M) : SlotAtom[x] # SlotAtom[p]}}
        = {[description |-> "cpv", pkgs |-> WithCpvOf(p, cpPkgs)] :
              p \in {p \in cpPkgs : \E x \in WithCpvOf(p, cpPkgs) : SlotAtom[x] # SlotAtom[p]}}
  BY <1>3, <1>5
<1> QED BY <1>1, <1>6, <1>7, ConflictsDiffer DEF MultiConflicts

\* What the invariant says of the answers.
LEMMA InvariantAnswers == IInv => AnswersTrue
<1> SUFFICES ASSUME IInv PROVE AnswersTrue
  OBVIOUS
<1> USE DEF IInv
<1>1. Uncovered \cup cpPkgs = Present(TRUE)
  <2>1. ASSUME NEW i \in vdbPkgs
        PROVE  (\E r \in replacedBy : r[1] = i) <=> \E p \in cpPkgs : Covers(p, i)
    <3>1. ASSUME NEW p \in cpPkgs, Covers(p, i) PROVE \E r \in replacedBy : r[1] = i
      <4>1. <<i, p>> \in replacedBy /\ <<i, p>>[1] = i
        BY <3>1 DEF PairsTrue
      <4> QED BY <4>1
    <3>2. ASSUME NEW r \in replacedBy, r[1] = i PROVE \E p \in cpPkgs : Covers(p, i)
      BY <3>2 DEF PairsTrue
    <3> QED BY <3>1, <3>2
  <2> QED BY <2>1 DEF Uncovered, Present
<1>2. ConflictsTrue
  BY MultiIsEnough DEF CachedTrue, ConflictsTrue
<1> QED BY <1>1, <1>2 DEF AnswersTrue, MatchesTrue, CachedTrue, IndexTrueToList

LEMMA InitialInvariant == PackageTrackerInit => IInv
<1> SUFFICES ASSUME PackageTrackerInit PROVE IInv
  OBVIOUS
<1> USE DEF PackageTrackerInit
<1>1. MultiTrue
  <2>1. \A key : PkgsOf(key) = {}
    BY DEF PkgsOf
  <2>2. Cardinality({}) = 0
    BY FS_EmptySet
  <2>3. \A key : Cardinality(PkgsOf(key)) = 0
    BY <2>1, <2>2
  <2> QED BY <2>3 DEF MultiTrue
<1>2. CachedTrue
  BY DEF CachedTrue
<1>3. PackageTrackerTypeOK
  BY DEF PackageTrackerTypeOK
<1> QED BY <1>1, <1>2, <1>3 DEF IInv, PairsTrue, IndexTrueToList

\* Adding or removing a package of one name leaves the answers about another
\* name as they are.
LEMMA OthersKept ==
  ASSUME PackageTrackerTypeOK, CachedTrue, NEW p \in Packages,
         matchCache' = Forgotten(CpKey[p]),
         \A o \in Packages :
           CpKey[o] # CpKey[p] => (o \in cpPkgs' <=> o \in cpPkgs) /\ (o \in vdbPkgs' <=> o \in vdbPkgs),
         cpPkgs' \subseteq Packages, vdbPkgs' \subseteq Packages
  PROVE  /\ matchCache' \in [Queries \X BOOLEAN -> SUBSET SUBSET Packages]
         /\ \A q \in Queries, installed \in BOOLEAN :
              matchCache'[<<q, installed>>] \subseteq {Matching[q] \cap Present(installed)'}
<1>1. matchCache' \in [Queries \X BOOLEAN -> SUBSET SUBSET Packages]
  BY DEF Forgotten, PackageTrackerTypeOK
<1>2. ASSUME NEW q \in Queries, NEW installed \in BOOLEAN
      PROVE  matchCache'[<<q, installed>>] \subseteq {Matching[q] \cap Present(installed)'}
  <2>1. CASE QueryKey[q] = CpKey[p]
    BY <2>1 DEF Forgotten
  <2>2. CASE QueryKey[q] # CpKey[p]
    <3>1. matchCache'[<<q, installed>>] = matchCache[<<q, installed>>]
      BY <2>2 DEF Forgotten
    <3>2. \A o \in Matching[q] : o \in Packages /\ CpKey[o] # CpKey[p]
      BY <2>2, PackageTrackerAssumption
    <3>3. \A o \in Matching[q] : o \in Present(installed)' <=> o \in Present(installed)
      <4> SUFFICES ASSUME NEW o \in Matching[q]
                   PROVE  o \in Present(installed)' <=> o \in Present(installed)
        OBVIOUS
      <4>1. \A n \in Packages : Covers(n, o) => (n \in cpPkgs' <=> n \in cpPkgs)
        BY <3>2 DEF Covers
      <4> QED BY <3>2, <4>1 DEF Present, PackageTrackerTypeOK
    <3>4. Matching[q] \cap Present(installed)' = Matching[q] \cap Present(installed)
      BY <3>3
    <3> QED BY <3>1, <3>4 DEF CachedTrue
  <2> QED BY <2>1, <2>2
<1> QED BY <1>1, <1>2

\* add_pkg.
LEMMA AddKeeps ==
  ASSUME IInv, NEW p \in Packages, TrackPkg(p)
  PROVE  IInv'
<1> USE DEF IInv, PackageTrackerTypeOK, TrackPkg
<1> DEFINE key == CpKey[p]
<1>1. key \in CpKeys /\ IsFiniteSet(PkgsOf(key)) /\ Cardinality(PkgsOf(key)) \in Nat
  BY PackageTrackerAssumption, FinitePkgs, FS_Subset, FS_CardinalityType DEF PkgsOf
<1>2. PkgsOf(key)' = PkgsOf(key) \cup {p} /\ Cardinality(PkgsOf(key)') = Cardinality(PkgsOf(key)) + 1
  <2>1. PkgsOf(key)' = PkgsOf(key) \cup {p} /\ p \notin PkgsOf(key)
    BY DEF PkgsOf
  <2> QED BY <1>1, <2>1, FS_AddElement
<1>3. \A other : other # key => PkgsOf(other)' = PkgsOf(other)
  BY DEF PkgsOf
<1>4. MultiTrue'
  <2>1. ASSUME NEW other \in CpKeys
        PROVE  other \in multiPkgs' <=> Cardinality(PkgsOf(other)') > 1
    <3>1. CASE other = key
      <4>1. other \in multiPkgs <=> Cardinality(PkgsOf(key)) > 1
        BY <3>1 DEF MultiTrue
      <4>2. other \in multiPkgs' <=> other \in multiPkgs \/ Cardinality(PkgsOf(key)) + 1 = 2
        BY <3>1
      <4>3. PkgsOf(other)' = PkgsOf(key)'
        BY <3>1 DEF PkgsOf
      <4>4. Cardinality(PkgsOf(other)') = Cardinality(PkgsOf(key)) + 1
        BY <1>2, <4>3
      <4> HIDE DEF key
      <4> QED BY <1>1, <4>1, <4>2, <4>4
    <3>2. CASE other # key
      <4>1. PkgsOf(other)' = PkgsOf(other)
        BY <1>3, <3>2
      <4>2. other \in multiPkgs' <=> other \in multiPkgs
        BY <3>2
      <4> QED BY <4>1, <4>2 DEF MultiTrue
    <3> QED BY <3>1, <3>2
  <2>2. multiPkgs' \subseteq CpKeys
    BY <1>1
  <2> QED BY <2>1, <2>2 DEF MultiTrue
<1>5. PairsTrue'
  <2>1. replacing' = {r \in cpPkgs' \X vdbPkgs' : Covers(r[1], r[2])}
    BY DEF PairsTrue
  <2>2. replacedBy' = {r \in vdbPkgs' \X cpPkgs' : Covers(r[2], r[1])}
    BY DEF PairsTrue, Covers
  <2> QED BY <2>1, <2>2 DEF PairsTrue, Covers
<1>6. conflictsCache' \subseteq {ConflictsAmong(cpPkgs')}
  <2>1. CASE PkgsOf(key) = {}
    <3>1. \A o \in cpPkgs : CpKey[o] # CpKey[p]
      BY <2>1 DEF PkgsOf
    <3>2. ConflictsAmong(cpPkgs \cup {p}) = ConflictsAmong(cpPkgs)
      BY <3>1, LoneIsInNoConflict
    <3>3. conflictsCache' = {} \/ conflictsCache' = conflictsCache
      OBVIOUS
    <3> QED BY <3>2, <3>3 DEF CachedTrue
  <2>2. CASE PkgsOf(key) # {}
    <3>1. Cardinality(PkgsOf(key)) # 0
      BY <1>1, <2>2, FS_EmptySet
    <3> QED BY <1>1, <3>1
  <2> QED BY <2>1, <2>2
<1>7. /\ matchCache' \in [Queries \X BOOLEAN -> SUBSET SUBSET Packages]
      /\ \A q \in Queries, installed \in BOOLEAN :
           matchCache'[<<q, installed>>] \subseteq {Matching[q] \cap Present(installed)'}
  <2>1. matchCache' = Forgotten(CpKey[p])
    OBVIOUS
  <2>2. \A o \in Packages :
          CpKey[o] # CpKey[p] => (o \in cpPkgs' <=> o \in cpPkgs) /\ (o \in vdbPkgs' <=> o \in vdbPkgs)
    OBVIOUS
  <2>3. cpPkgs' \subseteq Packages /\ vdbPkgs' \subseteq Packages
    OBVIOUS
  <2> HIDE DEF PackageTrackerTypeOK, TrackPkg
  <2> QED BY <2>1, <2>2, <2>3, OthersKept
<1>8. IndexTrueToList'
  BY DEF IndexTrueToList
<1>9. PackageTrackerTypeOK'
  <2>1. replacing' \subseteq Packages \X Packages /\ replacedBy' \subseteq Packages \X Packages
    BY <1>5 DEF PairsTrue
  <2>2. providesIndex' \in [Sonames -> SUBSET Packages]
    OBVIOUS
  <2> QED BY <1>1, <1>7, <2>1, <2>2
<1> QED BY <1>4, <1>5, <1>6, <1>7, <1>8, <1>9 DEF CachedTrue

\* remove_pkg.
LEMMA RemoveKeeps ==
  ASSUME IInv, NEW p \in Packages, RemovePkg(p)
  PROVE  IInv'
<1> USE DEF IInv, PackageTrackerTypeOK, RemovePkg
<1> DEFINE key == CpKey[p]
<1>1. key \in CpKeys /\ IsFiniteSet(PkgsOf(key)) /\ Cardinality(PkgsOf(key)) \in Nat
  BY PackageTrackerAssumption, FinitePkgs, FS_Subset, FS_CardinalityType DEF PkgsOf
<1>2. PkgsOf(key)' = PkgsOf(key) \ {p} /\ Cardinality(PkgsOf(key)') = Cardinality(PkgsOf(key)) - 1
  <2>1. PkgsOf(key)' = PkgsOf(key) \ {p} /\ p \in PkgsOf(key)
    BY DEF PkgsOf
  <2>2. Cardinality(PkgsOf(key) \ {p}) = Cardinality(PkgsOf(key)) - 1
    BY <1>1, <2>1, FS_RemoveElement
  <2> QED BY <2>1, <2>2
<1>3. \A other : other # key => PkgsOf(other)' = PkgsOf(other)
  BY DEF PkgsOf
<1>4. MultiTrue'
  <2>1. ASSUME NEW other \in CpKeys
        PROVE  other \in multiPkgs' <=> Cardinality(PkgsOf(other)') > 1
    <3>1. CASE other = key
      <4>1. other \in multiPkgs <=> Cardinality(PkgsOf(key)) > 1
        BY <3>1 DEF MultiTrue
      <4>2. other \in multiPkgs' <=> other \in multiPkgs /\ Cardinality(PkgsOf(key)) - 1 # 1
        BY <3>1
      <4>3. PkgsOf(other)' = PkgsOf(key)'
        BY <3>1 DEF PkgsOf
      <4>4. Cardinality(PkgsOf(other)') = Cardinality(PkgsOf(key)) - 1
        BY <1>2, <4>3
      <4> HIDE DEF key
      <4> QED BY <1>1, <4>1, <4>2, <4>4
    <3>2. CASE other # key
      <4>1. PkgsOf(other)' = PkgsOf(other)
        BY <1>3, <3>2
      <4>2. other \in multiPkgs' <=> other \in multiPkgs
        BY <3>2
      <4> QED BY <4>1, <4>2 DEF MultiTrue
    <3> QED BY <3>1, <3>2
  <2>2. multiPkgs' \subseteq CpKeys
    OBVIOUS
  <2> QED BY <2>1, <2>2 DEF MultiTrue
<1>5. PairsTrue'
  <2>1. replacing' = {r \in cpPkgs' \X vdbPkgs' : Covers(r[1], r[2])}
    BY DEF PairsTrue
  <2>2. replacedBy' = {r \in vdbPkgs' \X cpPkgs' : Covers(r[2], r[1])}
    <3> DEFINE gone == {<<r[2], p>> : r \in {r \in replacing : r[1] = p}}
    <3>1. ASSUME NEW i \in vdbPkgs, Covers(p, i) PROVE <<i, p>> \in gone
      <4>1. <<p, i>> \in {r \in replacing : r[1] = p} /\ <<p, i>>[2] = i
        BY <3>1 DEF PairsTrue
      <4> QED BY <4>1
    <3>2. \A x \in gone : x[2] = p
      OBVIOUS
    <3>3. replacedBy' = replacedBy \ gone
      OBVIOUS
    <3> HIDE DEF gone
    <3>4. {r \in replacedBy : r[2] # p} \subseteq replacedBy'
      BY <3>2, <3>3
    <3>5. \A r \in replacedBy : r[2] = p => r \in gone
      BY <3>1 DEF PairsTrue
    <3>6. replacedBy' = {r \in replacedBy : r[2] # p}
      BY <3>3, <3>4, <3>5
    <3> QED BY <3>6 DEF PairsTrue
  <2> QED BY <2>1, <2>2 DEF PairsTrue, Covers
<1>6. conflictsCache' \subseteq {ConflictsAmong(cpPkgs')}
  <2>1. CASE PkgsOf(key) \ {p} = {}
    <3>1. \A o \in cpPkgs' : CpKey[o] # CpKey[p]
      BY <2>1 DEF PkgsOf
    <3>2. cpPkgs' \cup {p} = cpPkgs /\ cpPkgs' \in SUBSET Packages
      OBVIOUS
    <3>3. ConflictsAmong(cpPkgs' \cup {p}) = ConflictsAmong(cpPkgs')
      BY <3>1, <3>2, LoneIsInNoConflict
    <3>4. conflictsCache' = {} \/ conflictsCache' = conflictsCache
      OBVIOUS
    <3> QED BY <3>2, <3>3, <3>4 DEF CachedTrue
  <2>2. CASE PkgsOf(key) \ {p} # {}
    <3>1. IsFiniteSet(PkgsOf(key) \ {p})
      BY <1>1, FS_RemoveElement
    <3>2. Cardinality(PkgsOf(key) \ {p}) # 0
      BY <2>2, <3>1, FS_EmptySet
    <3>3. Cardinality(PkgsOf(key)) - 1 \in Nat
      BY <1>2, <3>1, FS_CardinalityType
    <3>4. Cardinality(PkgsOf(key)) - 1 > 0
      BY <1>1, <1>2, <3>2, <3>3
    <3>5. conflictsCache' = {}
      BY <3>4
    <3> QED BY <3>5
  <2> QED BY <2>1, <2>2
<1>7. /\ matchCache' \in [Queries \X BOOLEAN -> SUBSET SUBSET Packages]
      /\ \A q \in Queries, installed \in BOOLEAN :
           matchCache'[<<q, installed>>] \subseteq {Matching[q] \cap Present(installed)'}
  <2>1. matchCache' = Forgotten(CpKey[p])
    OBVIOUS
  <2>2. \A o \in Packages :
          CpKey[o] # CpKey[p] => (o \in cpPkgs' <=> o \in cpPkgs) /\ (o \in vdbPkgs' <=> o \in vdbPkgs)
    OBVIOUS
  <2>3. cpPkgs' \subseteq Packages /\ vdbPkgs' \subseteq Packages
    OBVIOUS
  <2> HIDE DEF PackageTrackerTypeOK, RemovePkg
  <2> QED BY <2>1, <2>2, <2>3, OthersKept
<1>8. IndexTrueToList'
  BY DEF IndexTrueToList
<1>9. PackageTrackerTypeOK'
  <2>1. replacing' \subseteq Packages \X Packages /\ replacedBy' \subseteq Packages \X Packages
    BY <1>5 DEF PairsTrue
  <2>2. providesIndex' \in [Sonames -> SUBSET Packages]
    OBVIOUS
  <2> QED BY <1>7, <2>1, <2>2
<1> QED BY <1>4, <1>5, <1>6, <1>7, <1>8, <1>9 DEF CachedTrue

\* add_installed_pkg.
LEMMA AddInstalledKeeps ==
  ASSUME IInv, NEW p \in Packages, AddInstalledPkg(p)
  PROVE  IInv'
<1> USE DEF IInv, PackageTrackerTypeOK, AddInstalledPkg
<1>1. MultiTrue' /\ IndexTrueToList'
  BY DEF MultiTrue, PkgsOf, IndexTrueToList
<1>2. PairsTrue'
  <2>1. replacing' = {r \in cpPkgs' \X vdbPkgs' : Covers(r[1], r[2])}
    BY DEF PairsTrue
  <2>2. replacedBy' = {r \in vdbPkgs' \X cpPkgs' : Covers(r[2], r[1])}
    BY DEF PairsTrue
  <2> QED BY <2>1, <2>2 DEF PairsTrue, Covers
<1>3. /\ matchCache' \in [Queries \X BOOLEAN -> SUBSET SUBSET Packages]
      /\ \A q \in Queries, installed \in BOOLEAN :
           matchCache'[<<q, installed>>] \subseteq {Matching[q] \cap Present(installed)'}
  <2>1. matchCache' = Forgotten(CpKey[p])
    OBVIOUS
  <2>2. \A o \in Packages :
          CpKey[o] # CpKey[p] => (o \in cpPkgs' <=> o \in cpPkgs) /\ (o \in vdbPkgs' <=> o \in vdbPkgs)
    OBVIOUS
  <2>3. cpPkgs' \subseteq Packages /\ vdbPkgs' \subseteq Packages
    OBVIOUS
  <2> HIDE DEF PackageTrackerTypeOK, AddInstalledPkg
  <2> QED BY <2>1, <2>2, <2>3, OthersKept
<1>4. conflictsCache' \subseteq {ConflictsAmong(cpPkgs')}
  BY DEF CachedTrue
<1>5. PackageTrackerTypeOK'
  <2>1. replacing' \subseteq Packages \X Packages /\ replacedBy' \subseteq Packages \X Packages
    BY <1>2 DEF PairsTrue
  <2> QED BY <1>3, <2>1
<1> QED BY <1>1, <1>2, <1>3, <1>4, <1>5 DEF CachedTrue

\* match: what it caches is what the lists say.
LEMMA MatchKeeps ==
  ASSUME IInv, NEW q \in Queries, NEW installed \in BOOLEAN, Match(q, installed)
  PROVE  IInv'
<1> USE DEF IInv, PackageTrackerTypeOK, Match
<1> DEFINE answer == Matching[q] \cap (cpPkgs \cup IF installed THEN Uncovered ELSE {})
<1>1. MultiTrue' /\ IndexTrueToList' /\ PairsTrue'
  BY DEF MultiTrue, PkgsOf, IndexTrueToList, PairsTrue, Covers
<1>2. answer = Matching[q] \cap Present(installed)
  <2>1. Uncovered \cup cpPkgs = Present(TRUE)
    BY InvariantAnswers DEF AnswersTrue, MatchesTrue
  <2>2. CASE installed
    BY <2>1, <2>2 DEF Present
  <2>3. CASE ~ installed
    BY <2>3 DEF Present
  <2> QED BY <2>2, <2>3
<1>3. matchCache' = [matchCache EXCEPT ![<<q, installed>>] = {answer}]
  OBVIOUS
<1>4. answer \in SUBSET Packages
  BY DEF Uncovered
<1>5. matchCache' \in [Queries \X BOOLEAN -> SUBSET SUBSET Packages]
  BY <1>3, <1>4
<1>6. ASSUME NEW o \in Queries, NEW b \in BOOLEAN
      PROVE  matchCache'[<<o, b>>] \subseteq {Matching[o] \cap Present(b)'}
  <2>1. Present(b)' = Present(b)
    BY DEF Present, Covers
  <2>2. CASE o = q /\ b = installed
    BY <1>2, <1>3, <2>1, <2>2
  <2>3. CASE ~ (o = q /\ b = installed)
    <3>1. matchCache'[<<o, b>>] = matchCache[<<o, b>>]
      BY <1>3, <2>3
    <3> QED BY <2>1, <3>1 DEF CachedTrue
  <2> QED BY <2>2, <2>3
<1>7. PackageTrackerTypeOK'
  BY <1>5
<1> QED BY <1>1, <1>6, <1>7 DEF CachedTrue

\* conflicts: what it caches is what the lists say.
LEMMA ConflictsKeep == IInv /\ Conflicts => IInv'
<1> SUFFICES ASSUME IInv, Conflicts PROVE IInv'
  OBVIOUS
<1> USE DEF IInv, PackageTrackerTypeOK, Conflicts
<1>1. MultiTrue' /\ IndexTrueToList' /\ PairsTrue' /\ PackageTrackerTypeOK'
  BY DEF MultiTrue, PkgsOf, IndexTrueToList, PairsTrue, Covers
<1>2. conflictsCache' \subseteq {ConflictsAmong(cpPkgs')}
  BY MultiIsEnough
<1>3. \A q \in Queries, installed \in BOOLEAN :
        matchCache'[<<q, installed>>] \subseteq {Matching[q] \cap Present(installed)'}
  BY DEF CachedTrue, Present, Covers
<1> QED BY <1>1, <1>2, <1>3 DEF CachedTrue

\* The caches and the indexes of the tracker always hold what a new tracker with
\* the same packages would answer: package_tracker.py.
THEOREM TrackerAnswersTrue == PackageTrackerSpec => []AnswersTrue
<1>1. IInv /\ [PackageTrackerNext]_trackerVars => IInv'
  <2> SUFFICES ASSUME IInv, [PackageTrackerNext]_trackerVars PROVE IInv'
    OBVIOUS
  <2>1. CASE \E p \in Packages : TrackPkg(p) \/ AddInstalledPkg(p) \/ RemovePkg(p)
    BY <2>1, AddKeeps, AddInstalledKeeps, RemoveKeeps
  <2>2. CASE \E q \in Queries, installed \in BOOLEAN : Match(q, installed)
    BY <2>2, MatchKeeps
  <2>3. CASE Conflicts
    BY <2>3, ConflictsKeep
  <2>4. CASE UNCHANGED trackerVars
    BY <2>4 DEF trackerVars, IInv, PackageTrackerTypeOK, PairsTrue, MultiTrue, PkgsOf,
                CachedTrue, Present, Covers, IndexTrueToList
  <2> QED BY <2>1, <2>2, <2>3, <2>4 DEF PackageTrackerNext
<1> QED BY <1>1, InitialInvariant, InvariantAnswers, PTL DEF PackageTrackerSpec
=============================================================================
