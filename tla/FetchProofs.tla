---------------------------- MODULE FetchProofs ----------------------------
(***************************************************************************)
(* Fetching, for any number of processes of each kind, files, locations    *)
(* and tries: a file that a build has been promised is good and stays so,  *)
(* nobody writes where another one does, what is not as it should be is    *)
(* kept under another name, and every location is tried (FetchSafe,        *)
(* NothingLost and Exhausted).                                             *)
(***************************************************************************)
EXTENDS Fetch, WellFoundedInduction, TLAPS

FetchPlaces == {"idle", "next", "lock", "check", "mirrors", "present", "uris", "layout",
                "layoutfetch", "command", "running", "unlock"}
Vars == [todo : SUBSET Distfiles, cur : Distfiles \cup {""}, loc : Locations \cup {""},
         uris : Seq(Locations), tried : SUBSET Locations, fetched : {0, 1, 2}, fails : Nat,
         space : BOOLEAN, cache : SUBSET Locations, failed : SUBSET Distfiles]

FetchTyped ==
  /\ final \in [Distfiles -> Versions \cup {"link"}] /\ down \in [Distfiles -> Versions]
  /\ saved \in [Distfiles -> SUBSET Versions]
  /\ ro \in [Distfiles -> Versions] /\ fsm \in [Distfiles -> Versions]
  /\ locks \in [Distfiles \cup Mirrors -> Fetchers \cup {NoFetcher}]
  /\ layouts \subseteq Locations
  /\ fpc \in [Fetchers -> FetchPlaces] /\ fv \in [Fetchers -> Vars]
  /\ outcome \in [Fetchers -> {"none", "ok", "failed", "killed"}]
  /\ termed \subseteq Fetchers

\* A process that is busy with a file has its lock, and that of the layout it fetches, which is another.
Inside(p) == fpc[p] \notin {"idle", "next", "lock"}
LockedAt(p) ==
  /\ fpc[p] \notin {"idle", "next"} => Cur(p) \in Distfiles
  /\ Inside(p) => locks[Cur(p)] = p
  /\ fpc[p] \in {"layout", "layoutfetch"} => fv[p].loc \in Mirrors
  /\ fpc[p] = "layoutfetch" => locks[fv[p].loc] = p

\* While it looks for it the file is not there, nor a complete download of it.
Searching(p) == Inside(p) /\ fpc[p] \notin {"check", "unlock"}
NotThereAt(p) == Searching(p) =>
  /\ final[Cur(p)] = "none"
  /\ Cur(p) \in Digested /\ fpc[p] # "present" => down[Cur(p)] \in {"none"} \cup Pieces

Before(p)   == fpc[p] \in {"lock", "check"} \/ Searching(p)
NotYetAt(p) == Before(p) => fv[p].fetched \in {0, 1}

\* What the fetcher of a build has left behind is good.
Ahead(p) ==
  fv[p].todo \cup (IF fpc[p] = "next" \/ (fpc[p] = "unlock" /\ fv[p].fetched = 2) THEN {} ELSE {Cur(p)})
GoodAt(p) == Kind[p] = "normal" =>
  /\ outcome[p] = "ok" => \A f \in Digested : Seen(f) = "good"
  /\ fpc[p] # "idle" => \A f \in Digested \ Ahead(p) : Seen(f) = "good"

\* A location has been tried or is still in the list.
TriesAt(p) ==
  /\ Before(p) \/ fpc[p] = "unlock" =>
       fv[p].tried \cup ToSet(fv[p].uris) = ToSet(UrisOf(Cur(p)))
  /\ Before(p) => fv[p].fails < MaxTries
  /\ fpc[p] = "unlock" /\ fv[p].fetched # 2 => fv[p].fails = MaxTries \/ fv[p].uris = << >>

FetchInv ==
  /\ FetchTyped
  /\ \A p \in Fetchers : LockedAt(p) /\ NotThereAt(p) /\ NotYetAt(p) /\ GoodAt(p) /\ TriesAt(p)

-----------------------------------------------------------------------------
\* A set of naturals has a least element.
LEMMA LeastOne ==
  ASSUME NEW S, S \subseteq Nat, S # {}
  PROVE  \E x \in S : \A y \in S : x <= y
<1>1. PICK R : IsWellFoundedOn(R, Nat) /\ (\A x, y \in Nat : x < y => <<x, y>> \in R)
  <2>1. IsWellFoundedOn(OpToRel(<, Nat), Nat) BY NatLessThanWellFounded
  <2>2. \A x, y \in Nat : x < y => <<x, y>> \in OpToRel(<, Nat)
    BY DEF OpToRel
  <2> QED BY <2>1, <2>2
<1>2. PICK x \in S : \A y \in S : ~ (<<y, x>> \in R)
  <2>1. IsWellFoundedOn(R, Nat)
    BY <1>1
  <2>2. \A T : T \subseteq Nat /\ T # {} => \E z \in T : \A y \in T : ~ (<<y, z>> \in R)
    BY <2>1, WFMin, Zenon
  <2> QED BY <2>2
<1>3. ASSUME NEW y \in S PROVE x <= y
  <2>1. x \in Nat /\ y \in Nat OBVIOUS
  <2>2. ~ (y < x) BY <1>1, <1>2, <2>1
  <2> QED BY <2>1, <2>2
<1> QED BY <1>3

\* A subsequence of a sequence over U is one, too.
LEMMA OnlySeq ==
  ASSUME NEW U, NEW S, NEW s \in Seq(U)
  PROVE  Only(s, S) \in Seq(U)
<1> DEFINE N == Len(s)
           Step(f, n) == IF n = 0 THEN <<>>
                         ELSE IF s[n] \in S THEN Append(f[n - 1], s[n]) ELSE f[n - 1]
           Good(f, m) == /\ f \in [0..m -> Seq(U)]
                         /\ \A n \in 0..m : f[n] = Step(f, n)
           bad == {m \in 0..N : ~ \E f : Good(f, m)}
<1>0. N \in Nat OBVIOUS
<1>1. bad = {}
  <2> SUFFICES ASSUME bad # {} PROVE FALSE OBVIOUS
  <2>1. PICK m \in bad : \A y \in bad : m <= y
    <3> HIDE DEF Good, N
    <3>1. bad \subseteq Nat BY <1>0
    <3> HIDE DEF bad
    <3> QED BY LeastOne, <3>1
  <2>2. m # 0
    <3>1. Good([n \in 0..0 |-> <<>>], 0)
      <4>1. 0..0 = {0} OBVIOUS
      <4> QED BY <4>1
    <3> HIDE DEF Good
    <3> QED BY <3>1, <2>1
  <2>3. m - 1 \in 0..N /\ m - 1 \notin bad
    <3> HIDE DEF Good
    <3>1. m \in 0..N OBVIOUS
    <3>2. m - 1 \in 0..N BY <3>1, <1>0, <2>2
    <3>3. ~ (m <= m - 1) BY <3>1, <1>0
    <3> HIDE DEF bad
    <3> QED BY <2>1, <3>2, <3>3
  <2>4. PICK f : Good(f, m - 1)
    <3> HIDE DEF Good
    <3> QED BY <2>3
  <2> DEFINE g == [n \in 0..m |-> IF n = m THEN Step(f, m) ELSE f[n]]
  <2>5. m \in 1..N BY <2>1, <2>2, <1>0
  <2>6. Step(f, m) \in Seq(U) BY <2>4, <2>5
  <2>7. g \in [0..m -> Seq(U)] BY <2>4, <2>5, <2>6
  <2>8. ASSUME NEW n \in 0..m PROVE g[n] = Step(g, n)
    <3>1. n # 0 => n - 1 \in 0..(m-1) /\ g[n - 1] = f[n - 1] BY <2>5
    <3>2. CASE n = m BY <3>1, <3>2
    <3>3. CASE n # m
      <4>1. n \in 0..(m - 1) BY <3>3, <2>5
      <4>2. f[n] = Step(f, n) BY <4>1, <2>4
      <4>3. g[n] = f[n] BY <3>3
      <4> QED BY <3>1, <4>2, <4>3
    <3> QED BY <3>2, <3>3
  <2>9. Good(g, m) BY <2>7, <2>8
  <2> HIDE DEF Good, g
  <2> QED BY <2>9, <2>1
<1>2. PICK f : Good(f, N)
  <2> HIDE DEF Good
  <2> QED BY <1>0, <1>1
<1>3. f = [n \in 0..N |-> Step(f, n)] BY <1>2
<1>4. PICK g : Only(s, S) = g[N] /\ g = [n \in 0..N |-> Step(g, n)]
  BY <1>3 DEF Only
<1>5. \A n \in 0..N : g[n] = Step(g, n)
  BY <1>4
<1> DEFINE no == {n \in 0..N : g[n] \notin Seq(U)}
<1>6. no = {}
  <2> SUFFICES ASSUME no # {} PROVE FALSE OBVIOUS
  <2>1. PICK m \in no : \A y \in no : m <= y
    <3>1. no \subseteq Nat BY <1>0
    <3> HIDE DEF no
    <3> QED BY LeastOne, <3>1
  <2>2. g[0] = <<>>
    BY <1>0, <1>5
  <2>3. m \in 1..N /\ s[m] \in U
    <3>1. << >> \in Seq(U) OBVIOUS
    <3>2. m \in 0..N /\ g[m] \notin Seq(U) OBVIOUS
    <3> HIDE DEF no, N, Step
    <3>3. m # 0 BY <2>2, <3>1, <3>2
    <3> QED BY <1>0, <3>2, <3>3 DEF N
  <2>4. g[m - 1] \in Seq(U)
    <3>1. m - 1 \in 0..N /\ ~ (m <= m - 1) BY <1>0, <2>3
    <3> QED BY <2>1, <3>1
  <2>5. g[m] = Step(g, m)
    BY <1>5
  <2>6. g[m] \in Seq(U)
    BY <2>3, <2>4, <2>5
  <2> QED BY <2>6
<1>7. N \in 0..N BY <1>0
<1> HIDE DEF N, Step
<1> QED BY <1>4, <1>6, <1>7

\* The elements of sequences of locations.
LEMMA Elements ==
  ASSUME NEW U
  PROVE  /\ \A s \in Seq(U) : ToSet(s) \subseteq U
         /\ \A s, r \in Seq(U) : s \o r \in Seq(U) /\ ToSet(s \o r) = ToSet(s) \cup ToSet(r)
         /\ \A s \in Seq(U) : s # << >> =>
              Head(s) \in U /\ Tail(s) \in Seq(U) /\ ToSet(s) = {Head(s)} \cup ToSet(Tail(s))
<1>1. ASSUME NEW s \in Seq(U) PROVE ToSet(s) = {s[i] : i \in 1..Len(s)} /\ ToSet(s) \subseteq U
  BY DEF ToSet
<1>2. ASSUME NEW s \in Seq(U), NEW r \in Seq(U)
      PROVE  s \o r \in Seq(U) /\ ToSet(s \o r) = ToSet(s) \cup ToSet(r)
  <2>1. /\ Len(s) \in Nat /\ Len(r) \in Nat /\ Len(s \o r) = Len(s) + Len(r)
        /\ s \o r \in Seq(U)
        /\ \A i \in 1..Len(s) : i \in 1..Len(s \o r) /\ (s \o r)[i] = s[i]
        /\ \A i \in 1..Len(r) : Len(s) + i \in 1..Len(s \o r) /\ (s \o r)[Len(s) + i] = r[i]
    OBVIOUS
  <2>2. ASSUME NEW i \in 1..Len(s \o r), i \notin 1..Len(s)
        PROVE  i - Len(s) \in 1..Len(r) /\ (s \o r)[i] = r[i - Len(s)]
    BY <2>1, <2>2
  <2>3. {s[i] : i \in 1..Len(s)} \cup {r[i] : i \in 1..Len(r)} \subseteq {(s \o r)[i] : i \in 1..Len(s \o r)}
    BY <2>1
  <2>4. ASSUME NEW i \in 1..Len(s \o r)
        PROVE  (s \o r)[i] \in {s[k] : k \in 1..Len(s)} \cup {r[k] : k \in 1..Len(r)}
    BY <2>1, <2>2
  <2>5. /\ ToSet(s \o r) = {(s \o r)[i] : i \in 1..Len(s \o r)}
        /\ ToSet(s) = {s[i] : i \in 1..Len(s)} /\ ToSet(r) = {r[i] : i \in 1..Len(r)}
    BY <1>1, <2>1
  <2>6. {(s \o r)[i] : i \in 1..Len(s \o r)} \subseteq {s[k] : k \in 1..Len(s)} \cup {r[k] : k \in 1..Len(r)}
    BY <2>4
  <2> QED BY <2>1, <2>3, <2>5, <2>6
<1>3. ASSUME NEW s \in Seq(U), s # << >>
      PROVE  Head(s) \in U /\ Tail(s) \in Seq(U) /\ ToSet(s) = {Head(s)} \cup ToSet(Tail(s))
  <2>1. /\ Len(s) \in Nat /\ Len(s) >= 1 /\ Len(Tail(s)) = Len(s) - 1 /\ Head(s) = s[1]
        /\ Tail(s) \in Seq(U) /\ Head(s) \in U
        /\ \A i \in 1..Len(Tail(s)) : Tail(s)[i] = s[i + 1] /\ i + 1 \in 1..Len(s)
    BY <1>3
  <2>2. {Tail(s)[i] : i \in 1..Len(Tail(s))} \cup {Head(s)} \subseteq {s[i] : i \in 1..Len(s)}
    BY <2>1
  <2>3. ASSUME NEW i \in 1..Len(s) PROVE s[i] = Head(s) \/ s[i] \in {Tail(s)[k] : k \in 1..Len(Tail(s))}
    <3>1. CASE i = 1 BY <2>1, <3>1
    <3>2. CASE i # 1
      <4>1. i - 1 \in 1..Len(Tail(s)) /\ Tail(s)[i - 1] = s[i] BY <2>1, <3>2
      <4> QED BY <4>1
    <3> QED BY <3>1, <3>2
  <2>4. ToSet(s) = {s[i] : i \in 1..Len(s)} /\ ToSet(Tail(s)) = {Tail(s)[i] : i \in 1..Len(Tail(s))}
    BY <1>1, <2>1
  <2>5. ToSet(s) \subseteq {Head(s)} \cup ToSet(Tail(s))
    BY <2>3, <2>4
  <2> QED BY <2>1, <2>2, <2>4, <2>5
<1> QED BY <1>1, <1>2, <1>3

\* What is tried is a sequence of locations, and has what is put first after failures.
LEMMA UrisAre ==
  ASSUME NEW f \in Distfiles
  PROVE  /\ UrisOf(f) \in Seq(Locations) /\ ToSet(UrisOf(f)) \subseteq Locations
         /\ Primaries(f) \in Seq(Locations) /\ ToSet(Primaries(f)) \subseteq ToSet(UrisOf(f))
<1>1. ASSUME NEW s \in Seq(UriEntries) PROVE Locs(s) \in Seq(Locations)
  <2>1. \A x \in UriEntries : x.loc \in Locations
    BY DEF UriEntries
  <2>2. \A i \in 1..Len(s) : s[i] \in UriEntries
    OBVIOUS
  <2>3. \A i \in 1..Len(s) : s[i].loc \in Locations
    BY <2>1, <2>2
  <2> QED BY <2>3 DEF Locs
<1>2. ASSUME NEW s \in Seq(Locations) PROVE Reverse(s) \in Seq(Locations)
  <2>1. \A i \in 1..Len(s) : (Len(s) - i) + 1 \in 1..Len(s)
    OBVIOUS
  <2> QED BY <2>1 DEF Reverse
<1>3. Plain(f) \in Seq(UriEntries) /\ Third(f) \in Seq(UriEntries)
  BY OnlySeq, FetchAssumption DEF Plain, Third
<1>4. Primaries(f) \in Seq(Locations) /\ Locs(Third(f)) \in Seq(Locations)
  BY <1>1, <1>2, <1>3, Elements DEF Primaries
<1> DEFINE public == IF MirrorRestricted(f) THEN << >> ELSE Public
           mirrors == Local \o public \o Locs(Third(f))
<1>5. public \in Seq(Locations) /\ Local \in Seq(Locations)
  BY FetchAssumption
<1>6. mirrors \in Seq(Locations)
  <2> HIDE DEF public
  <2>1. Local \o public \in Seq(Locations)
    BY <1>5, Elements
  <2> QED BY <2>1, <1>4, Elements
<1>7. UrisOf(f) = Primaries(f) \o mirrors \/ UrisOf(f) = mirrors \o Primaries(f)
  BY DEF UrisOf
<1> HIDE DEF mirrors
<1>8. /\ Primaries(f) \o mirrors \in Seq(Locations) /\ mirrors \o Primaries(f) \in Seq(Locations)
      /\ ToSet(Primaries(f) \o mirrors) = ToSet(Primaries(f)) \cup ToSet(mirrors)
      /\ ToSet(mirrors \o Primaries(f)) = ToSet(Primaries(f)) \cup ToSet(mirrors)
  BY <1>4, <1>6, Elements
<1>9. UrisOf(f) \in Seq(Locations) /\ ToSet(Primaries(f)) \subseteq ToSet(UrisOf(f))
  BY <1>7, <1>8
<1>10. ToSet(UrisOf(f)) \subseteq Locations
  BY <1>9, Elements
<1> QED BY <1>4, <1>9, <1>10

-----------------------------------------------------------------------------
\* What a step leaves of the process that makes it, and of the others.
Now(p, at, todo, cur, loc, uris, tried, fetched, fails) ==
  /\ fpc' \in [Fetchers -> FetchPlaces] /\ fv' \in [Fetchers -> Vars]
  /\ \A q \in Fetchers : q # p => fpc'[q] = fpc[q] /\ fv'[q] = fv[q]
  /\ fpc'[p] = at /\ fv'[p].todo = todo /\ fv'[p].cur = cur /\ fv'[p].loc = loc
  /\ fv'[p].uris = uris /\ fv'[p].tried = tried /\ fv'[p].fetched = fetched /\ fv'[p].fails = fails
Goes(p, at, fetched) ==
  Now(p, at, fv[p].todo, fv[p].cur, fv[p].loc, fv[p].uris, fv[p].tried, fetched, fv[p].fails)
Ended(p) == Now(p, "idle", {}, "", "", << >>, {}, 0, 0)

\* What the assignments in the actions make of it.
LEMMA NowIs ==
  ASSUME fpc \in [Fetchers -> FetchPlaces], fv \in [Fetchers -> Vars], NEW p \in Fetchers,
         NEW at \in FetchPlaces, To(p, at)
  PROVE  /\ fv' = fv => Goes(p, at, fv[p].fetched)
         /\ \A n \in {0, 1, 2} : fv' = [fv EXCEPT ![p].fetched = n] => Goes(p, at, n)
         /\ \A S \in SUBSET Distfiles :
              fv' = [fv EXCEPT ![p].failed = @ \cup S] => Goes(p, at, fv[p].fetched)
         /\ \A r \in Vars : fv' = [fv EXCEPT ![p] = r] =>
              Now(p, at, r.todo, r.cur, r.loc, r.uris, r.tried, r.fetched, r.fails)
         /\ \A u \in Seq(Locations), l \in Locations, c \in SUBSET Locations :
              fv' = [fv EXCEPT ![p].uris = u, ![p].tried = @ \cup {l}, ![p].loc = l, ![p].cache = c]
              => Now(p, at, fv[p].todo, fv[p].cur, l, u, fv[p].tried \cup {l}, fv[p].fetched, fv[p].fails)
         /\ \A u \in Seq(Locations), n \in Nat :
              fv' = [fv EXCEPT ![p].fetched = 0, ![p].fails = n, ![p].uris = u]
              => Now(p, at, fv[p].todo, fv[p].cur, fv[p].loc, u, fv[p].tried, 0, n)
<1> USE DEF Now, Goes, To
<1> DEFINE r == fv[p]
<1>1. r \in Vars
  OBVIOUS
<1>2. fv' = fv => Goes(p, at, fv[p].fetched)
  OBVIOUS
<1>3. ASSUME NEW x \in Vars, fv' = [fv EXCEPT ![p] = x]
      PROVE  Now(p, at, x.todo, x.cur, x.loc, x.uris, x.tried, x.fetched, x.fails)
  <2>1. fv' \in [Fetchers -> Vars] /\ fv'[p] = x /\ \A q \in Fetchers : q # p => fv'[q] = fv[q]
    BY <1>3
  <2> QED BY <2>1
<1>4. ASSUME NEW n \in {0, 1, 2}, fv' = [fv EXCEPT ![p].fetched = n]
      PROVE  Goes(p, at, n)
  <2> DEFINE x == [r EXCEPT !.fetched = n]
  <2>1. x \in Vars
    BY <1>1 DEF Vars
  <2>2. fv' = [fv EXCEPT ![p] = x]
    BY <1>4
  <2> QED BY <1>1, <1>3, <2>1, <2>2 DEF Vars
<1>5. ASSUME NEW S \in SUBSET Distfiles, fv' = [fv EXCEPT ![p].failed = @ \cup S]
      PROVE  Goes(p, at, fv[p].fetched)
  <2> DEFINE x == [r EXCEPT !.failed = @ \cup S]
  <2>1. x \in Vars
    BY <1>1 DEF Vars
  <2>2. fv' = [fv EXCEPT ![p] = x]
    BY <1>5
  <2> QED BY <1>1, <1>3, <2>1, <2>2 DEF Vars
<1>6. ASSUME NEW u \in Seq(Locations), NEW l \in Locations, NEW c \in SUBSET Locations,
             fv' = [fv EXCEPT ![p].uris = u, ![p].tried = @ \cup {l}, ![p].loc = l, ![p].cache = c]
      PROVE  Now(p, at, fv[p].todo, fv[p].cur, l, u, fv[p].tried \cup {l}, fv[p].fetched, fv[p].fails)
  <2> DEFINE x == [r EXCEPT !.uris = u, !.tried = @ \cup {l}, !.loc = l, !.cache = c]
  <2>1. x \in Vars
    BY <1>1 DEF Vars
  <2>2. fv' = [fv EXCEPT ![p] = x]
    BY <1>6
  <2>3. /\ x.todo = r.todo /\ x.cur = r.cur /\ x.loc = l /\ x.uris = u
        /\ x.tried = r.tried \cup {l} /\ x.fetched = r.fetched /\ x.fails = r.fails
    BY <1>1 DEF Vars
  <2> HIDE DEF x
  <2> QED BY <1>3, <2>1, <2>2, <2>3
<1>7. ASSUME NEW u \in Seq(Locations), NEW n \in Nat,
             fv' = [fv EXCEPT ![p].fetched = 0, ![p].fails = n, ![p].uris = u]
      PROVE  Now(p, at, fv[p].todo, fv[p].cur, fv[p].loc, u, fv[p].tried, 0, n)
  <2> DEFINE x == [r EXCEPT !.fetched = 0, !.fails = n, !.uris = u]
  <2>1. x \in Vars
    BY <1>1 DEF Vars
  <2>2. fv' = [fv EXCEPT ![p] = x]
    BY <1>7
  <2>3. /\ x.todo = r.todo /\ x.cur = r.cur /\ x.loc = r.loc /\ x.uris = u
        /\ x.tried = r.tried /\ x.fetched = 0 /\ x.fails = n
    BY <1>1 DEF Vars
  <2> HIDE DEF x
  <2> QED BY <1>3, <2>1, <2>2, <2>3
<1> QED BY <1>2, <1>3, <1>4, <1>5, <1>6, <1>7

-----------------------------------------------------------------------------
\* What the others see of a step of p: they stay where they are and keep their locks,
\* the files change only for the holder of the lock, and good files stay good.
OthersStay(p) ==
  \A q \in Fetchers : q # p => fpc'[q] = fpc[q] /\ fv'[q] = fv[q] /\ outcome'[q] = outcome[q]
LocksStay(p) ==
  \A x \in Distfiles \cup Mirrors : locks[x] \notin {p, NoFetcher} => locks'[x] = locks[x]
FilesStay(p) ==
  \A f \in Distfiles : \/ final'[f] = final[f] /\ down'[f] = down[f]
                       \/ f = Cur(p) /\ Inside(p)
GoodStays == \A g \in Digested : Seen(g) = "good" => Seen(g)' = "good"

\* The URIs depend on what does not change.
LEMMA SameUris ==
  ASSUME restrict' = restrict
  PROVE  \A f : UrisOf(f)' = UrisOf(f)
BY DEF UrisOf, Primaries, MirrorRestricted, Plain, Third

\* So all that holds of another process holds of it afterwards.
LEMMA OthersKeep ==
  ASSUME FetchInv, NEW p \in Fetchers, NEW q \in Fetchers, p # q,
         OthersStay(p), LocksStay(p), FilesStay(p), GoodStays, restrict' = restrict
  PROVE  LockedAt(q)' /\ NotThereAt(q)' /\ NotYetAt(q)' /\ GoodAt(q)' /\ TriesAt(q)'
<1> USE DEF Cur
<1>1. fpc'[q] = fpc[q] /\ fv'[q] = fv[q] /\ outcome'[q] = outcome[q]
  BY DEF OthersStay
<1>2. LockedAt(q) /\ NotThereAt(q) /\ NotYetAt(q) /\ GoodAt(q) /\ TriesAt(q)
  BY DEF FetchInv
<1>3. LockedAt(q)'
  <2>1. q # NoFetcher /\ q # p
    BY FetchAssumption
  <2>2. Inside(q) => locks'[Cur(q)] = q
    BY <1>2, <2>1 DEF LocksStay, LockedAt, Inside
  <2>3. fpc[q] = "layoutfetch" => locks'[fv[q].loc] = q
    BY <1>2, <2>1 DEF LocksStay, LockedAt
  <2> QED BY <1>1, <1>2, <2>2, <2>3 DEF LockedAt, Inside
<1>4. NotThereAt(q)'
  <2>1. Searching(q) => final'[Cur(q)] = final[Cur(q)] /\ down'[Cur(q)] = down[Cur(q)]
    <3>1. SUFFICES ASSUME Searching(q)
                   PROVE  final'[Cur(q)] = final[Cur(q)] /\ down'[Cur(q)] = down[Cur(q)]
      OBVIOUS
    <3>2. Cur(q) \in Distfiles /\ locks[Cur(q)] = q
      BY <1>2, <3>1 DEF LockedAt, Searching, Inside
    <3>3. Inside(p) => locks[Cur(p)] = p
      BY DEF FetchInv, LockedAt
    <3> QED BY <3>2, <3>3 DEF FilesStay
  <2> QED BY <1>1, <1>2, <2>1 DEF NotThereAt, Searching, Inside
<1>5. NotYetAt(q)'
  BY <1>1, <1>2 DEF NotYetAt, Before, Searching, Inside
<1>6. GoodAt(q)'
  <2>1. Ahead(q)' = Ahead(q)
    BY <1>1 DEF Ahead
  <2> QED BY <1>1, <1>2, <2>1 DEF GoodAt, GoodStays
<1>7. TriesAt(q)'
  <2>1. UrisOf(Cur(q))' = UrisOf(Cur(q))
    BY <1>1, SameUris
  <2> QED BY <1>1, <1>2, <2>1 DEF TriesAt, Before, Searching, Inside
<1> QED BY <1>3, <1>4, <1>5, <1>6, <1>7


\* What the last run of p has returned is in S, the others have returned nothing new.
Says(p, S) ==
  /\ outcome' \in [Fetchers -> {"none", "ok", "failed", "killed"}]
  /\ outcome'[p] \in S /\ \A q \in Fetchers : q # p => outcome'[q] = outcome[q]

\* The local variables before a run and after it.
LEMMA FreshIs ==
  /\ Fresh \in Vars /\ Fresh.todo = {} /\ Fresh.cur = "" /\ Fresh.loc = "" /\ Fresh.uris = << >>
  /\ Fresh.tried = {} /\ Fresh.fetched = 0 /\ Fresh.fails = 0
<1>1. /\ Fresh.todo = {} /\ Fresh.cur = "" /\ Fresh.loc = "" /\ Fresh.uris = << >>
      /\ Fresh.tried = {} /\ Fresh.fetched = 0 /\ Fresh.fails = 0
  BY DEF Fresh
<1>2. << >> \in Seq(Locations)
  OBVIOUS
<1> DEFINE e == << >>
<1> HIDE DEF e
<1>3. [todo |-> {}, cur |-> "", loc |-> "", uris |-> e, tried |-> {}, fetched |-> 0,
       fails |-> 0, space |-> TRUE, cache |-> {}, failed |-> {}] \in Vars
  BY <1>2 DEF Vars, e
<1> QED BY <1>1, <1>3 DEF Fresh, e

\* The end of a run resets them.
LEMMA EndedIs ==
  ASSUME fpc \in [Fetchers -> FetchPlaces], fv \in [Fetchers -> Vars], NEW p \in Fetchers,
         To(p, "idle"), fv' = [fv EXCEPT ![p] = Fresh]
  PROVE  Ended(p)
<1>2. "idle" \in FetchPlaces
  BY DEF FetchPlaces
<1> QED BY <1>2, FreshIs, NowIs DEF Ended

\* What is to be shown of a step, of the process that makes it.
LEMMA StepKeeps ==
  ASSUME FetchInv, NEW p \in Fetchers, FetchTyped',
         OthersStay(p), LocksStay(p), FilesStay(p), GoodStays, restrict' = restrict,
         LockedAt(p)', NotThereAt(p)', NotYetAt(p)', GoodAt(p)', TriesAt(p)'
  PROVE  FetchInv'
<1>1. ASSUME NEW q \in Fetchers
      PROVE  LockedAt(q)' /\ NotThereAt(q)' /\ NotYetAt(q)' /\ GoodAt(q)' /\ TriesAt(q)'
  BY OthersKeep
<1> QED BY <1>1 DEF FetchInv

\* Each step keeps the invariant.
LEMMA FetchNextKeeps ==
  ASSUME FetchInv, [FetchNext]_fetchVars
  PROVE  FetchInv'
<1> USE DEF At, Cur, fetchEnv
<1>1. FetchTyped
  BY DEF FetchInv
<1>0. fpc \in [Fetchers -> FetchPlaces] /\ fv \in [Fetchers -> Vars]
  BY <1>1 DEF FetchTyped
<1>2. \A p \in Fetchers : /\ fv[p] \in Vars /\ fv[p].todo \subseteq Distfiles /\ fv[p].fetched \in {0, 1, 2}
                          /\ fv[p].uris \in Seq(Locations) /\ fv[p].fails \in Nat
                          /\ fv[p].cache \subseteq Locations /\ fv[p].loc \in Locations \cup {""}
                          /\ fv[p].space \in BOOLEAN /\ fv[p].failed \subseteq Distfiles
  BY <1>0 DEF Vars
<1>3. Mirrors \subseteq Locations /\ Mirrors \cap Distfiles = {}
  BY Elements, FetchAssumption DEF Mirrors
<1>4. CASE UNCHANGED fetchVars
  <2>1. /\ final' = final /\ down' = down /\ saved' = saved /\ ro' = ro /\ fsm' = fsm /\ restrict' = restrict
        /\ locks' = locks /\ layouts' = layouts /\ fpc' = fpc /\ fv' = fv /\ outcome' = outcome /\ termed' = termed
    BY <1>4 DEF fetchVars
  <2>2. FetchTyped'
    BY <1>1, <2>1 DEF FetchTyped
  <2>3. \A f : UrisOf(f)' = UrisOf(f)
    BY <2>1, SameUris
  <2>4. \A f : Seen(f)' = Seen(f)
    BY <2>1 DEF Seen
  <2>5. ASSUME NEW q \in Fetchers
        PROVE  LockedAt(q)' /\ NotThereAt(q)' /\ NotYetAt(q)' /\ GoodAt(q)' /\ TriesAt(q)'
    BY <2>1, <2>3, <2>4 DEF FetchInv, LockedAt, NotThereAt, NotYetAt, GoodAt, TriesAt, Inside,
       Searching, Before, Ahead
  <2> QED BY <2>2, <2>5 DEF FetchInv
<1>5. ASSUME NEW p \in Fetchers, StartFetcher(p)
      PROVE  FetchInv'
  <2>1. LockedAt(p) /\ NotThereAt(p) /\ NotYetAt(p) /\ GoodAt(p) /\ TriesAt(p)
    BY DEF FetchInv
  <2>3. \/ UNCHANGED <<fpc, fv>> /\ Says(p, {"none", "ok"}) /\ AlreadyFetched(p)
        \/ Now(p, "next", Distfiles, "", "", << >>, {}, 0, 0) /\ Says(p, {"none"})
    <3>1. CASE AlreadyFetched(p)
      BY <1>0, <1>1, <1>5, <3>1 DEF StartFetcher, Says, FetchTyped
    <3>2. CASE ~AlreadyFetched(p)
      <4>1. PICK s \in BOOLEAN : fv' = [fv EXCEPT ![p] = [Fresh EXCEPT !.todo = Distfiles, !.space = s]]
        BY <1>5, <3>2 DEF StartFetcher
      <4>2. To(p, "next") /\ "next" \in FetchPlaces
        BY <1>5, <3>2 DEF StartFetcher, FetchPlaces
      <4> DEFINE r == [Fresh EXCEPT !.todo = Distfiles, !.space = s]
      <4>3. /\ r \in Vars /\ r.todo = Distfiles /\ r.cur = "" /\ r.loc = "" /\ r.uris = << >>
            /\ r.tried = {} /\ r.fetched = 0 /\ r.fails = 0
        BY FreshIs DEF Vars
      <4>4. Says(p, {"none"})
        BY <1>1, <1>5, <3>2 DEF StartFetcher, Says, FetchTyped
      <4> HIDE DEF r
      <4> QED BY <1>0, <4>1, <4>2, <4>3, <4>4, NowIs, ZenonT(60) DEF r
    <3> QED BY <3>1, <3>2
  <2>4. fpc[p] = "idle" /\ UNCHANGED <<final, down, locks>>
    BY <1>1, <1>5 DEF StartFetcher, FetchTyped
  <2>5. FetchTyped'
    <3>1. ro' = ro /\ fsm' = fsm /\ layouts' \subseteq Locations /\ termed' \subseteq Fetchers
      BY <1>1, <1>2, <1>3, <1>5, <2>4 DEF StartFetcher, FetchTyped
    <3>2. saved' \in [Distfiles -> SUBSET Versions]
      BY <1>1, <1>5 DEF StartFetcher, FetchTyped
    <3>3. final' \in [Distfiles -> Versions \cup {"link"}]
      BY <1>1, <2>3, <2>4 DEF FetchTyped, Versions, FullSize
    <3>4. down' \in [Distfiles -> Versions]
      BY <1>1, <2>3, <2>4 DEF FetchTyped, Versions
    <3>5. locks' \in [Distfiles \cup Mirrors -> Fetchers \cup {NoFetcher}]
      BY <1>1, <2>3, <2>4 DEF FetchTyped
    <3>6. /\ fpc' \in [Fetchers -> FetchPlaces] /\ fv' \in [Fetchers -> Vars]
          /\ outcome' \in [Fetchers -> {"none", "ok", "failed", "killed"}]
      BY <1>1, <2>3, <2>4 DEF FetchTyped, Now, Goes, Ended, Says
    <3>7. ro' \in [Distfiles -> Versions] /\ fsm' \in [Distfiles -> Versions]
      BY <1>1, <3>1 DEF FetchTyped
    <3> QED BY <3>1, <3>2, <3>3, <3>4, <3>5, <3>6, <3>7 DEF FetchTyped
  <2>6. OthersStay(p)
    BY <2>3, <2>4 DEF OthersStay, Now, Goes, Ended, Says
  <2>7. LocksStay(p)
    BY <1>1, <1>3, <2>3, <2>4 DEF LocksStay, FetchTyped, Free
  <2>8. FilesStay(p)
    BY <1>1, <2>3, <2>4 DEF FilesStay, FetchTyped, Inside
  <2>9. GoodStays
    BY <1>1, <1>5, <2>1, <2>3, <2>4 DEF GoodStays, Seen, StartFetcher, Matches, FullSize,
       FetchTyped, NotThereAt, Searching
  <2>10. restrict' = restrict
    BY <1>5 DEF StartFetcher
  <2>11. LockedAt(p)'
    BY <1>1, <1>3, <2>1, <2>3, <2>4 DEF LockedAt, Now, Goes, Ended, Inside, FetchTyped
  <2>12. NotThereAt(p)'
    BY <1>1, <2>1, <2>3, <2>4 DEF NotThereAt, Searching, Now, Goes, Ended, Inside, FetchTyped,
       Pieces
  <2>13. NotYetAt(p)'
    BY <2>1, <2>3, <2>4 DEF NotYetAt, Before, Searching, Now, Goes, Ended, Inside
  <2>14. GoodAt(p)'
    <3>1. CASE UNCHANGED <<fpc, fv>> /\ AlreadyFetched(p)
      <4>1. Kind[p] = "normal" => \A f \in Digested : Seen(f) = "good"
        BY <3>1, FetchAssumption DEF AlreadyFetched, Matches
      <4> QED BY <2>4, <2>9, <3>1, <4>1 DEF GoodAt, GoodStays
    <3>2. CASE Now(p, "next", Distfiles, "", "", << >>, {}, 0, 0) /\ Says(p, {"none"})
      <4>1. Ahead(p)' = Distfiles /\ outcome'[p] # "ok"
        BY <3>2 DEF Ahead, Now, Says
      <4> QED BY <4>1, FetchAssumption DEF GoodAt
    <3> QED BY <2>3, <3>1, <3>2
  <2>15. TriesAt(p)'
    BY <2>10, SameUris, <2>1, <2>3, <2>4 DEF TriesAt, Before, Searching, Now, Goes, Ended, Inside
  <2> QED BY <2>5, <2>6, <2>7, <2>8, <2>9, <2>10, <2>11, <2>12, <2>13, <2>14, <2>15, StepKeeps
<1>6. ASSUME NEW p \in Fetchers, NextFile(p)
      PROVE  FetchInv'
  <2>1. LockedAt(p) /\ NotThereAt(p) /\ NotYetAt(p) /\ GoodAt(p) /\ TriesAt(p)
    BY DEF FetchInv
  <2>3. \E f \in fv[p].todo :
          f \in Distfiles /\ Now(p, "lock", fv[p].todo \ {f}, f, "", UrisOf(f), {}, 0, 0)
    <3>1. PICK f \in fv[p].todo :
             fv' = [fv EXCEPT ![p] = [Fresh EXCEPT !.todo = fv[p].todo \ {f}, !.cur = f, !.uris = UrisOf(f),
                                                   !.space = fv[p].space, !.failed = fv[p].failed]]
      BY <1>6 DEF NextFile
    <3> DEFINE r == [Fresh EXCEPT !.todo = fv[p].todo \ {f}, !.cur = f, !.uris = UrisOf(f),
                                  !.space = fv[p].space, !.failed = fv[p].failed]
    <3>2. f \in Distfiles /\ UrisOf(f) \in Seq(Locations)
      BY <1>2, UrisAre
    <3>3. /\ r \in Vars /\ r.todo = fv[p].todo \ {f} /\ r.cur = f /\ r.loc = "" /\ r.uris = UrisOf(f)
          /\ r.tried = {} /\ r.fetched = 0 /\ r.fails = 0
      BY <1>2, <3>2, FreshIs DEF Vars
    <3>4. To(p, "lock") /\ "lock" \in FetchPlaces
      BY <1>6 DEF NextFile, FetchPlaces
    <3>5. fv' = [fv EXCEPT ![p] = r]
      BY <3>1
    <3> HIDE DEF r
    <3>6. Now(p, "lock", r.todo, r.cur, r.loc, r.uris, r.tried, r.fetched, r.fails)
      BY <1>0, <3>3, <3>4, <3>5, NowIs
    <3> QED BY <3>2, <3>3, <3>6
  <2>4. fpc[p] = "next" /\ UNCHANGED <<final, down, locks, outcome>>
    BY <1>1, <1>6 DEF NextFile, FetchTyped
  <2>5. FetchTyped'
    <3>1. ro' = ro /\ fsm' = fsm /\ layouts' \subseteq Locations /\ termed' \subseteq Fetchers
      BY <1>1, <1>2, <1>3, <1>6, <2>4 DEF NextFile, FetchTyped
    <3>2. saved' \in [Distfiles -> SUBSET Versions]
      BY <1>1, <1>6 DEF NextFile, FetchTyped
    <3>3. final' \in [Distfiles -> Versions \cup {"link"}]
      BY <1>1, <2>3, <2>4 DEF FetchTyped, Versions, FullSize
    <3>4. down' \in [Distfiles -> Versions]
      BY <1>1, <2>3, <2>4 DEF FetchTyped, Versions
    <3>5. locks' \in [Distfiles \cup Mirrors -> Fetchers \cup {NoFetcher}]
      BY <1>1, <2>3, <2>4 DEF FetchTyped
    <3>6. /\ fpc' \in [Fetchers -> FetchPlaces] /\ fv' \in [Fetchers -> Vars]
          /\ outcome' \in [Fetchers -> {"none", "ok", "failed", "killed"}]
      BY <1>1, <2>3, <2>4 DEF FetchTyped, Now, Goes, Ended, Says
    <3>7. ro' \in [Distfiles -> Versions] /\ fsm' \in [Distfiles -> Versions]
      BY <1>1, <3>1 DEF FetchTyped
    <3> QED BY <3>1, <3>2, <3>3, <3>4, <3>5, <3>6, <3>7 DEF FetchTyped
  <2>6. OthersStay(p)
    BY <2>3, <2>4 DEF OthersStay, Now, Goes, Ended, Says
  <2>7. LocksStay(p)
    BY <1>1, <1>3, <2>3, <2>4 DEF LocksStay, FetchTyped, Free
  <2>8. FilesStay(p)
    BY <1>1, <2>3, <2>4 DEF FilesStay, FetchTyped, Inside
  <2>9. GoodStays
    BY <1>1, <1>6, <2>1, <2>3, <2>4 DEF GoodStays, Seen, NextFile, Matches, FullSize, FetchTyped,
       NotThereAt, Searching
  <2>10. restrict' = restrict
    BY <1>6 DEF NextFile
  <2>11. LockedAt(p)'
    BY <1>1, <1>3, <2>1, <2>3, <2>4 DEF LockedAt, Now, Goes, Ended, Inside, FetchTyped
  <2>12. NotThereAt(p)'
    BY <1>1, <2>1, <2>3, <2>4 DEF NotThereAt, Searching, Now, Goes, Ended, Inside, FetchTyped,
       Pieces
  <2>13. NotYetAt(p)'
    BY <2>1, <2>3, <2>4 DEF NotYetAt, Before, Searching, Now, Goes, Ended, Inside
  <2>14. GoodAt(p)'
    BY <1>1, <1>6, <2>1, <2>3, <2>4, <2>9
       DEF GoodAt, GoodStays, Ahead, Now, Goes, Ended, Says, AlreadyFetched, Matches, Seen,
       FetchTyped, NextFile
  <2>15. TriesAt(p)'
    <3>1. fpc'[p] = "lock" /\ fv'[p].tried = {} /\ fv'[p].uris = UrisOf(fv'[p].cur) /\ fv'[p].fails = 0
      BY <2>3 DEF Now
    <3>2. UrisOf(Cur(p))' = UrisOf(fv'[p].cur)
      BY <2>10, SameUris
    <3> QED BY <3>1, <3>2, FetchAssumption DEF TriesAt, Before, Searching, Inside
  <2> QED BY <2>5, <2>6, <2>7, <2>8, <2>9, <2>10, <2>11, <2>12, <2>13, <2>14, <2>15, StepKeeps
<1>7. ASSUME NEW p \in Fetchers, Return(p)
      PROVE  FetchInv'
  <2>1. LockedAt(p) /\ NotThereAt(p) /\ NotYetAt(p) /\ GoodAt(p) /\ TriesAt(p)
    BY DEF FetchInv
  <2>3. Ended(p) /\ Says(p, {"ok", "failed"})
    <3>1. Says(p, {"ok", "failed"})
      BY <1>1, <1>7 DEF Return, Says, FetchTyped
    <3> QED BY <1>7, <3>1, EndedIs, <1>0 DEF Return
  <2>4. fpc[p] = "next" /\ fv[p].todo = {} /\ UNCHANGED <<final, down, locks>>
    BY <1>1, <1>7 DEF Return, FetchTyped
  <2>5. FetchTyped'
    <3>1. ro' = ro /\ fsm' = fsm /\ layouts' \subseteq Locations /\ termed' \subseteq Fetchers
      BY <1>1, <1>2, <1>3, <1>7, <2>4 DEF Return, FetchTyped
    <3>2. saved' \in [Distfiles -> SUBSET Versions]
      BY <1>1, <1>7 DEF Return, FetchTyped
    <3>3. final' \in [Distfiles -> Versions \cup {"link"}]
      BY <1>1, <2>3, <2>4 DEF FetchTyped, Versions, FullSize
    <3>4. down' \in [Distfiles -> Versions]
      BY <1>1, <2>3, <2>4 DEF FetchTyped, Versions
    <3>5. locks' \in [Distfiles \cup Mirrors -> Fetchers \cup {NoFetcher}]
      BY <1>1, <2>3, <2>4 DEF FetchTyped
    <3>6. /\ fpc' \in [Fetchers -> FetchPlaces] /\ fv' \in [Fetchers -> Vars]
          /\ outcome' \in [Fetchers -> {"none", "ok", "failed", "killed"}]
      BY <1>1, <2>3, <2>4 DEF FetchTyped, Now, Goes, Ended, Says
    <3>7. ro' \in [Distfiles -> Versions] /\ fsm' \in [Distfiles -> Versions]
      BY <1>1, <3>1 DEF FetchTyped
    <3> QED BY <3>1, <3>2, <3>3, <3>4, <3>5, <3>6, <3>7 DEF FetchTyped
  <2>6. OthersStay(p)
    BY <2>3, <2>4 DEF OthersStay, Now, Goes, Ended, Says
  <2>7. LocksStay(p)
    BY <1>1, <1>3, <2>3, <2>4 DEF LocksStay, FetchTyped, Free
  <2>8. FilesStay(p)
    BY <1>1, <2>3, <2>4 DEF FilesStay, FetchTyped, Inside
  <2>9. GoodStays
    BY <1>1, <1>7, <2>1, <2>3, <2>4 DEF GoodStays, Seen, Return, Matches, FullSize, FetchTyped,
       NotThereAt, Searching
  <2>10. restrict' = restrict
    BY <1>7 DEF Return
  <2>11. LockedAt(p)'
    BY <1>1, <1>3, <2>1, <2>3, <2>4 DEF LockedAt, Now, Goes, Ended, Inside, FetchTyped
  <2>12. NotThereAt(p)'
    BY <1>1, <2>1, <2>3, <2>4 DEF NotThereAt, Searching, Now, Goes, Ended, Inside, FetchTyped,
       Pieces
  <2>13. NotYetAt(p)'
    BY <2>1, <2>3, <2>4 DEF NotYetAt, Before, Searching, Now, Goes, Ended, Inside
  <2>14. GoodAt(p)'
    <3>1. Ahead(p) = {}
      BY <2>4 DEF Ahead
    <3>2. Kind[p] = "normal" => \A f \in Digested : Seen(f)' = "good"
      BY <2>1, <2>4, <2>9, <3>1 DEF GoodAt, GoodStays
    <3> QED BY <2>3, <3>2 DEF GoodAt, Ended, Now
  <2>15. TriesAt(p)'
    BY <2>10, SameUris, <2>1, <2>3, <2>4 DEF TriesAt, Before, Searching, Now, Goes, Ended, Inside
  <2> QED BY <2>5, <2>6, <2>7, <2>8, <2>9, <2>10, <2>11, <2>12, <2>13, <2>14, <2>15, StepKeeps
<1>8. ASSUME NEW p \in Fetchers, FileLock(p)
      PROVE  FetchInv'
  <2>1. LockedAt(p) /\ NotThereAt(p) /\ NotYetAt(p) /\ GoodAt(p) /\ TriesAt(p)
    BY DEF FetchInv
  <2>2. Cur(p) \in Distfiles
    BY <1>8, <2>1 DEF LockedAt, FileLock
  <2>3. \/ Goes(p, "check", fv[p].fetched) /\ Free(Cur(p)) /\ locks' = [locks EXCEPT ![Cur(p)] = p]
        \/ Goes(p, "next", fv[p].fetched) /\ Kind[p] # "normal" /\ UNCHANGED locks
    BY <1>0, <1>2, <1>8, <2>1, NowIs DEF FileLock, FetchPlaces, NotYetAt, Before, Searching,
       Inside, Blocking, Free
  <2>4. fpc[p] = "lock" /\ UNCHANGED <<final, down, outcome>>
    BY <1>1, <2>2, <1>8 DEF FileLock, FetchTyped
  <2>5. FetchTyped'
    <3>1. ro' = ro /\ fsm' = fsm /\ layouts' \subseteq Locations /\ termed' \subseteq Fetchers
      BY <1>1, <1>2, <1>3, <1>8, <2>4 DEF FileLock, FetchTyped
    <3>2. saved' \in [Distfiles -> SUBSET Versions]
      BY <1>1, <1>8 DEF FileLock, FetchTyped
    <3>3. final' \in [Distfiles -> Versions \cup {"link"}]
      BY <1>1, <2>2, <2>3, <2>4 DEF FetchTyped, Versions, FullSize
    <3>4. down' \in [Distfiles -> Versions]
      BY <1>1, <2>2, <2>3, <2>4 DEF FetchTyped, Versions
    <3>5. locks' \in [Distfiles \cup Mirrors -> Fetchers \cup {NoFetcher}]
      BY <1>1, <2>2, <2>3, <2>4 DEF FetchTyped
    <3>6. /\ fpc' \in [Fetchers -> FetchPlaces] /\ fv' \in [Fetchers -> Vars]
          /\ outcome' \in [Fetchers -> {"none", "ok", "failed", "killed"}]
      BY <1>1, <2>3, <2>4 DEF FetchTyped, Now, Goes, Ended, Says
    <3>7. ro' \in [Distfiles -> Versions] /\ fsm' \in [Distfiles -> Versions]
      BY <1>1, <3>1 DEF FetchTyped
    <3> QED BY <3>1, <3>2, <3>3, <3>4, <3>5, <3>6, <3>7 DEF FetchTyped
  <2>6. OthersStay(p)
    BY <2>3, <2>4 DEF OthersStay, Now, Goes, Ended, Says
  <2>7. LocksStay(p)
    BY <1>1, <1>3, <2>2, <2>3, <2>4 DEF LocksStay, FetchTyped, Free
  <2>8. FilesStay(p)
    BY <1>1, <2>2, <2>3, <2>4 DEF FilesStay, FetchTyped, Inside
  <2>9. GoodStays
    BY <1>1, <1>8, <2>2, <2>1, <2>3, <2>4
       DEF GoodStays, Seen, FileLock, Matches, FullSize, FetchTyped, NotThereAt, Searching
  <2>10. restrict' = restrict
    BY <1>8 DEF FileLock
  <2>11. LockedAt(p)'
    BY <1>1, <1>3, <2>2, <2>1, <2>3, <2>4 DEF LockedAt, Now, Goes, Ended, Inside, FetchTyped
  <2>12. NotThereAt(p)'
    BY <1>1, <2>2, <2>1, <2>3, <2>4 DEF NotThereAt, Searching, Now, Goes, Ended, Inside,
       FetchTyped, Pieces
  <2>13. NotYetAt(p)'
    BY <2>1, <2>3, <2>4 DEF NotYetAt, Before, Searching, Now, Goes, Ended, Inside
  <2>14. GoodAt(p)'
    BY <1>1, <1>8, <2>2, <2>1, <2>3, <2>4, <2>9
       DEF GoodAt, GoodStays, Ahead, Now, Goes, Ended, Says, AlreadyFetched, Matches, Seen,
       FetchTyped, FileLock
  <2>15. TriesAt(p)'
    BY <2>10, SameUris, <2>2, <2>1, <2>3, <2>4
       DEF TriesAt, Before, Searching, Now, Goes, Ended, Inside
  <2> QED BY <2>5, <2>6, <2>7, <2>8, <2>9, <2>10, <2>11, <2>12, <2>13, <2>14, <2>15, StepKeeps
<1>9. ASSUME NEW p \in Fetchers, CheckFinal(p)
      PROVE  FetchInv'
  <2>1. LockedAt(p) /\ NotThereAt(p) /\ NotYetAt(p) /\ GoodAt(p) /\ TriesAt(p)
    BY DEF FetchInv
  <2>2. Cur(p) \in Distfiles /\ Inside(p) /\ locks[Cur(p)] = p
    BY <1>9, <2>1 DEF LockedAt, Inside, CheckFinal
  <2>3. Goes(p, "unlock", 2)
    BY <1>0, <1>2, <1>9, <2>1, NowIs DEF CheckFinal, FetchPlaces, NotYetAt, Before, Searching,
       Inside
  <2>4. /\ fpc[p] = "check" /\ Matches(p, Cur(p), Seen(Cur(p)))
        /\ UNCHANGED <<final, down, locks, outcome>>
    BY <1>1, <2>2, <1>9 DEF CheckFinal, FetchTyped
  <2>5. FetchTyped'
    <3>1. ro' = ro /\ fsm' = fsm /\ layouts' \subseteq Locations /\ termed' \subseteq Fetchers
      BY <1>1, <1>2, <1>3, <1>9, <2>4 DEF CheckFinal, FetchTyped
    <3>2. saved' \in [Distfiles -> SUBSET Versions]
      BY <1>1, <1>9 DEF CheckFinal, FetchTyped
    <3>3. final' \in [Distfiles -> Versions \cup {"link"}]
      BY <1>1, <2>2, <2>3, <2>4 DEF FetchTyped, Versions, FullSize
    <3>4. down' \in [Distfiles -> Versions]
      BY <1>1, <2>2, <2>3, <2>4 DEF FetchTyped, Versions
    <3>5. locks' \in [Distfiles \cup Mirrors -> Fetchers \cup {NoFetcher}]
      BY <1>1, <2>2, <2>3, <2>4 DEF FetchTyped
    <3>6. /\ fpc' \in [Fetchers -> FetchPlaces] /\ fv' \in [Fetchers -> Vars]
          /\ outcome' \in [Fetchers -> {"none", "ok", "failed", "killed"}]
      BY <1>1, <2>3, <2>4 DEF FetchTyped, Now, Goes, Ended, Says
    <3>7. ro' \in [Distfiles -> Versions] /\ fsm' \in [Distfiles -> Versions]
      BY <1>1, <3>1 DEF FetchTyped
    <3> QED BY <3>1, <3>2, <3>3, <3>4, <3>5, <3>6, <3>7 DEF FetchTyped
  <2>6. OthersStay(p)
    BY <2>3, <2>4 DEF OthersStay, Now, Goes, Ended, Says
  <2>7. LocksStay(p)
    BY <1>1, <1>3, <2>2, <2>3, <2>4 DEF LocksStay, FetchTyped, Free
  <2>8. FilesStay(p)
    BY <1>1, <2>2, <2>3, <2>4 DEF FilesStay, FetchTyped, Inside
  <2>9. GoodStays
    BY <1>1, <1>9, <2>2, <2>1, <2>3, <2>4
       DEF GoodStays, Seen, CheckFinal, Matches, FullSize, FetchTyped, NotThereAt, Searching
  <2>10. restrict' = restrict
    BY <1>9 DEF CheckFinal
  <2>11. LockedAt(p)'
    BY <1>1, <1>3, <2>2, <2>1, <2>3, <2>4 DEF LockedAt, Now, Goes, Ended, Inside, FetchTyped
  <2>12. NotThereAt(p)'
    BY <1>1, <2>2, <2>1, <2>3, <2>4 DEF NotThereAt, Searching, Now, Goes, Ended, Inside,
       FetchTyped, Pieces
  <2>13. NotYetAt(p)'
    BY <2>1, <2>3, <2>4 DEF NotYetAt, Before, Searching, Now, Goes, Ended, Inside
  <2>14. GoodAt(p)'
    BY <1>1, <1>9, <2>2, <2>1, <2>3, <2>4, <2>9
       DEF GoodAt, GoodStays, Ahead, Now, Goes, Ended, Says, AlreadyFetched, Matches, Seen,
       FetchTyped, CheckFinal
  <2>15. TriesAt(p)'
    BY <2>10, SameUris, <2>2, <2>1, <2>3, <2>4
       DEF TriesAt, Before, Searching, Now, Goes, Ended, Inside
  <2> QED BY <2>5, <2>6, <2>7, <2>8, <2>9, <2>10, <2>11, <2>12, <2>13, <2>14, <2>15, StepKeeps
<1>10. ASSUME NEW p \in Fetchers, CheckAway(p)
      PROVE  FetchInv'
  <2>1. LockedAt(p) /\ NotThereAt(p) /\ NotYetAt(p) /\ GoodAt(p) /\ TriesAt(p)
    BY DEF FetchInv
  <2>2. Cur(p) \in Distfiles /\ Inside(p) /\ locks[Cur(p)] = p
    BY <1>10, <2>1 DEF LockedAt, Inside, CheckAway
  <2>3. Goes(p, "mirrors", fv[p].fetched)
    BY <1>0, <1>2, <1>10, <2>1, NowIs DEF CheckAway, FetchPlaces, NotYetAt, Before, Searching,
       Inside
  <2>4. /\ fpc[p] = "check" /\ ~Matches(p, Cur(p), Seen(Cur(p)))
        /\ final' = [final EXCEPT ![Cur(p)] = "none"] /\ final'[Cur(p)] = "none"
        /\ down' = [down EXCEPT ![Cur(p)] = IF @ \in {"empty"} \cup Stale(Cur(p)) THEN "none" ELSE @]
        /\ Cur(p) \in Digested => down'[Cur(p)] \in {"none"} \cup Pieces
        /\ UNCHANGED <<locks, outcome>>
    BY <1>1, <2>2, <1>10 DEF CheckAway, FetchTyped, Stale, Pieces, FullSize, Versions
  <2>5. FetchTyped'
    <3>1. ro' = ro /\ fsm' = fsm /\ layouts' \subseteq Locations /\ termed' \subseteq Fetchers
      BY <1>1, <1>2, <1>3, <1>10, <2>4 DEF CheckAway, FetchTyped
    <3>2. saved' \in [Distfiles -> SUBSET Versions]
      BY <1>1, <1>10, <2>2, FetchAssumption
         DEF CheckAway, FetchTyped, Save, Stale, Pieces, FullSize, Versions
    <3>3. final' \in [Distfiles -> Versions \cup {"link"}]
      BY <1>1, <2>2, <2>3, <2>4 DEF FetchTyped, Versions, FullSize
    <3>4. down' \in [Distfiles -> Versions]
      BY <1>1, <2>2, <2>3, <2>4 DEF FetchTyped, Versions
    <3>5. locks' \in [Distfiles \cup Mirrors -> Fetchers \cup {NoFetcher}]
      BY <1>1, <2>2, <2>3, <2>4 DEF FetchTyped
    <3>6. /\ fpc' \in [Fetchers -> FetchPlaces] /\ fv' \in [Fetchers -> Vars]
          /\ outcome' \in [Fetchers -> {"none", "ok", "failed", "killed"}]
      BY <1>1, <2>3, <2>4 DEF FetchTyped, Now, Goes, Ended, Says
    <3>7. ro' \in [Distfiles -> Versions] /\ fsm' \in [Distfiles -> Versions]
      BY <1>1, <3>1 DEF FetchTyped
    <3> QED BY <3>1, <3>2, <3>3, <3>4, <3>5, <3>6, <3>7 DEF FetchTyped
  <2>6. OthersStay(p)
    BY <2>3, <2>4 DEF OthersStay, Now, Goes, Ended, Says
  <2>7. LocksStay(p)
    BY <1>1, <1>3, <2>2, <2>3, <2>4 DEF LocksStay, FetchTyped, Free
  <2>8. FilesStay(p)
    BY <1>1, <2>2, <2>3, <2>4 DEF FilesStay, FetchTyped, Inside
  <2>9. GoodStays
    BY <1>1, <1>10, <2>2, <2>1, <2>3, <2>4
       DEF GoodStays, Seen, CheckAway, Matches, FullSize, FetchTyped, NotThereAt, Searching
  <2>10. restrict' = restrict
    BY <1>10 DEF CheckAway
  <2>11. LockedAt(p)'
    BY <1>1, <1>3, <2>2, <2>1, <2>3, <2>4 DEF LockedAt, Now, Goes, Ended, Inside, FetchTyped
  <2>12. NotThereAt(p)'
    BY <1>1, <2>2, <2>1, <2>3, <2>4 DEF NotThereAt, Searching, Now, Goes, Ended, Inside,
       FetchTyped, Pieces
  <2>13. NotYetAt(p)'
    BY <2>1, <2>3, <2>4 DEF NotYetAt, Before, Searching, Now, Goes, Ended, Inside
  <2>14. GoodAt(p)'
    BY <1>1, <1>10, <2>2, <2>1, <2>3, <2>4, <2>9
       DEF GoodAt, GoodStays, Ahead, Now, Goes, Ended, Says, AlreadyFetched, Matches, Seen,
       FetchTyped, CheckAway
  <2>15. TriesAt(p)'
    BY <2>10, SameUris, <2>2, <2>1, <2>3, <2>4
       DEF TriesAt, Before, Searching, Now, Goes, Ended, Inside
  <2> QED BY <2>5, <2>6, <2>7, <2>8, <2>9, <2>10, <2>11, <2>12, <2>13, <2>14, <2>15, StepKeeps
<1>11. ASSUME NEW p \in Fetchers, LinkToRo(p)
      PROVE  FetchInv'
  <2>1. LockedAt(p) /\ NotThereAt(p) /\ NotYetAt(p) /\ GoodAt(p) /\ TriesAt(p)
    BY DEF FetchInv
  <2>2. Cur(p) \in Distfiles /\ Inside(p) /\ locks[Cur(p)] = p
    BY <1>11, <2>1 DEF LockedAt, Inside, LinkToRo
  <2>3. Goes(p, "unlock", 2)
    BY <1>0, <1>2, <1>11, <2>1, NowIs DEF LinkToRo, FetchPlaces, NotYetAt, Before, Searching,
       Inside
  <2>4. /\ fpc[p] = "mirrors" /\ Matches(p, Cur(p), ro[Cur(p)])
        /\ final' = [final EXCEPT ![Cur(p)] = "link"] /\ final'[Cur(p)] = "link"
        /\ UNCHANGED <<down, locks, outcome>>
    BY <1>1, <2>2, <1>11 DEF LinkToRo, FetchTyped
  <2>5. FetchTyped'
    <3>1. ro' = ro /\ fsm' = fsm /\ layouts' \subseteq Locations /\ termed' \subseteq Fetchers
      BY <1>1, <1>2, <1>3, <1>11, <2>4 DEF LinkToRo, FetchTyped
    <3>2. saved' \in [Distfiles -> SUBSET Versions]
      BY <1>1, <1>11 DEF LinkToRo, FetchTyped
    <3>3. final' \in [Distfiles -> Versions \cup {"link"}]
      BY <1>1, <2>2, <2>3, <2>4 DEF FetchTyped, Versions, FullSize
    <3>4. down' \in [Distfiles -> Versions]
      BY <1>1, <2>2, <2>3, <2>4 DEF FetchTyped, Versions
    <3>5. locks' \in [Distfiles \cup Mirrors -> Fetchers \cup {NoFetcher}]
      BY <1>1, <2>2, <2>3, <2>4 DEF FetchTyped
    <3>6. /\ fpc' \in [Fetchers -> FetchPlaces] /\ fv' \in [Fetchers -> Vars]
          /\ outcome' \in [Fetchers -> {"none", "ok", "failed", "killed"}]
      BY <1>1, <2>3, <2>4 DEF FetchTyped, Now, Goes, Ended, Says
    <3>7. ro' \in [Distfiles -> Versions] /\ fsm' \in [Distfiles -> Versions]
      BY <1>1, <3>1 DEF FetchTyped
    <3> QED BY <3>1, <3>2, <3>3, <3>4, <3>5, <3>6, <3>7 DEF FetchTyped
  <2>6. OthersStay(p)
    BY <2>3, <2>4 DEF OthersStay, Now, Goes, Ended, Says
  <2>7. LocksStay(p)
    BY <1>1, <1>3, <2>2, <2>3, <2>4 DEF LocksStay, FetchTyped, Free
  <2>8. FilesStay(p)
    BY <1>1, <2>2, <2>3, <2>4 DEF FilesStay, FetchTyped, Inside
  <2>9. GoodStays
    BY <1>1, <1>11, <2>2, <2>1, <2>3, <2>4
       DEF GoodStays, Seen, LinkToRo, Matches, FullSize, FetchTyped, NotThereAt, Searching
  <2>10. restrict' = restrict
    BY <1>11 DEF LinkToRo
  <2>11. LockedAt(p)'
    BY <1>1, <1>3, <2>2, <2>1, <2>3, <2>4 DEF LockedAt, Now, Goes, Ended, Inside, FetchTyped
  <2>12. NotThereAt(p)'
    BY <1>1, <2>2, <2>1, <2>3, <2>4 DEF NotThereAt, Searching, Now, Goes, Ended, Inside,
       FetchTyped, Pieces
  <2>13. NotYetAt(p)'
    BY <2>1, <2>3, <2>4 DEF NotYetAt, Before, Searching, Now, Goes, Ended, Inside
  <2>14. GoodAt(p)'
    BY <1>1, <1>11, <2>2, <2>1, <2>3, <2>4, <2>9
       DEF GoodAt, GoodStays, Ahead, Now, Goes, Ended, Says, AlreadyFetched, Matches, Seen,
       FetchTyped, LinkToRo
  <2>15. TriesAt(p)'
    BY <2>10, SameUris, <2>2, <2>1, <2>3, <2>4
       DEF TriesAt, Before, Searching, Now, Goes, Ended, Inside
  <2> QED BY <2>5, <2>6, <2>7, <2>8, <2>9, <2>10, <2>11, <2>12, <2>13, <2>14, <2>15, StepKeeps
<1>12. ASSUME NEW p \in Fetchers, CopyFromMirror(p)
      PROVE  FetchInv'
  <2>1. LockedAt(p) /\ NotThereAt(p) /\ NotYetAt(p) /\ GoodAt(p) /\ TriesAt(p)
    BY DEF FetchInv
  <2>2. Cur(p) \in Distfiles /\ Inside(p) /\ locks[Cur(p)] = p
    BY <1>12, <2>1 DEF LockedAt, Inside, CopyFromMirror
  <2>3. Goes(p, "present", fv[p].fetched)
    BY <1>0, <1>2, <1>12, <2>1, NowIs DEF CopyFromMirror, FetchPlaces, NotYetAt, Before,
       Searching, Inside
  <2>4. /\ fpc[p] = "mirrors"
        /\ down' = [down EXCEPT ![Cur(p)] = IF fsm[Cur(p)] # "none" /\ fv[p].space THEN fsm[Cur(p)] ELSE @]
        /\ UNCHANGED <<final, locks, outcome>>
    BY <1>1, <2>2, <1>12 DEF CopyFromMirror, FetchTyped
  <2>5. FetchTyped'
    <3>1. ro' = ro /\ fsm' = fsm /\ layouts' \subseteq Locations /\ termed' \subseteq Fetchers
      BY <1>1, <1>2, <1>3, <1>12, <2>4 DEF CopyFromMirror, FetchTyped
    <3>2. saved' \in [Distfiles -> SUBSET Versions]
      BY <1>1, <1>12 DEF CopyFromMirror, FetchTyped
    <3>3. final' \in [Distfiles -> Versions \cup {"link"}]
      BY <1>1, <2>2, <2>3, <2>4 DEF FetchTyped, Versions, FullSize
    <3>4. down' \in [Distfiles -> Versions]
      BY <1>1, <2>2, <2>3, <2>4 DEF FetchTyped, Versions
    <3>5. locks' \in [Distfiles \cup Mirrors -> Fetchers \cup {NoFetcher}]
      BY <1>1, <2>2, <2>3, <2>4 DEF FetchTyped
    <3>6. /\ fpc' \in [Fetchers -> FetchPlaces] /\ fv' \in [Fetchers -> Vars]
          /\ outcome' \in [Fetchers -> {"none", "ok", "failed", "killed"}]
      BY <1>1, <2>3, <2>4 DEF FetchTyped, Now, Goes, Ended, Says
    <3>7. ro' \in [Distfiles -> Versions] /\ fsm' \in [Distfiles -> Versions]
      BY <1>1, <3>1 DEF FetchTyped
    <3> QED BY <3>1, <3>2, <3>3, <3>4, <3>5, <3>6, <3>7 DEF FetchTyped
  <2>6. OthersStay(p)
    BY <2>3, <2>4 DEF OthersStay, Now, Goes, Ended, Says
  <2>7. LocksStay(p)
    BY <1>1, <1>3, <2>2, <2>3, <2>4 DEF LocksStay, FetchTyped, Free
  <2>8. FilesStay(p)
    BY <1>1, <2>2, <2>3, <2>4 DEF FilesStay, FetchTyped, Inside
  <2>9. GoodStays
    BY <1>1, <1>12, <2>2, <2>1, <2>3, <2>4
       DEF GoodStays, Seen, CopyFromMirror, Matches, FullSize, FetchTyped, NotThereAt, Searching
  <2>10. restrict' = restrict
    BY <1>12 DEF CopyFromMirror
  <2>11. LockedAt(p)'
    BY <1>1, <1>3, <2>2, <2>1, <2>3, <2>4 DEF LockedAt, Now, Goes, Ended, Inside, FetchTyped
  <2>12. NotThereAt(p)'
    BY <1>1, <2>2, <2>1, <2>3, <2>4 DEF NotThereAt, Searching, Now, Goes, Ended, Inside,
       FetchTyped, Pieces
  <2>13. NotYetAt(p)'
    BY <2>1, <2>3, <2>4 DEF NotYetAt, Before, Searching, Now, Goes, Ended, Inside
  <2>14. GoodAt(p)'
    BY <1>1, <1>12, <2>2, <2>1, <2>3, <2>4, <2>9
       DEF GoodAt, GoodStays, Ahead, Now, Goes, Ended, Says, AlreadyFetched, Matches, Seen,
       FetchTyped, CopyFromMirror
  <2>15. TriesAt(p)'
    BY <2>10, SameUris, <2>2, <2>1, <2>3, <2>4
       DEF TriesAt, Before, Searching, Now, Goes, Ended, Inside
  <2> QED BY <2>5, <2>6, <2>7, <2>8, <2>9, <2>10, <2>11, <2>12, <2>13, <2>14, <2>15, StepKeeps
<1>13. ASSUME NEW p \in Fetchers, CheckDownload(p)
      PROVE  FetchInv'
  <2>1. LockedAt(p) /\ NotThereAt(p) /\ NotYetAt(p) /\ GoodAt(p) /\ TriesAt(p)
    BY DEF FetchInv
  <2>2. Cur(p) \in Distfiles /\ Inside(p) /\ locks[Cur(p)] = p
    BY <1>13, <2>1 DEF LockedAt, Inside, CheckDownload
  <2>3. \/ Goes(p, "uris", 0) /\ down[Cur(p)] = "none" /\ UNCHANGED <<final, down>>
        \/ /\ Goes(p, "uris", 1) /\ (Cur(p) \in Digested => down[Cur(p)] \in Pieces)
           /\ UNCHANGED <<final, down>>
        \/ Goes(p, "unlock", 2) /\ Kind[p] = "prefetch" /\ UNCHANGED <<final, down>>
        \/ /\ Goes(p, "unlock", 2) /\ final' = [final EXCEPT ![Cur(p)] = "good"]
           /\ final'[Cur(p)] = "good" /\ down' = [down EXCEPT ![Cur(p)] = "none"]
        \/ /\ Goes(p, "uris", 0) /\ UNCHANGED final
           /\ down' = [down EXCEPT ![Cur(p)] = "none"] /\ down'[Cur(p)] = "none"
    <3>1. \A n \in {0, 1, 2}, at \in {"uris", "unlock"} :
            To(p, at) /\ fv' = [fv EXCEPT ![p].fetched = n] => Goes(p, at, n)
      BY <1>0, NowIs, ZenonT(60) DEF FetchPlaces
    <3> DEFINE c == Cur(p)
               resumable == c \notin Digested \/ (down[c] \in Pieces /\ "fetch" \notin restrict)
    <3>2. final \in [Distfiles -> Versions \cup {"link"}] /\ down \in [Distfiles -> Versions]
      BY <1>1 DEF FetchTyped
    <3>3. CASE down[c] = "none"
      BY <1>13, <3>1, <3>3 DEF CheckDownload
    <3>4. CASE down[c] # "none" /\ resumable
      BY <1>13, <3>1, <3>4 DEF CheckDownload, Pieces
    <3>5. CASE down[c] \in FullSize /\ ~resumable /\ Kind[p] = "prefetch"
      BY <1>13, <3>1, <3>5 DEF CheckDownload, FullSize
    <3>6. CASE down[c] = "good" /\ ~resumable /\ Kind[p] # "prefetch"
      BY <1>13, <2>2, <3>1, <3>2, <3>6 DEF CheckDownload
    <3>7. CASE ~(\/ down[c] = "none" \/ (down[c] # "none" /\ resumable)
                 \/ (down[c] \in FullSize /\ ~resumable /\ Kind[p] = "prefetch")
                 \/ (down[c] = "good" /\ ~resumable /\ Kind[p] # "prefetch"))
      BY <1>13, <2>2, <3>1, <3>2, <3>7 DEF CheckDownload
    <3> QED BY <3>3, <3>4, <3>5, <3>6, <3>7
  <2>4. fpc[p] = "present" /\ UNCHANGED <<locks, outcome>>
    BY <1>1, <2>2, <1>13 DEF CheckDownload, FetchTyped
  <2>5. FetchTyped'
    <3>1. ro' = ro /\ fsm' = fsm /\ layouts' \subseteq Locations /\ termed' \subseteq Fetchers
      BY <1>1, <1>2, <1>3, <1>13, <2>4 DEF CheckDownload, FetchTyped
    <3>2. saved' \in [Distfiles -> SUBSET Versions]
      <4>1. UNCHANGED saved \/ saved' = [saved EXCEPT ![Cur(p)] = @ \cup {down[Cur(p)]}]
        BY <1>13 DEF CheckDownload, Save
      <4> QED BY <1>1, <2>2, <4>1 DEF FetchTyped
    <3>3. final' \in [Distfiles -> Versions \cup {"link"}]
      BY <1>1, <2>2, <2>3, <2>4 DEF FetchTyped, Versions, FullSize
    <3>4. down' \in [Distfiles -> Versions]
      BY <1>1, <2>2, <2>3, <2>4 DEF FetchTyped, Versions
    <3>5. locks' \in [Distfiles \cup Mirrors -> Fetchers \cup {NoFetcher}]
      BY <1>1, <2>2, <2>3, <2>4 DEF FetchTyped
    <3>6. /\ fpc' \in [Fetchers -> FetchPlaces] /\ fv' \in [Fetchers -> Vars]
          /\ outcome' \in [Fetchers -> {"none", "ok", "failed", "killed"}]
      BY <1>1, <2>3, <2>4 DEF FetchTyped, Now, Goes, Ended, Says
    <3>7. ro' \in [Distfiles -> Versions] /\ fsm' \in [Distfiles -> Versions]
      BY <1>1, <3>1 DEF FetchTyped
    <3> QED BY <3>1, <3>2, <3>3, <3>4, <3>5, <3>6, <3>7 DEF FetchTyped
  <2>6. OthersStay(p)
    BY <2>3, <2>4 DEF OthersStay, Now, Goes, Ended, Says
  <2>7. LocksStay(p)
    BY <1>1, <1>3, <2>2, <2>3, <2>4 DEF LocksStay, FetchTyped, Free
  <2>8. FilesStay(p)
    BY <1>1, <2>2, <2>3, <2>4 DEF FilesStay, FetchTyped, Inside
  <2>9. GoodStays
    <3>1. ro' = ro
      BY <1>13 DEF CheckDownload
    <3>2. final' = final \/ final' = [final EXCEPT ![Cur(p)] = "good"]
      BY <2>3
    <3> QED BY <1>1, <2>2, <3>1, <3>2, FetchAssumption DEF GoodStays, Seen, FetchTyped
  <2>10. restrict' = restrict
    BY <1>13 DEF CheckDownload
  <2>11. LockedAt(p)'
    BY <1>1, <1>3, <2>2, <2>1, <2>3, <2>4 DEF LockedAt, Now, Goes, Ended, Inside, FetchTyped
  <2>12. NotThereAt(p)'
    BY <1>1, <2>2, <2>1, <2>3, <2>4 DEF NotThereAt, Searching, Now, Goes, Ended, Inside,
       FetchTyped, Pieces
  <2>13. NotYetAt(p)'
    BY <2>1, <2>3, <2>4 DEF NotYetAt, Before, Searching, Now, Goes, Ended, Inside
  <2>14. GoodAt(p)'
    BY <1>1, <1>13, <2>2, <2>1, <2>3, <2>4, <2>9
       DEF GoodAt, GoodStays, Ahead, Now, Goes, Ended, Says, AlreadyFetched, Matches, Seen,
       FetchTyped, CheckDownload
  <2>15. TriesAt(p)'
    BY <2>10, SameUris, <2>2, <2>1, <2>3, <2>4
       DEF TriesAt, Before, Searching, Now, Goes, Ended, Inside
  <2> QED BY <2>5, <2>6, <2>7, <2>8, <2>9, <2>10, <2>11, <2>12, <2>13, <2>14, <2>15, StepKeeps
<1>14. ASSUME NEW p \in Fetchers, NextUri(p)
      PROVE  FetchInv'
  <2>1. LockedAt(p) /\ NotThereAt(p) /\ NotYetAt(p) /\ GoodAt(p) /\ TriesAt(p)
    BY DEF FetchInv
  <2>2. Cur(p) \in Distfiles /\ Inside(p) /\ locks[Cur(p)] = p
    BY <1>14, <2>1 DEF LockedAt, Inside, NextUri
  <2>3. LET loc == Head(fv[p].uris) IN
        \E to \in {"layout", "uris", "command"} :
          /\ to = "layout" => loc \in Mirrors
          /\ Now(p, to, fv[p].todo, Cur(p), loc, Tail(fv[p].uris), fv[p].tried \cup {loc}, fv[p].fetched,
                 fv[p].fails)
    <3> DEFINE loc == Head(fv[p].uris)
               u == Tail(fv[p].uris)
               to == IF loc \in Mirrors /\ loc \notin layouts /\ loc \notin fv[p].tried THEN "layout"
                     ELSE IF loc \in fv[p].tried \/ ~fv[p].space THEN "uris" ELSE "command"
    <3>1. loc \in Locations /\ u \in Seq(Locations) /\ layouts \in SUBSET Locations
      BY <1>1, <1>2, <1>14, Elements DEF NextUri, FetchTyped
    <3>2. /\ fv' = [fv EXCEPT ![p].uris = u, ![p].tried = @ \cup {loc}, ![p].loc = loc, ![p].cache = layouts]
          /\ To(p, to)
      BY <1>0, <1>2, <1>14 DEF NextUri, Vars
    <3>3. to \in FetchPlaces /\ to \in {"layout", "uris", "command"} /\ (to = "layout" => loc \in Mirrors)
      BY DEF FetchPlaces
    <3> HIDE DEF loc, u, to
    <3>4. Now(p, to, fv[p].todo, Cur(p), loc, u, fv[p].tried \cup {loc}, fv[p].fetched, fv[p].fails)
      BY <1>0, <3>1, <3>2, <3>3, NowIs
    <3> QED BY <3>3, <3>4 DEF loc, u
  <2>4. fpc[p] = "uris" /\ fv[p].uris # << >> /\ UNCHANGED <<final, down, locks, outcome>>
    BY <1>1, <2>2, <1>14 DEF NextUri, FetchTyped
  <2>5. FetchTyped'
    <3>1. ro' = ro /\ fsm' = fsm /\ layouts' \subseteq Locations /\ termed' \subseteq Fetchers
      BY <1>1, <1>2, <1>3, <1>14, <2>4 DEF NextUri, FetchTyped
    <3>2. saved' \in [Distfiles -> SUBSET Versions]
      BY <1>1, <1>14 DEF NextUri, FetchTyped
    <3>3. final' \in [Distfiles -> Versions \cup {"link"}]
      BY <1>1, <2>2, <2>3, <2>4 DEF FetchTyped, Versions, FullSize
    <3>4. down' \in [Distfiles -> Versions]
      BY <1>1, <2>2, <2>3, <2>4 DEF FetchTyped, Versions
    <3>5. locks' \in [Distfiles \cup Mirrors -> Fetchers \cup {NoFetcher}]
      BY <1>1, <2>2, <2>3, <2>4 DEF FetchTyped
    <3>6. /\ fpc' \in [Fetchers -> FetchPlaces] /\ fv' \in [Fetchers -> Vars]
          /\ outcome' \in [Fetchers -> {"none", "ok", "failed", "killed"}]
      BY <1>1, <2>3, <2>4 DEF FetchTyped, Now, Goes, Ended, Says
    <3>7. ro' \in [Distfiles -> Versions] /\ fsm' \in [Distfiles -> Versions]
      BY <1>1, <3>1 DEF FetchTyped
    <3> QED BY <3>1, <3>2, <3>3, <3>4, <3>5, <3>6, <3>7 DEF FetchTyped
  <2>6. OthersStay(p)
    BY <2>3, <2>4 DEF OthersStay, Now, Goes, Ended, Says
  <2>7. LocksStay(p)
    BY <1>1, <1>3, <2>2, <2>3, <2>4 DEF LocksStay, FetchTyped, Free
  <2>8. FilesStay(p)
    BY <1>1, <2>2, <2>3, <2>4 DEF FilesStay, FetchTyped, Inside
  <2>9. GoodStays
    BY <1>1, <1>14, <2>2, <2>1, <2>3, <2>4
       DEF GoodStays, Seen, NextUri, Matches, FullSize, FetchTyped, NotThereAt, Searching
  <2>10. restrict' = restrict
    BY <1>14 DEF NextUri
  <2>11. LockedAt(p)'
    BY <1>1, <1>3, <2>2, <2>1, <2>3, <2>4 DEF LockedAt, Now, Goes, Ended, Inside, FetchTyped
  <2>12. NotThereAt(p)'
    BY <1>1, <2>2, <2>1, <2>3, <2>4 DEF NotThereAt, Searching, Now, Goes, Ended, Inside,
       FetchTyped, Pieces
  <2>13. NotYetAt(p)'
    BY <2>1, <2>3, <2>4 DEF NotYetAt, Before, Searching, Now, Goes, Ended, Inside
  <2>14. GoodAt(p)'
    BY <1>1, <1>14, <2>2, <2>1, <2>3, <2>4, <2>9
       DEF GoodAt, GoodStays, Ahead, Now, Goes, Ended, Says, AlreadyFetched, Matches, Seen,
       FetchTyped, NextUri
  <2>15. TriesAt(p)'
    <3> DEFINE s == fv[p].uris
    <3>1. s \in Seq(Locations) /\ s # << >> /\ fpc[p] = "uris"
      BY <1>2, <2>4
    <3>2. ToSet(s) = {Head(s)} \cup ToSet(Tail(s))
      BY <3>1, Elements
    <3>3. /\ fv'[p].tried = fv[p].tried \cup {Head(s)} /\ fv'[p].uris = Tail(s)
          /\ fv'[p].cur = fv[p].cur /\ fv'[p].fails = fv[p].fails
          /\ fpc'[p] \in {"layout", "uris", "command"}
      BY <2>3 DEF Now
    <3>4. UrisOf(Cur(p))' = UrisOf(Cur(p))
      BY <2>10, <3>3, SameUris
    <3> HIDE DEF s
    <3>5. fv[p].tried \cup ToSet(s) = ToSet(UrisOf(Cur(p))) /\ fv[p].fails < MaxTries
      BY <2>1, <3>1 DEF TriesAt, Before, Searching, Inside, s
    <3> QED BY <3>2, <3>3, <3>4, <3>5 DEF TriesAt, Before, Searching, Inside
  <2> QED BY <2>5, <2>6, <2>7, <2>8, <2>9, <2>10, <2>11, <2>12, <2>13, <2>14, <2>15, StepKeeps
<1>15. ASSUME NEW p \in Fetchers, GiveUp(p)
      PROVE  FetchInv'
  <2>1. LockedAt(p) /\ NotThereAt(p) /\ NotYetAt(p) /\ GoodAt(p) /\ TriesAt(p)
    BY DEF FetchInv
  <2>2. Cur(p) \in Distfiles /\ Inside(p) /\ locks[Cur(p)] = p
    BY <1>15, <2>1 DEF LockedAt, Inside, GiveUp
  <2>3. Goes(p, "unlock", fv[p].fetched)
    BY <1>0, <1>2, <1>15, <2>1, NowIs DEF GiveUp, FetchPlaces, NotYetAt, Before, Searching, Inside
  <2>4. fpc[p] = "uris" /\ fv[p].uris = << >> /\ UNCHANGED <<final, down, locks, outcome>>
    BY <1>1, <2>2, <1>15 DEF GiveUp, FetchTyped
  <2>5. FetchTyped'
    <3>1. ro' = ro /\ fsm' = fsm /\ layouts' \subseteq Locations /\ termed' \subseteq Fetchers
      BY <1>1, <1>2, <1>3, <1>15, <2>4 DEF GiveUp, FetchTyped
    <3>2. saved' \in [Distfiles -> SUBSET Versions]
      BY <1>1, <1>15 DEF GiveUp, FetchTyped
    <3>3. final' \in [Distfiles -> Versions \cup {"link"}]
      BY <1>1, <2>2, <2>3, <2>4 DEF FetchTyped, Versions, FullSize
    <3>4. down' \in [Distfiles -> Versions]
      BY <1>1, <2>2, <2>3, <2>4 DEF FetchTyped, Versions
    <3>5. locks' \in [Distfiles \cup Mirrors -> Fetchers \cup {NoFetcher}]
      BY <1>1, <2>2, <2>3, <2>4 DEF FetchTyped
    <3>6. /\ fpc' \in [Fetchers -> FetchPlaces] /\ fv' \in [Fetchers -> Vars]
          /\ outcome' \in [Fetchers -> {"none", "ok", "failed", "killed"}]
      BY <1>1, <2>3, <2>4 DEF FetchTyped, Now, Goes, Ended, Says
    <3>7. ro' \in [Distfiles -> Versions] /\ fsm' \in [Distfiles -> Versions]
      BY <1>1, <3>1 DEF FetchTyped
    <3> QED BY <3>1, <3>2, <3>3, <3>4, <3>5, <3>6, <3>7 DEF FetchTyped
  <2>6. OthersStay(p)
    BY <2>3, <2>4 DEF OthersStay, Now, Goes, Ended, Says
  <2>7. LocksStay(p)
    BY <1>1, <1>3, <2>2, <2>3, <2>4 DEF LocksStay, FetchTyped, Free
  <2>8. FilesStay(p)
    BY <1>1, <2>2, <2>3, <2>4 DEF FilesStay, FetchTyped, Inside
  <2>9. GoodStays
    BY <1>1, <1>15, <2>2, <2>1, <2>3, <2>4
       DEF GoodStays, Seen, GiveUp, Matches, FullSize, FetchTyped, NotThereAt, Searching
  <2>10. restrict' = restrict
    BY <1>15 DEF GiveUp
  <2>11. LockedAt(p)'
    BY <1>1, <1>3, <2>2, <2>1, <2>3, <2>4 DEF LockedAt, Now, Goes, Ended, Inside, FetchTyped
  <2>12. NotThereAt(p)'
    BY <1>1, <2>2, <2>1, <2>3, <2>4 DEF NotThereAt, Searching, Now, Goes, Ended, Inside,
       FetchTyped, Pieces
  <2>13. NotYetAt(p)'
    BY <2>1, <2>3, <2>4 DEF NotYetAt, Before, Searching, Now, Goes, Ended, Inside
  <2>14. GoodAt(p)'
    <3>1. fv[p].fetched # 2
      BY <2>1, <2>4 DEF NotYetAt, Before, Searching, Inside
    <3>2. Ahead(p)' = Ahead(p)
      BY <2>3, <2>4, <3>1 DEF Ahead, Goes, Now
    <3> QED BY <2>1, <2>3, <2>4, <2>9, <3>2 DEF GoodAt, GoodStays, Goes, Now
  <2>15. TriesAt(p)'
    BY <2>10, SameUris, <2>2, <2>1, <2>3, <2>4
       DEF TriesAt, Before, Searching, Now, Goes, Ended, Inside
  <2> QED BY <2>5, <2>6, <2>7, <2>8, <2>9, <2>10, <2>11, <2>12, <2>13, <2>14, <2>15, StepKeeps
<1>16. ASSUME NEW p \in Fetchers, LayoutLock(p)
      PROVE  FetchInv'
  <2>1. LockedAt(p) /\ NotThereAt(p) /\ NotYetAt(p) /\ GoodAt(p) /\ TriesAt(p)
    BY DEF FetchInv
  <2>2. Cur(p) \in Distfiles /\ Inside(p) /\ locks[Cur(p)] = p
    BY <1>16, <2>1 DEF LockedAt, Inside, LayoutLock
  <2>3. \/ Goes(p, "layoutfetch", fv[p].fetched) /\ locks' = [locks EXCEPT ![fv[p].loc] = p]
        \/ (\E to \in {"command", "uris"} : Goes(p, to, fv[p].fetched)) /\ UNCHANGED locks
    BY <1>0, <1>2, <1>16, <2>1, NowIs DEF LayoutLock, FetchPlaces, NotYetAt, Before, Searching,
       Inside, AfterLayout
  <2>4. /\ fpc[p] = "layout" /\ fv[p].loc \in Mirrors /\ UNCHANGED <<final, down, outcome>>
        /\ locks' # locks => Free(fv[p].loc)
    BY <1>1, <2>2, <1>16, <2>1 DEF LayoutLock, FetchTyped, LockedAt
  <2>5. FetchTyped'
    <3>1. ro' = ro /\ fsm' = fsm /\ layouts' \subseteq Locations /\ termed' \subseteq Fetchers
      BY <1>1, <1>2, <1>3, <1>16, <2>4 DEF LayoutLock, FetchTyped
    <3>2. saved' \in [Distfiles -> SUBSET Versions]
      BY <1>1, <1>16 DEF LayoutLock, FetchTyped
    <3>3. final' \in [Distfiles -> Versions \cup {"link"}]
      BY <1>1, <2>2, <2>3, <2>4 DEF FetchTyped, Versions, FullSize
    <3>4. down' \in [Distfiles -> Versions]
      BY <1>1, <2>2, <2>3, <2>4 DEF FetchTyped, Versions
    <3>5. locks' \in [Distfiles \cup Mirrors -> Fetchers \cup {NoFetcher}]
      BY <1>1, <2>2, <2>3, <2>4 DEF FetchTyped
    <3>6. /\ fpc' \in [Fetchers -> FetchPlaces] /\ fv' \in [Fetchers -> Vars]
          /\ outcome' \in [Fetchers -> {"none", "ok", "failed", "killed"}]
      BY <1>1, <2>3, <2>4 DEF FetchTyped, Now, Goes, Ended, Says
    <3>7. ro' \in [Distfiles -> Versions] /\ fsm' \in [Distfiles -> Versions]
      BY <1>1, <3>1 DEF FetchTyped
    <3> QED BY <3>1, <3>2, <3>3, <3>4, <3>5, <3>6, <3>7 DEF FetchTyped
  <2>6. OthersStay(p)
    BY <2>3, <2>4 DEF OthersStay, Now, Goes, Ended, Says
  <2>7. LocksStay(p)
    BY <1>1, <1>3, <2>2, <2>3, <2>4 DEF LocksStay, FetchTyped, Free
  <2>8. FilesStay(p)
    BY <1>1, <2>2, <2>3, <2>4 DEF FilesStay, FetchTyped, Inside
  <2>9. GoodStays
    BY <1>1, <1>16, <2>2, <2>1, <2>3, <2>4
       DEF GoodStays, Seen, LayoutLock, Matches, FullSize, FetchTyped, NotThereAt, Searching
  <2>10. restrict' = restrict
    BY <1>16 DEF LayoutLock
  <2>11. LockedAt(p)'
    BY <1>1, <1>3, <2>2, <2>1, <2>3, <2>4 DEF LockedAt, Now, Goes, Ended, Inside, FetchTyped
  <2>12. NotThereAt(p)'
    BY <1>1, <2>2, <2>1, <2>3, <2>4 DEF NotThereAt, Searching, Now, Goes, Ended, Inside,
       FetchTyped, Pieces
  <2>13. NotYetAt(p)'
    BY <2>1, <2>3, <2>4 DEF NotYetAt, Before, Searching, Now, Goes, Ended, Inside
  <2>14. GoodAt(p)'
    BY <1>1, <1>16, <2>2, <2>1, <2>3, <2>4, <2>9
       DEF GoodAt, GoodStays, Ahead, Now, Goes, Ended, Says, AlreadyFetched, Matches, Seen,
       FetchTyped, LayoutLock
  <2>15. TriesAt(p)'
    BY <2>10, SameUris, <2>2, <2>1, <2>3, <2>4
       DEF TriesAt, Before, Searching, Now, Goes, Ended, Inside
  <2> QED BY <2>5, <2>6, <2>7, <2>8, <2>9, <2>10, <2>11, <2>12, <2>13, <2>14, <2>15, StepKeeps
<1>17. ASSUME NEW p \in Fetchers, LayoutFetched(p)
      PROVE  FetchInv'
  <2>1. LockedAt(p) /\ NotThereAt(p) /\ NotYetAt(p) /\ GoodAt(p) /\ TriesAt(p)
    BY DEF FetchInv
  <2>2. Cur(p) \in Distfiles /\ Inside(p) /\ locks[Cur(p)] = p
    BY <1>17, <2>1 DEF LockedAt, Inside, LayoutFetched
  <2>3. \E to \in {"command", "uris"} : Goes(p, to, fv[p].fetched)
    BY <1>0, <1>2, <1>17, <2>1, NowIs DEF LayoutFetched, FetchPlaces, NotYetAt, Before,
       Searching, Inside, AfterLayout
  <2>4. /\ fpc[p] = "layoutfetch" /\ fv[p].loc \in Mirrors /\ locks[fv[p].loc] = p
        /\ locks' = [locks EXCEPT ![fv[p].loc] = NoFetcher]
        /\ UNCHANGED <<final, down, outcome>>
    BY <1>1, <2>2, <1>17, <2>1 DEF LayoutFetched, FetchTyped, LockedAt
  <2>5. FetchTyped'
    <3>1. ro' = ro /\ fsm' = fsm /\ layouts' \subseteq Locations /\ termed' \subseteq Fetchers
      <4>1. layouts' \in {layouts, fv[p].cache \cup {fv[p].loc}} /\ fv[p].cache \subseteq Locations
        BY <1>2, <1>17 DEF LayoutFetched
      <4>2. ro' = ro /\ fsm' = fsm /\ termed' = termed
        BY <1>17 DEF LayoutFetched
      <4> QED BY <1>1, <1>3, <2>4, <4>1, <4>2 DEF FetchTyped
    <3>2. saved' \in [Distfiles -> SUBSET Versions]
      BY <1>1, <1>17 DEF LayoutFetched, FetchTyped
    <3>3. final' \in [Distfiles -> Versions \cup {"link"}]
      BY <1>1, <2>2, <2>3, <2>4 DEF FetchTyped, Versions, FullSize
    <3>4. down' \in [Distfiles -> Versions]
      BY <1>1, <2>2, <2>3, <2>4 DEF FetchTyped, Versions
    <3>5. locks' \in [Distfiles \cup Mirrors -> Fetchers \cup {NoFetcher}]
      BY <1>1, <2>2, <2>3, <2>4 DEF FetchTyped
    <3>6. /\ fpc' \in [Fetchers -> FetchPlaces] /\ fv' \in [Fetchers -> Vars]
          /\ outcome' \in [Fetchers -> {"none", "ok", "failed", "killed"}]
      BY <1>1, <2>3, <2>4 DEF FetchTyped, Now, Goes, Ended, Says
    <3>7. ro' \in [Distfiles -> Versions] /\ fsm' \in [Distfiles -> Versions]
      BY <1>1, <3>1 DEF FetchTyped
    <3> QED BY <3>1, <3>2, <3>3, <3>4, <3>5, <3>6, <3>7 DEF FetchTyped
  <2>6. OthersStay(p)
    BY <2>3, <2>4 DEF OthersStay, Now, Goes, Ended, Says
  <2>7. LocksStay(p)
    BY <1>1, <1>3, <2>2, <2>3, <2>4 DEF LocksStay, FetchTyped, Free
  <2>8. FilesStay(p)
    BY <1>1, <2>2, <2>3, <2>4 DEF FilesStay, FetchTyped, Inside
  <2>9. GoodStays
    BY <1>1, <1>17, <2>2, <2>1, <2>3, <2>4
       DEF GoodStays, Seen, LayoutFetched, Matches, FullSize, FetchTyped, NotThereAt, Searching
  <2>10. restrict' = restrict
    BY <1>17 DEF LayoutFetched
  <2>11. LockedAt(p)'
    BY <1>1, <1>3, <2>2, <2>1, <2>3, <2>4 DEF LockedAt, Now, Goes, Ended, Inside, FetchTyped
  <2>12. NotThereAt(p)'
    BY <1>1, <2>2, <2>1, <2>3, <2>4 DEF NotThereAt, Searching, Now, Goes, Ended, Inside,
       FetchTyped, Pieces
  <2>13. NotYetAt(p)'
    BY <2>1, <2>3, <2>4 DEF NotYetAt, Before, Searching, Now, Goes, Ended, Inside
  <2>14. GoodAt(p)'
    BY <1>1, <1>17, <2>2, <2>1, <2>3, <2>4, <2>9
       DEF GoodAt, GoodStays, Ahead, Now, Goes, Ended, Says, AlreadyFetched, Matches, Seen,
       FetchTyped, LayoutFetched
  <2>15. TriesAt(p)'
    BY <2>10, SameUris, <2>2, <2>1, <2>3, <2>4
       DEF TriesAt, Before, Searching, Now, Goes, Ended, Inside
  <2> QED BY <2>5, <2>6, <2>7, <2>8, <2>9, <2>10, <2>11, <2>12, <2>13, <2>14, <2>15, StepKeeps
<1>18. ASSUME NEW p \in Fetchers, Command(p)
      PROVE  FetchInv'
  <2>1. LockedAt(p) /\ NotThereAt(p) /\ NotYetAt(p) /\ GoodAt(p) /\ TriesAt(p)
    BY DEF FetchInv
  <2>2. Cur(p) \in Distfiles /\ Inside(p) /\ locks[Cur(p)] = p
    BY <1>18, <2>1 DEF LockedAt, Inside, Command
  <2>3. \E n \in {0, 1} : Goes(p, "running", n)
    BY <1>0, <1>2, <1>18, <2>1, NowIs DEF Command, FetchPlaces, NotYetAt, Before, Searching,
       Inside
  <2>4. /\ fpc[p] = "command" /\ UNCHANGED <<final, locks, outcome>>
        /\ \E x \in {down[Cur(p)], "none"} :
             down' = [down EXCEPT ![Cur(p)] = x] /\ down'[Cur(p)] = x
    BY <1>1, <2>2, <1>18 DEF Command, FetchTyped
  <2>5. FetchTyped'
    <3>1. ro' = ro /\ fsm' = fsm /\ layouts' \subseteq Locations /\ termed' \subseteq Fetchers
      BY <1>1, <1>2, <1>3, <1>18, <2>4 DEF Command, FetchTyped
    <3>2. saved' \in [Distfiles -> SUBSET Versions]
      BY <1>1, <1>18 DEF Command, FetchTyped
    <3>3. final' \in [Distfiles -> Versions \cup {"link"}]
      BY <1>1, <2>2, <2>3, <2>4 DEF FetchTyped, Versions, FullSize
    <3>4. down' \in [Distfiles -> Versions]
      BY <1>1, <2>2, <2>3, <2>4 DEF FetchTyped, Versions
    <3>5. locks' \in [Distfiles \cup Mirrors -> Fetchers \cup {NoFetcher}]
      BY <1>1, <2>2, <2>3, <2>4 DEF FetchTyped
    <3>6. /\ fpc' \in [Fetchers -> FetchPlaces] /\ fv' \in [Fetchers -> Vars]
          /\ outcome' \in [Fetchers -> {"none", "ok", "failed", "killed"}]
      BY <1>1, <2>3, <2>4 DEF FetchTyped, Now, Goes, Ended, Says
    <3>7. ro' \in [Distfiles -> Versions] /\ fsm' \in [Distfiles -> Versions]
      BY <1>1, <3>1 DEF FetchTyped
    <3> QED BY <3>1, <3>2, <3>3, <3>4, <3>5, <3>6, <3>7 DEF FetchTyped
  <2>6. OthersStay(p)
    BY <2>3, <2>4 DEF OthersStay, Now, Goes, Ended, Says
  <2>7. LocksStay(p)
    BY <1>1, <1>3, <2>2, <2>3, <2>4 DEF LocksStay, FetchTyped, Free
  <2>8. FilesStay(p)
    BY <1>1, <2>2, <2>3, <2>4 DEF FilesStay, FetchTyped, Inside
  <2>9. GoodStays
    BY <1>1, <1>18, <2>2, <2>1, <2>3, <2>4
       DEF GoodStays, Seen, Command, Matches, FullSize, FetchTyped, NotThereAt, Searching
  <2>10. restrict' = restrict
    BY <1>18 DEF Command
  <2>11. LockedAt(p)'
    BY <1>1, <1>3, <2>2, <2>1, <2>3, <2>4 DEF LockedAt, Now, Goes, Ended, Inside, FetchTyped
  <2>12. NotThereAt(p)'
    BY <1>1, <2>2, <2>1, <2>3, <2>4 DEF NotThereAt, Searching, Now, Goes, Ended, Inside,
       FetchTyped, Pieces
  <2>13. NotYetAt(p)'
    BY <2>1, <2>3, <2>4 DEF NotYetAt, Before, Searching, Now, Goes, Ended, Inside
  <2>14. GoodAt(p)'
    BY <1>1, <1>18, <2>2, <2>1, <2>3, <2>4, <2>9
       DEF GoodAt, GoodStays, Ahead, Now, Goes, Ended, Says, AlreadyFetched, Matches, Seen,
       FetchTyped, Command
  <2>15. TriesAt(p)'
    BY <2>10, SameUris, <2>2, <2>1, <2>3, <2>4
       DEF TriesAt, Before, Searching, Now, Goes, Ended, Inside
  <2> QED BY <2>5, <2>6, <2>7, <2>8, <2>9, <2>10, <2>11, <2>12, <2>13, <2>14, <2>15, StepKeeps
<1>19. ASSUME NEW p \in Fetchers, CommandFails(p)
      PROVE  FetchInv'
  <2>1. LockedAt(p) /\ NotThereAt(p) /\ NotYetAt(p) /\ GoodAt(p) /\ TriesAt(p)
    BY DEF FetchInv
  <2>2. Cur(p) \in Distfiles /\ Inside(p) /\ locks[Cur(p)] = p
    BY <1>19, <2>1 DEF LockedAt, Inside, CommandFails
  <2>3. \E n \in {0, 1} : Goes(p, "uris", n)
    <3>1. \A n \in {0, 1, 2} : fv' = [fv EXCEPT ![p].fetched = n] => Goes(p, "uris", n)
      BY <1>0, <1>19, NowIs DEF CommandFails, FetchPlaces
    <3>2. fv[p].fetched \in {0, 1}
      BY <1>19, <2>1 DEF CommandFails, NotYetAt, Before, Searching, Inside
    <3>3. \E n \in {0, 1} : fv' = [fv EXCEPT ![p].fetched = n]
      <4>1. PICK c \in Downloads(p), gone \in BOOLEAN :
              fv' = [fv EXCEPT ![p].fetched = IF gone THEN 0 ELSE IF Cur(p) \in Digested THEN 1 ELSE @]
        BY <1>19 DEF CommandFails
      <4>2. (IF gone THEN 0 ELSE IF Cur(p) \in Digested THEN 1 ELSE fv[p].fetched) \in {0, 1}
        BY <3>2
      <4> QED BY <1>0, <1>2, <4>1, <4>2
    <3> QED BY <3>1, <3>3
  <2>4. /\ fpc[p] = "running" /\ UNCHANGED <<final, locks, outcome>>
        /\ \E x \in Versions : /\ down' = [down EXCEPT ![Cur(p)] = x] /\ down'[Cur(p)] = x
                               /\ Cur(p) \in Digested => x \in {"none"} \cup Pieces
    <3>1. PICK c \in Downloads(p), gone \in BOOLEAN :
            /\ c \in {"none", "empty"} \cup Pieces \/ Cur(p) \notin Digested
            /\ c \in {"none", "empty"} => gone
            /\ down' = [down EXCEPT ![Cur(p)] = IF gone THEN "none" ELSE c]
      BY <1>19 DEF CommandFails
    <3>2. Downloads(p) \subseteq Versions /\ down \in [Distfiles -> Versions]
      BY <1>1, <2>2, FetchAssumption DEF Downloads, FetchTyped, Versions, FullSize, Pieces
    <3> DEFINE x == IF gone THEN "none" ELSE c
    <3>3. x \in Versions /\ (Cur(p) \in Digested => x \in {"none"} \cup Pieces)
      BY <3>1, <3>2 DEF Versions
    <3>4. down' = [down EXCEPT ![Cur(p)] = x] /\ down'[Cur(p)] = x
      BY <2>2, <3>1, <3>2
    <3>5. fpc[p] = "running" /\ UNCHANGED <<final, locks, outcome>>
      BY <1>19 DEF CommandFails
    <3> QED BY <3>3, <3>4, <3>5
  <2>5. FetchTyped'
    <3>1. ro' = ro /\ fsm' = fsm /\ layouts' \subseteq Locations /\ termed' \subseteq Fetchers
      BY <1>1, <1>2, <1>3, <1>19, <2>4 DEF CommandFails, FetchTyped
    <3>2. saved' \in [Distfiles -> SUBSET Versions]
      BY <1>1, <1>19 DEF CommandFails, FetchTyped
    <3>3. final' \in [Distfiles -> Versions \cup {"link"}]
      BY <1>1, <2>2, <2>3, <2>4 DEF FetchTyped, Versions, FullSize
    <3>4. down' \in [Distfiles -> Versions]
      BY <1>1, <2>2, <2>3, <2>4 DEF FetchTyped, Versions
    <3>5. locks' \in [Distfiles \cup Mirrors -> Fetchers \cup {NoFetcher}]
      BY <1>1, <2>2, <2>3, <2>4 DEF FetchTyped
    <3>6. /\ fpc' \in [Fetchers -> FetchPlaces] /\ fv' \in [Fetchers -> Vars]
          /\ outcome' \in [Fetchers -> {"none", "ok", "failed", "killed"}]
      BY <1>1, <2>3, <2>4 DEF FetchTyped, Now, Goes, Ended, Says
    <3>7. ro' \in [Distfiles -> Versions] /\ fsm' \in [Distfiles -> Versions]
      BY <1>1, <3>1 DEF FetchTyped
    <3> QED BY <3>1, <3>2, <3>3, <3>4, <3>5, <3>6, <3>7 DEF FetchTyped
  <2>6. OthersStay(p)
    BY <2>3, <2>4 DEF OthersStay, Now, Goes, Ended, Says
  <2>7. LocksStay(p)
    BY <1>1, <1>3, <2>2, <2>3, <2>4 DEF LocksStay, FetchTyped, Free
  <2>8. FilesStay(p)
    BY <1>1, <2>2, <2>3, <2>4 DEF FilesStay, FetchTyped, Inside
  <2>9. GoodStays
    BY <1>1, <1>19, <2>2, <2>1, <2>3, <2>4
       DEF GoodStays, Seen, CommandFails, Matches, FullSize, FetchTyped, NotThereAt, Searching
  <2>10. restrict' = restrict
    BY <1>19 DEF CommandFails
  <2>11. LockedAt(p)'
    BY <1>1, <1>3, <2>2, <2>1, <2>3, <2>4 DEF LockedAt, Now, Goes, Ended, Inside, FetchTyped
  <2>12. NotThereAt(p)'
    BY <1>1, <2>2, <2>1, <2>3, <2>4 DEF NotThereAt, Searching, Now, Goes, Ended, Inside,
       FetchTyped, Pieces
  <2>13. NotYetAt(p)'
    BY <2>1, <2>3, <2>4 DEF NotYetAt, Before, Searching, Now, Goes, Ended, Inside
  <2>14. GoodAt(p)'
    BY <1>1, <1>19, <2>2, <2>1, <2>3, <2>4, <2>9
       DEF GoodAt, GoodStays, Ahead, Now, Goes, Ended, Says, AlreadyFetched, Matches, Seen,
       FetchTyped, CommandFails
  <2>15. TriesAt(p)'
    BY <2>10, SameUris, <2>2, <2>1, <2>3, <2>4
       DEF TriesAt, Before, Searching, Now, Goes, Ended, Inside
  <2> QED BY <2>5, <2>6, <2>7, <2>8, <2>9, <2>10, <2>11, <2>12, <2>13, <2>14, <2>15, StepKeeps
<1>20. ASSUME NEW p \in Fetchers, Downloaded(p)
      PROVE  FetchInv'
  <2>1. LockedAt(p) /\ NotThereAt(p) /\ NotYetAt(p) /\ GoodAt(p) /\ TriesAt(p)
    BY DEF FetchInv
  <2>2. Cur(p) \in Distfiles /\ Inside(p) /\ locks[Cur(p)] = p
    BY <1>20, <2>1 DEF LockedAt, Inside, Downloaded
  <2>3. Goes(p, "unlock", 2)
    BY <1>0, <1>2, <1>20, <2>1, NowIs DEF Downloaded, FetchPlaces, NotYetAt, Before, Searching,
       Inside
  <2>4. /\ fpc[p] = "running" /\ UNCHANGED <<locks, outcome>>
        /\ \E x \in Versions : /\ final' = [final EXCEPT ![Cur(p)] = x] /\ final'[Cur(p)] = x
                               /\ Cur(p) \in Digested => x = "good"
        /\ down' = [down EXCEPT ![Cur(p)] = "none"]
    <3>1. Downloads(p) \subseteq Versions /\ final \in [Distfiles -> Versions \cup {"link"}]
      BY <1>1, <2>2, FetchAssumption DEF Downloads, FetchTyped, Versions, FullSize, Pieces
    <3>2. PICK x \in Versions : final' = [final EXCEPT ![Cur(p)] = x] /\ (Cur(p) \in Digested => x = "good")
      BY <1>20, <3>1 DEF Downloaded, Versions, FullSize
    <3>3. final'[Cur(p)] = x
      BY <2>2, <3>1, <3>2
    <3>4. /\ fpc[p] = "running" /\ UNCHANGED <<locks, outcome>>
          /\ down' = [down EXCEPT ![Cur(p)] = "none"]
      BY <1>20 DEF Downloaded
    <3> QED BY <3>2, <3>3, <3>4
  <2>5. FetchTyped'
    <3>1. ro' = ro /\ fsm' = fsm /\ layouts' \subseteq Locations /\ termed' \subseteq Fetchers
      BY <1>1, <1>2, <1>3, <1>20, <2>4 DEF Downloaded, FetchTyped
    <3>2. saved' \in [Distfiles -> SUBSET Versions]
      BY <1>1, <1>20 DEF Downloaded, FetchTyped
    <3>3. final' \in [Distfiles -> Versions \cup {"link"}]
      BY <1>1, <2>2, <2>3, <2>4 DEF FetchTyped, Versions, FullSize
    <3>4. down' \in [Distfiles -> Versions]
      BY <1>1, <2>2, <2>3, <2>4 DEF FetchTyped, Versions
    <3>5. locks' \in [Distfiles \cup Mirrors -> Fetchers \cup {NoFetcher}]
      BY <1>1, <2>2, <2>3, <2>4 DEF FetchTyped
    <3>6. /\ fpc' \in [Fetchers -> FetchPlaces] /\ fv' \in [Fetchers -> Vars]
          /\ outcome' \in [Fetchers -> {"none", "ok", "failed", "killed"}]
      BY <1>1, <2>3, <2>4 DEF FetchTyped, Now, Goes, Ended, Says
    <3>7. ro' \in [Distfiles -> Versions] /\ fsm' \in [Distfiles -> Versions]
      BY <1>1, <3>1 DEF FetchTyped
    <3> QED BY <3>1, <3>2, <3>3, <3>4, <3>5, <3>6, <3>7 DEF FetchTyped
  <2>6. OthersStay(p)
    BY <2>3, <2>4 DEF OthersStay, Now, Goes, Ended, Says
  <2>7. LocksStay(p)
    BY <1>1, <1>3, <2>2, <2>3, <2>4 DEF LocksStay, FetchTyped, Free
  <2>8. FilesStay(p)
    BY <1>1, <2>2, <2>3, <2>4 DEF FilesStay, FetchTyped, Inside
  <2>9. GoodStays
    BY <1>1, <1>20, <2>2, <2>1, <2>3, <2>4
       DEF GoodStays, Seen, Downloaded, Matches, FullSize, FetchTyped, NotThereAt, Searching
  <2>10. restrict' = restrict
    BY <1>20 DEF Downloaded
  <2>11. LockedAt(p)'
    BY <1>1, <1>3, <2>2, <2>1, <2>3, <2>4 DEF LockedAt, Now, Goes, Ended, Inside, FetchTyped
  <2>12. NotThereAt(p)'
    BY <1>1, <2>2, <2>1, <2>3, <2>4 DEF NotThereAt, Searching, Now, Goes, Ended, Inside,
       FetchTyped, Pieces
  <2>13. NotYetAt(p)'
    BY <2>1, <2>3, <2>4 DEF NotYetAt, Before, Searching, Now, Goes, Ended, Inside
  <2>14. GoodAt(p)'
    BY <1>1, <1>20, <2>2, <2>1, <2>3, <2>4, <2>9
       DEF GoodAt, GoodStays, Ahead, Now, Goes, Ended, Says, AlreadyFetched, Matches, Seen,
       FetchTyped, Downloaded
  <2>15. TriesAt(p)'
    BY <2>10, SameUris, <2>2, <2>1, <2>3, <2>4
       DEF TriesAt, Before, Searching, Now, Goes, Ended, Inside
  <2> QED BY <2>5, <2>6, <2>7, <2>8, <2>9, <2>10, <2>11, <2>12, <2>13, <2>14, <2>15, StepKeeps
<1>21. ASSUME NEW p \in Fetchers, VerifyFailed(p)
      PROVE  FetchInv'
  <2>1. LockedAt(p) /\ NotThereAt(p) /\ NotYetAt(p) /\ GoodAt(p) /\ TriesAt(p)
    BY DEF FetchInv
  <2>2. Cur(p) \in Distfiles /\ Inside(p) /\ locks[Cur(p)] = p
    BY <1>21, <2>1 DEF LockedAt, Inside, VerifyFailed
  <2>3. LET n == fv[p].fails + 1 IN
        Now(p, IF n >= MaxTries THEN "unlock" ELSE "uris", fv[p].todo, Cur(p), fv[p].loc,
            IF n = 2 THEN Queue(p) ELSE fv[p].uris, fv[p].tried, 0, n)
    <3> DEFINE n == fv[p].fails + 1
               u == IF n = 2 THEN Queue(p) ELSE fv[p].uris
               to == IF n >= MaxTries THEN "unlock" ELSE "uris"
    <3>1. Queue(p) \in Seq(Locations)
      BY <1>2, <2>2, UrisAre, Elements DEF Queue
    <3>2. n \in Nat /\ u \in Seq(Locations) /\ to \in FetchPlaces
      <4>1. n \in Nat
        <5>1. fv[p].fails \in Nat
          BY <1>2
        <5> QED BY <5>1
      <4>2. u \in Seq(Locations)
        BY <1>2, <3>1
      <4> QED BY <4>1, <4>2 DEF FetchPlaces
    <3>3. fv' = [fv EXCEPT ![p].fetched = 0, ![p].fails = n, ![p].uris = u] /\ To(p, to)
      BY <1>0, <1>2, <1>21 DEF VerifyFailed, Vars
    <3> HIDE DEF n, u, to
    <3>4. Now(p, to, fv[p].todo, fv[p].cur, fv[p].loc, u, fv[p].tried, 0, n)
      BY <1>0, <3>2, <3>3, NowIs
    <3> QED BY <3>4 DEF n, u, to
  <2>4. /\ fpc[p] = "running" /\ UNCHANGED <<final, locks, outcome>>
        /\ down' = [down EXCEPT ![Cur(p)] = "none"] /\ down'[Cur(p)] = "none"
    BY <1>1, <2>2, <1>21 DEF VerifyFailed, FetchTyped
  <2>5. FetchTyped'
    <3>1. ro' = ro /\ fsm' = fsm /\ layouts' \subseteq Locations /\ termed' \subseteq Fetchers
      BY <1>1, <1>2, <1>3, <1>21, <2>4 DEF VerifyFailed, FetchTyped
    <3>2. saved' \in [Distfiles -> SUBSET Versions]
      BY <1>1, <1>21, <2>2, FetchAssumption
         DEF VerifyFailed, FetchTyped, Save, Downloads, FullSize, Pieces, Versions
    <3>3. final' \in [Distfiles -> Versions \cup {"link"}]
      BY <1>1, <2>2, <2>3, <2>4 DEF FetchTyped, Versions, FullSize
    <3>4. down' \in [Distfiles -> Versions]
      BY <1>1, <2>2, <2>3, <2>4 DEF FetchTyped, Versions
    <3>5. locks' \in [Distfiles \cup Mirrors -> Fetchers \cup {NoFetcher}]
      BY <1>1, <2>2, <2>3, <2>4 DEF FetchTyped
    <3>6. /\ fpc' \in [Fetchers -> FetchPlaces] /\ fv' \in [Fetchers -> Vars]
          /\ outcome' \in [Fetchers -> {"none", "ok", "failed", "killed"}]
      BY <1>1, <2>3, <2>4 DEF FetchTyped, Now, Goes, Ended, Says
    <3>7. ro' \in [Distfiles -> Versions] /\ fsm' \in [Distfiles -> Versions]
      BY <1>1, <3>1 DEF FetchTyped
    <3> QED BY <3>1, <3>2, <3>3, <3>4, <3>5, <3>6, <3>7 DEF FetchTyped
  <2>6. OthersStay(p)
    BY <2>3, <2>4 DEF OthersStay, Now, Goes, Ended, Says
  <2>7. LocksStay(p)
    BY <1>1, <1>3, <2>2, <2>3, <2>4 DEF LocksStay, FetchTyped, Free
  <2>8. FilesStay(p)
    BY <1>1, <2>2, <2>3, <2>4 DEF FilesStay, FetchTyped, Inside
  <2>9. GoodStays
    BY <1>1, <1>21, <2>2, <2>1, <2>3, <2>4
       DEF GoodStays, Seen, VerifyFailed, Matches, FullSize, FetchTyped, NotThereAt, Searching
  <2>10. restrict' = restrict
    BY <1>21 DEF VerifyFailed
  <2>11. LockedAt(p)'
    BY <1>1, <1>3, <2>2, <2>1, <2>3, <2>4 DEF LockedAt, Now, Goes, Ended, Inside, FetchTyped
  <2>12. NotThereAt(p)'
    BY <1>1, <2>2, <2>1, <2>3, <2>4 DEF NotThereAt, Searching, Now, Goes, Ended, Inside,
       FetchTyped, Pieces
  <2>13. NotYetAt(p)'
    BY <2>1, <2>3, <2>4 DEF NotYetAt, Before, Searching, Now, Goes, Ended, Inside
  <2>14. GoodAt(p)'
    BY <1>1, <1>21, <2>2, <2>1, <2>3, <2>4, <2>9
       DEF GoodAt, GoodStays, Ahead, Now, Goes, Ended, Says, AlreadyFetched, Matches, Seen,
       FetchTyped, VerifyFailed
  <2>15. TriesAt(p)'
    <3> DEFINE n == fv[p].fails + 1
               u == IF n = 2 THEN Queue(p) ELSE fv[p].uris
    <3>1. /\ fv'[p].tried = fv[p].tried /\ fv'[p].uris = u /\ fv'[p].cur = fv[p].cur
          /\ fv'[p].fails = n /\ fpc'[p] = IF n >= MaxTries THEN "unlock" ELSE "uris"
      BY <2>3 DEF Now
    <3>2. UrisOf(Cur(p))' = UrisOf(Cur(p))
      BY <2>10, <3>1, SameUris
    <3>3. fv[p].tried \cup ToSet(fv[p].uris) = ToSet(UrisOf(Cur(p))) /\ fv[p].fails < MaxTries
      BY <2>1, <2>4 DEF TriesAt, Before, Searching, Inside
    <3>4. fv[p].fails \in Nat /\ MaxTries \in Nat /\ fv[p].uris \in Seq(Locations)
      BY <1>2, FetchAssumption
    <3>5. ToSet(Queue(p)) = ToSet(Primaries(Cur(p))) \cup ToSet(fv[p].uris)
      BY <2>2, <3>4, UrisAre, Elements DEF Queue
    <3>6. fv[p].tried \cup ToSet(u) = ToSet(UrisOf(Cur(p)))
      BY <2>2, <3>3, <3>5, UrisAre
    <3>7. fpc'[p] = "unlock" => n = MaxTries
      BY <3>1, <3>3, <3>4
    <3>8. fpc'[p] # "unlock" => n < MaxTries
      BY <3>1, <3>4
    <3>9. fpc'[p] \in {"unlock", "uris"}
      BY <3>1
    <3> HIDE DEF n, u
    <3> QED BY <3>1, <3>2, <3>6, <3>7, <3>8, <3>9 DEF TriesAt, Before, Searching, Inside
  <2> QED BY <2>5, <2>6, <2>7, <2>8, <2>9, <2>10, <2>11, <2>12, <2>13, <2>14, <2>15, StepKeeps
<1>22. ASSUME NEW p \in Fetchers, UnlockFile(p)
      PROVE  FetchInv'
  <2>1. LockedAt(p) /\ NotThereAt(p) /\ NotYetAt(p) /\ GoodAt(p) /\ TriesAt(p)
    BY DEF FetchInv
  <2>2. Cur(p) \in Distfiles /\ Inside(p) /\ locks[Cur(p)] = p
    BY <1>22, <2>1 DEF LockedAt, Inside, UnlockFile
  <2>3. \/ Ended(p) /\ Says(p, {"failed"})
        \/ Goes(p, "next", fv[p].fetched) /\ (fv[p].fetched = 2 \/ Kind[p] # "normal") /\ UNCHANGED outcome
    <3> DEFINE bad == fv[p].fetched # 2
    <3>1. CASE bad /\ Kind[p] = "normal"
      <4>1. Says(p, {"failed"})
        BY <1>1, <1>22, <3>1 DEF UnlockFile, Says, FetchTyped
      <4> QED BY <1>0, <1>22, <3>1, <4>1, EndedIs DEF UnlockFile
    <3>2. CASE ~(bad /\ Kind[p] = "normal")
      <4>1. fv' = [fv EXCEPT ![p].failed = @ \cup IF bad THEN {Cur(p)} ELSE {}] /\ To(p, "next")
        BY <1>22, <3>2 DEF UnlockFile
      <4>2. (IF bad THEN {Cur(p)} ELSE {}) \in SUBSET Distfiles /\ "next" \in FetchPlaces
        BY <2>2 DEF FetchPlaces
      <4>3. Goes(p, "next", fv[p].fetched)
        BY <1>0, <4>1, <4>2, NowIs
      <4> QED BY <1>22, <3>2, <4>3 DEF UnlockFile
    <3> QED BY <3>1, <3>2
  <2>4. /\ fpc[p] = "unlock" /\ UNCHANGED <<final, down>>
        /\ locks' = [locks EXCEPT ![Cur(p)] = NoFetcher]
    BY <1>1, <2>2, <1>22 DEF UnlockFile, FetchTyped
  <2>5. FetchTyped'
    <3>1. ro' = ro /\ fsm' = fsm /\ layouts' \subseteq Locations /\ termed' \subseteq Fetchers
      <4>1. termed' = termed \/ termed' = termed \ {p}
        BY <1>22 DEF UnlockFile
      <4>2. ro' = ro /\ fsm' = fsm /\ layouts' = layouts
        BY <1>22 DEF UnlockFile
      <4> QED BY <1>1, <4>1, <4>2 DEF FetchTyped
    <3>2. saved' \in [Distfiles -> SUBSET Versions]
      BY <1>1, <1>22 DEF UnlockFile, FetchTyped
    <3>3. final' \in [Distfiles -> Versions \cup {"link"}]
      BY <1>1, <2>2, <2>3, <2>4 DEF FetchTyped, Versions, FullSize
    <3>4. down' \in [Distfiles -> Versions]
      BY <1>1, <2>2, <2>3, <2>4 DEF FetchTyped, Versions
    <3>5. locks' \in [Distfiles \cup Mirrors -> Fetchers \cup {NoFetcher}]
      BY <1>1, <2>2, <2>3, <2>4 DEF FetchTyped
    <3>6. /\ fpc' \in [Fetchers -> FetchPlaces] /\ fv' \in [Fetchers -> Vars]
          /\ outcome' \in [Fetchers -> {"none", "ok", "failed", "killed"}]
      BY <1>1, <2>3, <2>4 DEF FetchTyped, Now, Goes, Ended, Says
    <3>7. ro' \in [Distfiles -> Versions] /\ fsm' \in [Distfiles -> Versions]
      BY <1>1, <3>1 DEF FetchTyped
    <3> QED BY <3>1, <3>2, <3>3, <3>4, <3>5, <3>6, <3>7 DEF FetchTyped
  <2>6. OthersStay(p)
    BY <2>3, <2>4 DEF OthersStay, Now, Goes, Ended, Says
  <2>7. LocksStay(p)
    BY <1>1, <1>3, <2>2, <2>3, <2>4 DEF LocksStay, FetchTyped, Free
  <2>8. FilesStay(p)
    BY <1>1, <2>2, <2>3, <2>4 DEF FilesStay, FetchTyped, Inside
  <2>9. GoodStays
    BY <1>1, <1>22, <2>2, <2>1, <2>3, <2>4
       DEF GoodStays, Seen, UnlockFile, Matches, FullSize, FetchTyped, NotThereAt, Searching
  <2>10. restrict' = restrict
    BY <1>22 DEF UnlockFile
  <2>11. LockedAt(p)'
    BY <1>1, <1>3, <2>2, <2>1, <2>3, <2>4 DEF LockedAt, Now, Goes, Ended, Inside, FetchTyped
  <2>12. NotThereAt(p)'
    BY <1>1, <2>2, <2>1, <2>3, <2>4 DEF NotThereAt, Searching, Now, Goes, Ended, Inside,
       FetchTyped, Pieces
  <2>13. NotYetAt(p)'
    BY <2>1, <2>3, <2>4 DEF NotYetAt, Before, Searching, Now, Goes, Ended, Inside
  <2>14. GoodAt(p)'
    BY <1>1, <1>22, <2>2, <2>1, <2>3, <2>4, <2>9
       DEF GoodAt, GoodStays, Ahead, Now, Goes, Ended, Says, AlreadyFetched, Matches, Seen,
       FetchTyped, UnlockFile
  <2>15. TriesAt(p)'
    BY <2>10, SameUris, <2>2, <2>1, <2>3, <2>4
       DEF TriesAt, Before, Searching, Now, Goes, Ended, Inside
  <2> QED BY <2>5, <2>6, <2>7, <2>8, <2>9, <2>10, <2>11, <2>12, <2>13, <2>14, <2>15, StepKeeps
<1>23. ASSUME NEW p \in Fetchers, Term(p)
      PROVE  FetchInv'
  <2>1. LockedAt(p) /\ NotThereAt(p) /\ NotYetAt(p) /\ GoodAt(p) /\ TriesAt(p)
    BY DEF FetchInv
  <2>3. UNCHANGED <<fpc, fv, outcome>>
    BY <1>0, <1>2, <1>23, <2>1, NowIs DEF Term, FetchPlaces, NotYetAt, Before, Searching, Inside
  <2>4. UNCHANGED <<final, down, locks>>
    BY <1>1, <1>23 DEF Term, FetchTyped
  <2>5. FetchTyped'
    <3>1. ro' = ro /\ fsm' = fsm /\ layouts' \subseteq Locations /\ termed' \subseteq Fetchers
      BY <1>1, <1>2, <1>3, <1>23, <2>4 DEF Term, FetchTyped
    <3>2. saved' \in [Distfiles -> SUBSET Versions]
      BY <1>1, <1>23 DEF Term, FetchTyped
    <3>3. final' \in [Distfiles -> Versions \cup {"link"}]
      BY <1>1, <2>3, <2>4 DEF FetchTyped, Versions, FullSize
    <3>4. down' \in [Distfiles -> Versions]
      BY <1>1, <2>3, <2>4 DEF FetchTyped, Versions
    <3>5. locks' \in [Distfiles \cup Mirrors -> Fetchers \cup {NoFetcher}]
      BY <1>1, <2>3, <2>4 DEF FetchTyped
    <3>6. /\ fpc' \in [Fetchers -> FetchPlaces] /\ fv' \in [Fetchers -> Vars]
          /\ outcome' \in [Fetchers -> {"none", "ok", "failed", "killed"}]
      BY <1>1, <2>3, <2>4 DEF FetchTyped, Now, Goes, Ended, Says
    <3>7. ro' \in [Distfiles -> Versions] /\ fsm' \in [Distfiles -> Versions]
      BY <1>1, <3>1 DEF FetchTyped
    <3> QED BY <3>1, <3>2, <3>3, <3>4, <3>5, <3>6, <3>7 DEF FetchTyped
  <2>6. OthersStay(p)
    BY <2>3, <2>4 DEF OthersStay, Now, Goes, Ended, Says
  <2>7. LocksStay(p)
    BY <1>1, <1>3, <2>3, <2>4 DEF LocksStay, FetchTyped, Free
  <2>8. FilesStay(p)
    BY <1>1, <2>3, <2>4 DEF FilesStay, FetchTyped, Inside
  <2>9. GoodStays
    BY <1>1, <1>23, <2>1, <2>3, <2>4 DEF GoodStays, Seen, Term, Matches, FullSize, FetchTyped,
       NotThereAt, Searching
  <2>10. restrict' = restrict
    BY <1>23 DEF Term
  <2>11. LockedAt(p)'
    BY <1>1, <1>3, <2>1, <2>3, <2>4 DEF LockedAt, Now, Goes, Ended, Inside, FetchTyped
  <2>12. NotThereAt(p)'
    BY <1>1, <2>1, <2>3, <2>4 DEF NotThereAt, Searching, Now, Goes, Ended, Inside, FetchTyped,
       Pieces
  <2>13. NotYetAt(p)'
    BY <2>1, <2>3, <2>4 DEF NotYetAt, Before, Searching, Now, Goes, Ended, Inside
  <2>14. GoodAt(p)'
    BY <1>1, <1>23, <2>1, <2>3, <2>4, <2>9
       DEF GoodAt, GoodStays, Ahead, Now, Goes, Ended, Says, AlreadyFetched, Matches, Seen,
       FetchTyped, Term
  <2>15. TriesAt(p)'
    BY <2>10, SameUris, <2>1, <2>3, <2>4 DEF TriesAt, Before, Searching, Now, Goes, Ended, Inside
  <2> QED BY <2>5, <2>6, <2>7, <2>8, <2>9, <2>10, <2>11, <2>12, <2>13, <2>14, <2>15, StepKeeps
<1>24. ASSUME NEW p \in Fetchers, Ends(p)
      PROVE  FetchInv'
  <2>1. LockedAt(p) /\ NotThereAt(p) /\ NotYetAt(p) /\ GoodAt(p) /\ TriesAt(p)
    BY DEF FetchInv
  <2>3. Ended(p) /\ Says(p, {"killed"})
    <3>1. Says(p, {"killed"})
      BY <1>1, <1>24 DEF Ends, Says, FetchTyped
    <3> QED BY <1>24, <3>1, EndedIs, <1>0 DEF Ends
  <2>4. /\ locks' = [x \in DOMAIN locks |-> IF locks[x] = p THEN NoFetcher ELSE locks[x]]
        /\ \/ UNCHANGED down
           \/ fpc[p] = "running" /\ \E x \in Versions : down' = [down EXCEPT ![Cur(p)] = x]
        /\ UNCHANGED final
    <3>1. Cur(p) \in Distfiles => Downloads(p) \subseteq Versions
      BY <1>1, FetchAssumption DEF Downloads, FetchTyped, Versions, FullSize, Pieces
    <3>2. fpc[p] = "running" => Cur(p) \in Distfiles
      BY <2>1 DEF LockedAt
    <3> QED BY <1>24, <3>1, <3>2 DEF Ends, ReleaseAll
  <2>5. FetchTyped'
    <3>1. ro' = ro /\ fsm' = fsm /\ layouts' \subseteq Locations /\ termed' \subseteq Fetchers
      BY <1>1, <1>2, <1>3, <1>24, <2>4 DEF Ends, FetchTyped
    <3>2. saved' \in [Distfiles -> SUBSET Versions]
      BY <1>1, <1>24 DEF Ends, FetchTyped
    <3>3. final' \in [Distfiles -> Versions \cup {"link"}]
      BY <1>1, <2>3, <2>4 DEF FetchTyped, Versions, FullSize
    <3>4. down' \in [Distfiles -> Versions]
      BY <1>1, <2>3, <2>4 DEF FetchTyped, Versions
    <3>5. locks' \in [Distfiles \cup Mirrors -> Fetchers \cup {NoFetcher}]
      BY <1>1, <2>3, <2>4 DEF FetchTyped
    <3>6. /\ fpc' \in [Fetchers -> FetchPlaces] /\ fv' \in [Fetchers -> Vars]
          /\ outcome' \in [Fetchers -> {"none", "ok", "failed", "killed"}]
      BY <1>1, <2>3, <2>4 DEF FetchTyped, Now, Goes, Ended, Says
    <3>7. ro' \in [Distfiles -> Versions] /\ fsm' \in [Distfiles -> Versions]
      BY <1>1, <3>1 DEF FetchTyped
    <3> QED BY <3>1, <3>2, <3>3, <3>4, <3>5, <3>6, <3>7 DEF FetchTyped
  <2>6. OthersStay(p)
    BY <2>3, <2>4 DEF OthersStay, Now, Goes, Ended, Says
  <2>7. LocksStay(p)
    BY <1>1, <1>3, <2>3, <2>4 DEF LocksStay, FetchTyped, Free
  <2>8. FilesStay(p)
    BY <1>1, <2>3, <2>4 DEF FilesStay, FetchTyped, Inside
  <2>9. GoodStays
    BY <1>1, <1>24, <2>1, <2>3, <2>4 DEF GoodStays, Seen, Ends, Matches, FullSize, FetchTyped,
       NotThereAt, Searching
  <2>10. restrict' = restrict
    BY <1>24 DEF Ends
  <2>11. LockedAt(p)'
    BY <1>1, <1>3, <2>1, <2>3, <2>4 DEF LockedAt, Now, Goes, Ended, Inside, FetchTyped
  <2>12. NotThereAt(p)'
    BY <1>1, <2>1, <2>3, <2>4 DEF NotThereAt, Searching, Now, Goes, Ended, Inside, FetchTyped,
       Pieces
  <2>13. NotYetAt(p)'
    BY <2>1, <2>3, <2>4 DEF NotYetAt, Before, Searching, Now, Goes, Ended, Inside
  <2>14. GoodAt(p)'
    BY <1>1, <1>24, <2>1, <2>3, <2>4, <2>9
       DEF GoodAt, GoodStays, Ahead, Now, Goes, Ended, Says, AlreadyFetched, Matches, Seen,
       FetchTyped, Ends
  <2>15. TriesAt(p)'
    BY <2>10, SameUris, <2>1, <2>3, <2>4 DEF TriesAt, Before, Searching, Now, Goes, Ended, Inside
  <2> QED BY <2>5, <2>6, <2>7, <2>8, <2>9, <2>10, <2>11, <2>12, <2>13, <2>14, <2>15, StepKeeps
<1> QED BY <1>4, <1>5, <1>6, <1>7, <1>8, <1>9, <1>10, <1>11, <1>12, <1>13, <1>14, <1>15, <1>16,
   <1>17, <1>18, <1>19, <1>20, <1>21, <1>22, <1>23, <1>24
      DEF FetchNext, Run, Cancelled, FetcherDies

\* The invariant holds in the beginning,
LEMMA FetchInitial == FetchInit => FetchInv
<1> SUFFICES ASSUME FetchInit PROVE FetchInv
  OBVIOUS
<1> USE DEF FetchInit
<1>1. \A p \in Fetchers : fpc[p] = "idle" /\ fv[p] = Fresh /\ outcome[p] = "none"
  OBVIOUS
<1>2. FetchTyped
  <2>1. final \in [Distfiles -> Versions \cup {"link"}] /\ down \in [Distfiles -> Versions]
    BY FetchAssumption DEF Versions, Pieces, FullSize
  <2>2. ro \in [Distfiles -> Versions] /\ fsm \in [Distfiles -> Versions]
    BY FetchAssumption DEF Versions, Pieces, FullSize
  <2>3. fpc \in [Fetchers -> FetchPlaces] /\ fv \in [Fetchers -> Vars]
    BY FreshIs DEF FetchPlaces
  <2>4. /\ saved \in [Distfiles -> SUBSET Versions] /\ layouts \subseteq Locations
        /\ locks \in [Distfiles \cup Mirrors -> Fetchers \cup {NoFetcher}]
        /\ outcome \in [Fetchers -> {"none", "ok", "failed", "killed"}] /\ termed \subseteq Fetchers
    OBVIOUS
  <2> QED BY <2>1, <2>2, <2>3, <2>4 DEF FetchTyped
<1>3. ASSUME NEW p \in Fetchers
      PROVE  LockedAt(p) /\ NotThereAt(p) /\ NotYetAt(p) /\ GoodAt(p) /\ TriesAt(p)
  BY <1>1 DEF LockedAt, NotThereAt, NotYetAt, GoodAt, TriesAt, Inside, Searching, Before
<1> QED BY <1>2, <1>3 DEF FetchInv

\* and always.
LEMMA FetchAlways == FetchSpec => []FetchInv
<1>1. FetchInv /\ [FetchNext]_fetchVars => FetchInv'
  BY FetchNextKeeps
<1> QED BY <1>1, FetchInitial, PTL DEF FetchSpec

\* fetch(): once it has returned success before a build all files with digests are there
\* with the right data, whatever other processes do; and a download has one writer.
THEOREM FetchIsSafe == FetchSpec => []FetchSafe
<1>1. FetchInv => FetchSafe
  <2> SUFFICES ASSUME FetchInv PROVE FetchSafe
    OBVIOUS
  <2>1. FetchedIsVerified
    BY DEF FetchInv, GoodAt, FetchedIsVerified
  <2>2. OneWriter
    BY DEF FetchInv, LockedAt, Inside, OneWriter, At, Cur
  <2> QED BY <2>1, <2>2 DEF FetchSafe
<1> QED BY <1>1, FetchAlways, PTL

\* fetch() gives a file up only after the last location, or when the data were wrong
\* as often as is allowed (checksum_failure_max_tries).
THEOREM EveryLocationTried == FetchSpec => []Exhausted
<1>1. FetchInv => Exhausted
  <2> SUFFICES ASSUME FetchInv, NEW p \in Fetchers, fpc[p] = "unlock", fv[p].fetched # 2
               PROVE  fv[p].fails = MaxTries \/ fv[p].tried = ToSet(UrisOf(Cur(p)))
    BY DEF Exhausted, At
  <2>1. /\ fv[p].tried \cup ToSet(fv[p].uris) = ToSet(UrisOf(Cur(p)))
        /\ fv[p].fails = MaxTries \/ fv[p].uris = << >>
    BY DEF FetchInv, TriesAt
  <2>2. ToSet(<< >>) = {}
    BY DEF ToSet
  <2> QED BY <2>1, <2>2
<1> QED BY <1>1, FetchAlways, PTL

\* What a step does to a distfile, and to a full download that is not good.
LEMMA StepLosesNothing ==
  ASSUME FetchInv, FetchNext, NEW f \in Digested
  PROVE  /\ final[f] \notin {"none", "link"} /\ final'[f] # final[f] => final[f] \in saved'[f]
         /\ down[f] \in {"wrong", "over"} /\ down'[f] # down[f] => down[f] \in saved'[f]
<1> USE DEF At, Cur, fetchEnv
<1>1. /\ final \in [Distfiles -> Versions \cup {"link"}] /\ down \in [Distfiles -> Versions]
      /\ saved \in [Distfiles -> SUBSET Versions] /\ f \in Distfiles
  BY FetchAssumption DEF FetchInv, FetchTyped
<1>2. ASSUME NEW p \in Fetchers, Searching(p)
      PROVE  /\ final[Cur(p)] = "none" /\ Cur(p) \in Distfiles
             /\ Cur(p) \in Digested /\ fpc[p] # "present" => down[Cur(p)] \notin {"wrong", "over"}
  <2>1. LockedAt(p) /\ NotThereAt(p)
    BY DEF FetchInv
  <2> QED BY <1>2, <2>1 DEF LockedAt, NotThereAt, Searching, Inside, Pieces
<1>3. ASSUME NEW p \in Fetchers, CheckAway(p)
      PROVE  /\ final[f] \notin {"none", "link"} /\ final'[f] # final[f] => final[f] \in saved'[f]
             /\ down[f] \in {"wrong", "over"} /\ down'[f] # down[f] => down[f] \in saved'[f]
  <2>1. Cur(p) \in Distfiles
    BY <1>3 DEF FetchInv, LockedAt, CheckAway
  <2>2. CASE f # Cur(p)
    BY <1>1, <1>3, <2>1, <2>2 DEF CheckAway
  <2>3. CASE f = Cur(p)
    <3>1. saved'[f] = saved[f] \cup ({final[f]} \ {"none", "link"}) \cup ({down[f]} \cap Stale(f))
      BY <1>1, <1>3, <2>3 DEF CheckAway, Save
    <3>2. {"wrong", "over"} \subseteq Stale(f)
      BY DEF Stale, FullSize
    <3> QED BY <3>1, <3>2
  <2> QED BY <2>2, <2>3
<1>4. ASSUME NEW p \in Fetchers, fpc[p] \in {"mirrors", "command", "running"}, UNCHANGED saved,
             \A g \in Distfiles : g # Cur(p) => final'[g] = final[g] /\ down'[g] = down[g]
      PROVE  /\ final[f] \notin {"none", "link"} /\ final'[f] # final[f] => final[f] \in saved'[f]
             /\ down[f] \in {"wrong", "over"} /\ down'[f] # down[f] => down[f] \in saved'[f]
  <2>1. Searching(p)
    BY <1>4 DEF Searching, Inside
  <2> QED BY <1>1, <1>2, <1>4, <2>1
<1>5. ASSUME NEW p \in Fetchers, LinkToRo(p) \/ CopyFromMirror(p) \/ Command(p) \/ CommandFails(p) \/ Downloaded(p)
      PROVE  /\ fpc[p] \in {"mirrors", "command", "running"} /\ UNCHANGED saved
             /\ \A g \in Distfiles : g # Cur(p) => final'[g] = final[g] /\ down'[g] = down[g]
  BY <1>1, <1>5 DEF LinkToRo, CopyFromMirror, Command, CommandFails, Downloaded
<1>6. ASSUME NEW p \in Fetchers, CheckDownload(p)
      PROVE  /\ final[f] \notin {"none", "link"} /\ final'[f] # final[f] => final[f] \in saved'[f]
             /\ down[f] \in {"wrong", "over"} /\ down'[f] # down[f] => down[f] \in saved'[f]
  <2>1. Searching(p)
    BY <1>6 DEF CheckDownload, Searching, Inside
  <2>2. final[Cur(p)] = "none" /\ Cur(p) \in Distfiles
    BY <1>2, <2>1
  <2> DEFINE c == Cur(p)
  <2>3. \/ UNCHANGED <<final, down>>
        \/ /\ final' = [final EXCEPT ![c] = "good"] /\ down' = [down EXCEPT ![c] = "none"] /\ down[c] = "good"
        \/ /\ UNCHANGED final /\ down' = [down EXCEPT ![c] = "none"]
           /\ saved' = [saved EXCEPT ![c] = @ \cup {down[c]}]
    BY <1>6 DEF CheckDownload, Save
  <2> QED BY <1>1, <2>2, <2>3
<1>7. ASSUME NEW p \in Fetchers, VerifyFailed(p)
      PROVE  /\ final'[f] = final[f]
             /\ down[f] \in {"wrong", "over"} /\ down'[f] # down[f] => down[f] \in saved'[f]
  <2>1. Searching(p)
    BY <1>7 DEF VerifyFailed, Searching, Inside
  <2> QED BY <1>1, <1>2, <1>7, <2>1 DEF VerifyFailed, Searching, Inside
<1>8. ASSUME NEW p \in Fetchers, Ends(p)
      PROVE  final'[f] = final[f] /\ (down[f] \in {"wrong", "over"} => down'[f] = down[f])
  <2>1. CASE fpc[p] = "running"
    <3>1. Searching(p)
      BY <2>1 DEF Searching, Inside
    <3> QED BY <1>1, <1>2, <1>8, <3>1 DEF Ends, Searching, Inside
  <2>2. CASE fpc[p] # "running"
    BY <1>8, <2>2 DEF Ends
  <2> QED BY <2>1, <2>2
<1>9. ASSUME NEW p \in Fetchers,
             \/ StartFetcher(p) \/ NextFile(p) \/ Return(p) \/ FileLock(p) \/ CheckFinal(p) \/ NextUri(p)
             \/ GiveUp(p) \/ LayoutLock(p) \/ LayoutFetched(p) \/ UnlockFile(p) \/ Term(p)
      PROVE  UNCHANGED <<final, down>>
  BY <1>9 DEF StartFetcher, NextFile, Return, FileLock, CheckFinal, NextUri, GiveUp, LayoutLock,
     LayoutFetched,
     UnlockFile, Term
<1>10. PICK p \in Fetchers : StartFetcher(p) \/ Run(p) \/ Term(p) \/ Cancelled(p) \/ FetcherDies(p)
  BY DEF FetchNext
<1>11. CASE StartFetcher(p) \/ Term(p)
  BY <1>9, <1>11
<1>12. CASE Cancelled(p) \/ FetcherDies(p)
  BY <1>8, <1>12 DEF Cancelled, FetcherDies
<1>13. CASE Run(p)
  BY <1>3, <1>4, <1>5, <1>6, <1>7, <1>9, <1>13 DEF Run
<1> QED BY <1>10, <1>11, <1>12, <1>13

\* fetch.py: a distfile that is not as it should be, and a download of full size, are
\* renamed and never removed, by nobody's step.
THEOREM NothingIsLost == FetchSpec => NothingLost
<1> DEFINE Kept == \A f \in Digested :
         /\ final[f] \notin {"none", "link"} /\ final'[f] # final[f] => final[f] \in saved'[f]
         /\ down[f] \in {"wrong", "over"} /\ down'[f] # down[f] => down[f] \in saved'[f]
<1>1. FetchInv /\ [FetchNext]_fetchVars => [Kept]_fetchVars
  <2>1. FetchInv /\ FetchNext => Kept
    BY StepLosesNothing
  <2> QED BY <2>1
<1>2. FetchInv /\ [FetchNext]_fetchVars => FetchInv'
  BY FetchNextKeeps
<1> HIDE DEF Kept
<1>3. FetchSpec => [][Kept]_fetchVars
  BY <1>1, FetchAlways, PTL DEF FetchSpec
<1> QED BY <1>3 DEF NothingLost, Kept
==============================================================================
