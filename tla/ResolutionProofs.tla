-------------------------- MODULE ResolutionProofs --------------------------
(***************************************************************************)
(* What the recursion of resolveDependencies computes, for every version   *)
(* cache.  The prover does not know that the function a recursive          *)
(* definition asks for exists, and its library proves it for an operator   *)
(* parameter that cannot be given here: both are done from the depth that  *)
(* the recursion stops at, downwards.                                      *)
(***************************************************************************)
EXTENDS Pipeline, FiniteSetTheorems, WellFoundedInduction, TLAPS

-----------------------------------------------------------------------------
\* Induction

\* A set of naturals that is not empty has a least element.
LEMMA Least ==
  ASSUME NEW S \in SUBSET Nat, S # {}
  PROVE  \E x \in S : \A y \in S : x <= y
<1>1. \E x \in S : \A y \in S : ~(<<y, x>> \in OpToRel(<, Nat))
  BY NatLessThanWellFounded, WFMin
<1>2. PICK x \in S : \A y \in S : ~(<<y, x>> \in OpToRel(<, Nat))
  BY <1>1
<1>3. ASSUME NEW y \in S, y < x
      PROVE  <<y, x>> \in OpToRel(<, Nat)
  BY <1>3 DEF OpToRel
<1>4. \A y \in S : ~(y < x)
  BY <1>2, <1>3
<1> QED
  BY <1>4

\* What holds at the greatest depth, and at a depth if it does at the next, holds at
\* every depth.
LEMMA Downwards ==
  ASSUME NEW S, MaxDepth \in S, \A d \in 0..(MaxDepth - 1) : d + 1 \in S => d \in S
  PROVE  0..MaxDepth \subseteq S
<1> DEFINE Left == {k \in 0..MaxDepth : MaxDepth - k \notin S}
<1>1. MaxDepth \in Nat
  BY DepthAssumption
<1>2. ASSUME Left # {}
      PROVE  FALSE
  <2>0. Left \in SUBSET Nat
    BY <1>1
  <2>1. PICK k \in Left : \A j \in Left : k <= j
    <3> HIDE DEF Left
    <3> QED
      BY Zenon, <1>2, <2>0, Least
  <2>2. k # 0
    BY <1>1, <2>1
  <2>3. k - 1 \in 0..MaxDepth /\ k - 1 \notin Left
    BY <1>1, <2>1, <2>2
  <2>4. MaxDepth - (k - 1) \in S
    BY <2>3
  <2>5. MaxDepth - (k - 1) = (MaxDepth - k) + 1 /\ MaxDepth - k \in 0..(MaxDepth - 1)
    BY <1>1, <2>1, <2>2
  <2> QED
    BY <2>1, <2>4, <2>5
<1>3. ASSUME NEW d \in 0..MaxDepth
      PROVE  d \in S
  <2>1. MaxDepth - d \in 0..MaxDepth /\ MaxDepth - (MaxDepth - d) = d
    BY <1>1
  <2> QED
    BY <1>2, <2>1
<1> QED
  BY <1>3

-----------------------------------------------------------------------------
\* The function that resolveDependencies searches with

Resolved(f, v, seen, d) ==
  CASE v = NoVersion -> {"notInstalled"}
    [] v # NoVersion /\ Id(v) \in seen -> {"circular"}
    [] OTHER -> f[<<v, seen, d + 1>>]

Follow(c, f, m, seen, d, dep) ==
  IF dep[1] = m.pkg THEN {"ownPackage"}
  ELSE UNION {Resolved(f, v, seen, d) : v \in GetVersion(c, dep[1], dep[2])}

Search(c, f, call) ==
  IF call[3] >= MaxDepth THEN {"panic"}
  ELSE InAnyOrder({Follow(c, f, call[1], call[2] \cup {Id(call[1])}, call[3], dep) :
                     dep \in call[1].deps})

Ids(c, n) == {Id(m) : m \in c \cup {n}}

Calls(c, n, visited) == (c \cup {n}) \X (SUBSET (visited \cup Ids(c, n))) \X (0..MaxDepth)

IsSearch(f, c, n, visited) == f = [call \in Calls(c, n, visited) |-> Search(c, f, call)]

\* resolveDependencies takes the function that satisfies the equation of its search.
LEMMA SearchIs ==
  ASSUME NEW c, NEW n, NEW visited, NEW depth
  PROVE  resolveDependencies(c, n, visited, depth) =
           (CHOOSE f : IsSearch(f, c, n, visited))[<<n, visited, depth>>]
BY DEF resolveDependencies, IsSearch, Calls, Ids, Search, Follow, Resolved

\* The search looks at the function at the next depth only.
LEMMA SearchLooksAhead ==
  ASSUME NEW c, NEW n, NEW visited, NEW f, NEW g, NEW call \in Calls(c, n, visited),
         \A x \in Calls(c, n, visited) : x[3] = call[3] + 1 => f[x] = g[x]
  PROVE  Search(c, f, call) = Search(c, g, call)
<1> DEFINE m == call[1]
           seen == call[2] \cup {Id(m)}
           d == call[3]
<1>1. /\ m \in c \cup {n} /\ d \in 0..MaxDepth /\ MaxDepth \in Nat
      /\ seen \in SUBSET (visited \cup Ids(c, n))
  BY DepthAssumption DEF Calls, Ids
<1>2. Search(c, f, call) = IF d >= MaxDepth THEN {"panic"}
                           ELSE InAnyOrder({Follow(c, f, m, seen, d, dep) : dep \in m.deps})
  BY Zenon DEF Search
<1>3. Search(c, g, call) = IF d >= MaxDepth THEN {"panic"}
                           ELSE InAnyOrder({Follow(c, g, m, seen, d, dep) : dep \in m.deps})
  BY Zenon DEF Search
<1>4. \A x \in Calls(c, n, visited) : x[3] = d + 1 => f[x] = g[x]
  OBVIOUS
<1> HIDE DEF m, seen, d
<1>5. CASE d >= MaxDepth
  BY Zenon, <1>2, <1>3, <1>5
<1>6. CASE ~(d >= MaxDepth)
  <2>1. \A v \in c : f[<<v, seen, d + 1>>] = g[<<v, seen, d + 1>>]
    <3>1. ASSUME NEW v \in c
          PROVE  <<v, seen, d + 1>> \in Calls(c, n, visited)
      BY <1>1, <1>6 DEF Calls
    <3> QED
      BY <1>4, <3>1
  <2>2. \A v \in c : Resolved(f, v, seen, d) = Resolved(g, v, seen, d)
    BY Zenon, <2>1 DEF Resolved
  <2>3. Resolved(f, NoVersion, seen, d) = Resolved(g, NoVersion, seen, d)
    BY Zenon DEF Resolved
  <2>4. \A pkg, ver : GetVersion(c, pkg, ver) \subseteq c \cup {NoVersion}
    BY DEF GetVersion, GetVersions, resolveVersion
  <2>5. ASSUME NEW dep
        PROVE  Follow(c, f, m, seen, d, dep) = Follow(c, g, m, seen, d, dep)
    <3>1. \A v \in GetVersion(c, dep[1], dep[2]) : Resolved(f, v, seen, d) = Resolved(g, v, seen, d)
      BY <2>2, <2>3, <2>4
    <3>2. {Resolved(f, v, seen, d) : v \in GetVersion(c, dep[1], dep[2])} =
            {Resolved(g, v, seen, d) : v \in GetVersion(c, dep[1], dep[2])}
      BY Zenon, <3>1
    <3> QED
      BY Zenon, <3>2 DEF Follow
  <2>6. {Follow(c, f, m, seen, d, dep) : dep \in m.deps} =
          {Follow(c, g, m, seen, d, dep) : dep \in m.deps}
    BY Zenon, <2>5
  <2> QED
    BY Zenon, <1>2, <1>3, <1>6, <2>6
<1> QED
  BY <1>5, <1>6

\* There is a function that satisfies the equation of the search.
LEMMA SearchExists ==
  ASSUME NEW c, NEW n, NEW visited
  PROVE  \E f : IsSearch(f, c, n, visited)
<1> DEFINE C == Calls(c, n, visited)
           From(f, k) == /\ f = [x \in C |-> f[x]]
                         /\ \A x \in C : k <= x[3] => f[x] = Search(c, f, x)
           S == {k \in 0..MaxDepth : \E f : From(f, k)}
<1>1. MaxDepth \in Nat /\ \A x \in C : x[3] \in 0..MaxDepth
  BY DepthAssumption DEF Calls
<1> HIDE DEF C
<1>2. MaxDepth \in S
  <2> DEFINE f == [x \in C |-> {"panic"}]
  <2>1. \A x \in C : MaxDepth <= x[3] => Search(c, f, x) = {"panic"}
    BY <1>1 DEF Search
  <2>2. From(f, MaxDepth)
    BY <2>1
  <2> HIDE DEF From, f
  <2> QED
    BY <1>1, <2>2
<1>3. ASSUME NEW k \in 0..(MaxDepth - 1), k + 1 \in S
      PROVE  k \in S
  <2>1. PICK f : From(f, k + 1)
    BY <1>3
  <2> DEFINE g == [x \in C |-> IF x[3] = k THEN Search(c, f, x) ELSE f[x]]
  <2>2. \A x \in C : g[x] = IF x[3] = k THEN Search(c, f, x) ELSE f[x]
    OBVIOUS
  <2>3. g = [x \in C |-> g[x]]
    OBVIOUS
  <2> HIDE DEF g
  <2>4. ASSUME NEW x \in C, k <= x[3]
        PROVE  g[x] = Search(c, g, x)
    <3>1. \A y \in C : y[3] = x[3] + 1 => f[y] = g[y]
      BY <1>1, <2>2, <2>4
    <3>2. Search(c, f, x) = Search(c, g, x)
      BY <3>1, SearchLooksAhead DEF C
    <3>3. f[x] = Search(c, f, x) \/ x[3] = k
      BY <1>1, <2>1, <2>4
    <3> QED
      BY <2>2, <3>2, <3>3
  <2>5. From(g, k)
    BY <2>3, <2>4
  <2>6. k \in 0..MaxDepth
    BY <1>1
  <2> QED
    BY <2>5, <2>6
<1>4. 0 \in S
  <2> HIDE DEF S
  <2> QED
    BY <1>1, <1>2, <1>3, Downwards
<1>5. PICK f : From(f, 0)
  BY <1>4
<1>6. \A x \in C : f[x] = Search(c, f, x)
  BY <1>1, <1>5
<1>7. f = [x \in C |-> Search(c, f, x)]
  BY <1>5, <1>6
<1> QED
  BY <1>7 DEF IsSearch, C

\* resolveDependencies gives the answers of such a function.
LEMMA Resolution ==
  ASSUME NEW c, NEW n
  PROVE  \E f : IsSearch(f, c, n, {}) /\ resolveDependencies(c, n, {}, 0) = f[<<n, {}, 0>>]
BY Zenon, SearchExists, SearchIs

-----------------------------------------------------------------------------
\* The graph

\* What is asked of the version cache and the addon.
GraphOK ==
  /\ IsCache(case.cache) /\ IsFiniteSet(case.cache)
  /\ \A v \in case.cache : IsVersion(v)
  /\ IsVersion(addon)

\* The versions in the graph: the addon takes the place of its own entry.
Known == {v \in case.cache \cup {addon} : Id(v) = Id(addon) => v = addon}

\* None of them is the nil answer, and each has its own package and version.
LEMMA KnownVersions ==
  ASSUME GraphOK
  PROVE  /\ NoVersion \notin Known /\ addon \in Known
         /\ \A u, v \in Known : Id(u) = Id(v) => u = v
<1>1. ~IsVersion(NoVersion)
  BY DEF IsVersion, NoVersion
<1>2. NoVersion \notin Known /\ addon \in Known
  BY <1>1 DEF GraphOK, Known
<1>3. ASSUME NEW u \in Known, NEW v \in Known, Id(u) = Id(v)
      PROVE  u = v
  <2>1. CASE Id(u) = Id(addon)
    BY Zenon, <1>3, <2>1 DEF Known
  <2>2. CASE Id(u) # Id(addon)
    <3>1. u \in case.cache /\ v \in case.cache
      BY Zenon, <1>3, <2>2 DEF Known
    <3>2. u.pkg = v.pkg /\ u.ver = v.ver
      BY <1>3 DEF Id
    <3> QED
      BY <3>1, <3>2 DEF GraphOK, IsCache
  <2> QED
    BY <2>1, <2>2
<1> QED
  BY <1>2, <1>3

\* What the version cache may answer.
LEMMA Got ==
  ASSUME NEW c, NEW pkg, NEW ver
  PROVE  GetVersion(c, pkg, ver) \subseteq c \cup {NoVersion} /\ GetVersion(c, pkg, ver) # {}
BY DEF GetVersion, GetVersions, resolveVersion

\* The version that v stands for in the graph.
Target(v) == IF v # NoVersion /\ Id(v) = Id(addon) THEN addon ELSE v

\* Targets, read one dependency at a time.
LEMMA TargetsAre ==
  ASSUME NEW m
  PROVE  /\ \A dep \in m.deps : dep[1] # m.pkg =>
              \A v \in GetVersion(case.cache, dep[1], dep[2]) : Target(v) \in Targets(m)
         /\ \A t \in Targets(m) : \E dep \in m.deps :
              /\ dep[1] # m.pkg
              /\ \E v \in GetVersion(case.cache, dep[1], dep[2]) : t = Target(v)
BY DEF Targets, Target

\* They are versions in the graph, or nil.
LEMMA TargetsKnown ==
  ASSUME GraphOK, NEW m
  PROVE  Targets(m) \subseteq Known \cup {NoVersion}
<1> SUFFICES ASSUME NEW t \in Targets(m), t # NoVersion
             PROVE  t \in Known
  OBVIOUS
<1>1. PICK v \in case.cache \cup {NoVersion} : t = Target(v)
  BY TargetsAre, Got
<1>2. addon \in Known
  BY KnownVersions
<1> QED
  BY <1>1, <1>2 DEF Target, Known

\* What is reached from n: n itself, whatever a version that is reached depends on,
\* and nothing that is outside a set with these.
LEMMA Reached ==
  ASSUME GraphOK, NEW n
  PROVE  /\ n \in Reach(n)
         /\ Reach(n) \subseteq case.cache \cup {addon, NoVersion, n}
         /\ \A v \in Reach(n) \ {NoVersion} : Targets(v) \subseteq Reach(n)
         /\ \A s \in SUBSET (case.cache \cup {addon, NoVersion, n}) :
              n \in s /\ (\A v \in s \ {NoVersion} : Targets(v) \subseteq s) => Reach(n) \subseteq s
<1> DEFINE all == case.cache \cup {addon, NoVersion, n}
           closed == {s \in SUBSET all : n \in s /\ \A v \in s \ {NoVersion} : Targets(v) \subseteq s}
<1>1. Reach(n) = {v \in all : \A s \in closed : v \in s}
  BY Zenon DEF Reach
<1>2. \A v : Targets(v) \subseteq all
  BY TargetsKnown DEF Known
<1>3. n \in all
  OBVIOUS
<1>4. \A s : s \in closed <=> /\ s \in SUBSET all /\ n \in s
                              /\ \A v \in s \ {NoVersion} : Targets(v) \subseteq s
  OBVIOUS
<1>5. \A s \in SUBSET all :
        n \in s /\ (\A v \in s \ {NoVersion} : Targets(v) \subseteq s) => Reach(n) \subseteq s
  <2> HIDE DEF all, closed
  <2> QED
    BY <1>1, <1>4
<1>6. n \in Reach(n) /\ Reach(n) \subseteq all
  <2> HIDE DEF all, closed
  <2> QED
    BY <1>1, <1>3, <1>4
<1>7. ASSUME NEW v \in Reach(n) \ {NoVersion}, NEW w \in Targets(v)
      PROVE  w \in Reach(n)
  <2> HIDE DEF all, closed
  <2>1. \A s \in closed : v \in s
    BY <1>1, <1>7
  <2>2. \A s \in closed : w \in s
    BY <1>4, <1>7, <2>1
  <2> QED
    BY <1>1, <1>2, <2>2
<1> QED
  BY <1>5, <1>6, <1>7

\* What is reached from a version in the graph is in the graph, and is the version
\* itself or reached from one it depends on.
LEMMA ReachedThrough ==
  ASSUME GraphOK, NEW n \in Known, NEW u \in Reach(n) \ {NoVersion}
  PROVE  u \in Known /\ (u = n \/ \E t \in Targets(n) \ {NoVersion} : u \in Reach(t))
<1> DEFINE all == case.cache \cup {addon, NoVersion}
           behind == UNION {Reach(t) : t \in Targets(n) \ {NoVersion}}
           s == {n, NoVersion} \cup behind
<1>1. /\ Known \subseteq all /\ NoVersion \in all
      /\ \A v \in Known : case.cache \cup {addon, NoVersion, v} = all
  BY DEF Known
<1> HIDE DEF all
<1>2. Targets(n) \subseteq Known \cup {NoVersion}
  BY TargetsKnown
<1>3. u \in Known
  <2> DEFINE known == Known \cup {NoVersion}
  <2>1. known \in SUBSET all /\ n \in known
    BY <1>1
  <2>2. \A v \in known \ {NoVersion} : Targets(v) \subseteq known
    BY TargetsKnown
  <2>3. Reach(n) \subseteq known
    <3> HIDE DEF known
    <3> QED
      BY <1>1, <2>1, <2>2, Reached
  <2> QED
    BY <2>3
<1>4. \A t \in Targets(n) \ {NoVersion} :
        /\ t \in Reach(t) /\ Reach(t) \subseteq all
        /\ \A v \in Reach(t) \ {NoVersion} : Targets(v) \subseteq Reach(t)
  BY <1>1, <1>2, Reached
<1>5. s \in SUBSET all /\ n \in s
  BY <1>1, <1>4
<1>6. ASSUME NEW v \in s \ {NoVersion}
      PROVE  Targets(v) \subseteq s
  <2>1. CASE v = n
    BY <1>4, <2>1
  <2>2. CASE v \in behind
    BY <1>4, <1>6, <2>2
  <2> QED
    BY <1>6, <2>1, <2>2
<1>7. Reach(n) \subseteq s
  <2> HIDE DEF s
  <2> QED
    BY <1>1, <1>5, <1>6, Reached
<1> QED
  BY <1>3, <1>7

-----------------------------------------------------------------------------
\* The search in the graph

\* A call of the search for version m, with the versions `before' on the way to it.
Call(m, before, d) ==
  /\ m \in Known /\ Id(m) \notin before
  /\ before \in SUBSET Ids(case.cache, addon)
  /\ m = addon \/ Id(addon) \in before
  /\ d \in 0..MaxDepth

\* The first call, and the calls that a call makes.
LEMMA NextCall ==
  ASSUME GraphOK
  PROVE  /\ Call(addon, {}, 0)
         /\ \A m, before, d : Call(m, before, d) /\ d < MaxDepth =>
              \A t \in Targets(m) \ {NoVersion} :
                Id(t) \notin before \cup {Id(m)} => Call(t, before \cup {Id(m)}, d + 1)
<1>1. MaxDepth \in Nat /\ 0 \in 0..MaxDepth
  BY DepthAssumption
<1>2. Call(addon, {}, 0)
  BY <1>1, KnownVersions DEF Call
<1>3. ASSUME NEW m, NEW before, NEW d, Call(m, before, d), d < MaxDepth,
             NEW t \in Targets(m) \ {NoVersion}, Id(t) \notin before \cup {Id(m)}
      PROVE  Call(t, before \cup {Id(m)}, d + 1)
  <2>1. t \in Known
    BY <1>3, TargetsKnown
  <2>2. before \cup {Id(m)} \in SUBSET Ids(case.cache, addon)
    BY <1>3 DEF Call, Known, Ids
  <2>3. Id(addon) \in before \cup {Id(m)}
    BY <1>3 DEF Call
  <2>4. d + 1 \in 0..MaxDepth
    BY <1>1, <1>3 DEF Call
  <2> QED
    BY <1>3, <2>1, <2>2, <2>3, <2>4 DEF Call
<1> QED
  BY <1>2, <1>3

\* A loop over a map has the bad answers of its rounds, and ends well if all do.
LEMMA AnyOrder ==
  ASSUME NEW all
  PROVE  /\ \A x : x # "ok" => (x \in InAnyOrder(all) <=> \E answers \in all : x \in answers)
         /\ (\A answers \in all : "ok" \in answers) <=> "ok" \in InAnyOrder(all)
BY DEF InAnyOrder

\* At the greatest depth the search is given up.
LEMMA CallAtLimit ==
  ASSUME GraphOK, NEW f, IsSearch(f, case.cache, addon, {}), NEW m, NEW before,
         Call(m, before, MaxDepth)
  PROVE  f[<<m, before, MaxDepth>>] = {"panic"}
<1> DEFINE call == <<m, before, MaxDepth>>
<1>1. call \in Calls(case.cache, addon, {})
  BY DEF Call, Known, Calls
<1>2. f[call] = Search(case.cache, f, call)
  BY <1>1 DEF IsSearch
<1>3. MaxDepth >= MaxDepth
  BY DepthAssumption
<1> QED
  BY <1>2, <1>3 DEF Search

\* The answers of a call, by what its version depends on.
LEMMA CallAnswers ==
  ASSUME GraphOK, NEW f, IsSearch(f, case.cache, addon, {}), NEW m, NEW before, NEW d,
         Call(m, before, d), NEW seen, seen = before \cup {Id(m)}
  PROVE  /\ d = MaxDepth => f[<<m, before, d>>] = {"panic"}
         /\ d < MaxDepth =>
              /\ \A dep \in m.deps : dep[1] = m.pkg => "ownPackage" \in f[<<m, before, d>>]
              /\ \A t \in Targets(m) : \A x \in Resolved(f, t, seen, d) :
                   x # "ok" => x \in f[<<m, before, d>>]
              /\ \A x \in f[<<m, before, d>>] :
                   \/ x = "ok"
                   \/ x = "ownPackage" /\ \E dep \in m.deps : dep[1] = m.pkg
                   \/ \E t \in Targets(m) : x \in Resolved(f, t, seen, d)
              /\ (\A dep \in m.deps : dep[1] # m.pkg)
                 /\ (\A t \in Targets(m) : "ok" \in Resolved(f, t, seen, d))
                 => "ok" \in f[<<m, before, d>>]
<1> DEFINE c == case.cache
           all == {Follow(c, f, m, seen, d, dep) : dep \in m.deps}
           now == f[<<m, before, d>>]
<1>1. <<m, before, d>> \in Calls(c, addon, {})
  BY DEF Call, Known, Calls
<1>2. now = Search(c, f, <<m, before, d>>)
  BY <1>1 DEF IsSearch
<1>3. now = IF d >= MaxDepth THEN {"panic"} ELSE InAnyOrder(all)
  BY <1>2 DEF Search
<1>4. d \in 0..MaxDepth /\ MaxDepth \in Nat
  BY DepthAssumption DEF Call
<1>5. d = MaxDepth => now = {"panic"}
  BY <1>3, <1>4
<1> SUFFICES ASSUME d < MaxDepth
             PROVE  /\ \A dep \in m.deps : dep[1] = m.pkg => "ownPackage" \in now
                    /\ \A t \in Targets(m) : \A x \in Resolved(f, t, seen, d) :
                         x # "ok" => x \in now
                    /\ \A x \in now :
                         \/ x = "ok"
                         \/ x = "ownPackage" /\ \E dep \in m.deps : dep[1] = m.pkg
                         \/ \E t \in Targets(m) : x \in Resolved(f, t, seen, d)
                    /\ (\A dep \in m.deps : dep[1] # m.pkg)
                       /\ (\A t \in Targets(m) : "ok" \in Resolved(f, t, seen, d))
                       => "ok" \in now
  BY <1>5
<1>6. now = InAnyOrder(all)
  BY <1>3, <1>4
<1> HIDE DEF now
\* The addon takes the place of its own entry, which has been visited.
<1>7. \A v : Resolved(f, Target(v), seen, d) = Resolved(f, v, seen, d)
  <2>1. NoVersion # addon /\ Id(addon) \in seen
    BY KnownVersions DEF Call
  <2> QED
    BY <2>1 DEF Target, Resolved
<1>8. ASSUME NEW dep \in m.deps, dep[1] = m.pkg
      PROVE  Follow(c, f, m, seen, d, dep) = {"ownPackage"}
  BY Zenon, <1>8 DEF Follow
<1>9. ASSUME NEW dep \in m.deps, dep[1] # m.pkg
      PROVE  Follow(c, f, m, seen, d, dep) =
               UNION {Resolved(f, v, seen, d) : v \in GetVersion(c, dep[1], dep[2])}
  BY Zenon, <1>9 DEF Follow
<1>10. /\ \A dep \in m.deps : Follow(c, f, m, seen, d, dep) \in all
       /\ \A answers \in all : \E dep \in m.deps : answers = Follow(c, f, m, seen, d, dep)
  OBVIOUS
<1> HIDE DEF all
<1>11. /\ \A x : x # "ok" =>
            (x \in now <=> \E dep \in m.deps : x \in Follow(c, f, m, seen, d, dep))
       /\ (\A dep \in m.deps : "ok" \in Follow(c, f, m, seen, d, dep)) => "ok" \in now
  <2>1. /\ \A x : x # "ok" => (x \in now <=> \E answers \in all : x \in answers)
        /\ (\A answers \in all : "ok" \in answers) <=> "ok" \in now
    BY Zenon, <1>6, AnyOrder
  <2>2. ASSUME NEW x, x # "ok"
        PROVE  x \in now <=> \E dep \in m.deps : x \in Follow(c, f, m, seen, d, dep)
    <3>1. ASSUME x \in now
          PROVE  \E dep \in m.deps : x \in Follow(c, f, m, seen, d, dep)
      <4>1. PICK answers \in all : x \in answers
        BY <2>1, <2>2, <3>1
      <4>2. PICK dep \in m.deps : answers = Follow(c, f, m, seen, d, dep)
        BY <1>10
      <4> QED
        BY Zenon, <4>1, <4>2
    <3>2. ASSUME NEW dep \in m.deps, x \in Follow(c, f, m, seen, d, dep)
          PROVE  x \in now
      BY Zenon, <1>10, <2>1, <2>2, <3>2
    <3> QED
      BY <3>1, <3>2
  <2>3. ASSUME \A dep \in m.deps : "ok" \in Follow(c, f, m, seen, d, dep)
        PROVE  "ok" \in now
    BY Zenon, <1>10, <2>1, <2>3
  <2> QED
    BY <2>2, <2>3
<1>12. ASSUME NEW dep \in m.deps, dep[1] = m.pkg
       PROVE  "ownPackage" \in now
  BY <1>8, <1>11, <1>12
<1>13. ASSUME NEW t \in Targets(m), NEW x \in Resolved(f, t, seen, d), x # "ok"
       PROVE  x \in now
  <2>1. PICK dep \in m.deps : /\ dep[1] # m.pkg
                              /\ \E v \in GetVersion(c, dep[1], dep[2]) : t = Target(v)
    BY TargetsAre
  <2>2. PICK v \in GetVersion(c, dep[1], dep[2]) : t = Target(v)
    BY <2>1
  <2>3. x \in Resolved(f, v, seen, d)
    BY <1>7, <1>13, <2>2
  <2>4. x \in Follow(c, f, m, seen, d, dep)
    BY <1>9, <2>1, <2>3
  <2> QED
    BY <1>11, <1>13, <2>4
<1>14. ASSUME NEW x \in now, x # "ok"
       PROVE  \/ x = "ownPackage" /\ \E dep \in m.deps : dep[1] = m.pkg
              \/ \E t \in Targets(m) : x \in Resolved(f, t, seen, d)
  <2>1. PICK dep \in m.deps : x \in Follow(c, f, m, seen, d, dep)
    BY <1>11, <1>14
  <2>2. CASE dep[1] = m.pkg
    BY <1>8, <2>1, <2>2
  <2>3. CASE dep[1] # m.pkg
    <3>1. PICK v \in GetVersion(c, dep[1], dep[2]) : x \in Resolved(f, v, seen, d)
      <4>1. x \in UNION {Resolved(f, v, seen, d) : v \in GetVersion(c, dep[1], dep[2])}
        BY Zenon, <1>9, <2>1, <2>3
      <4> QED
        BY Zenon, <4>1
    <3>2. Target(v) \in Targets(m)
      BY <2>3, TargetsAre
    <3> QED
      BY <1>7, <3>1, <3>2
  <2> QED
    BY <2>2, <2>3
<1>15. ASSUME \A dep \in m.deps : dep[1] # m.pkg,
              \A t \in Targets(m) : "ok" \in Resolved(f, t, seen, d)
       PROVE  "ok" \in now
  <2>1. ASSUME NEW dep \in m.deps
        PROVE  "ok" \in Follow(c, f, m, seen, d, dep)
    <3>1. PICK v : v \in GetVersion(c, dep[1], dep[2])
      BY Got
    <3>2. Target(v) \in Targets(m)
      BY <1>15, <3>1, TargetsAre
    <3>3. "ok" \in Resolved(f, v, seen, d)
      BY <1>7, <1>15, <3>2
    <3> QED
      BY <1>9, <1>15, <3>1, <3>3
  <2> QED
    BY <1>11, <2>1
<1> QED
  BY <1>12, <1>13, <1>14, <1>15

\* There are finitely many versions, and as many as Versions says.
LEMMA FinitelyManyIds ==
  ASSUME GraphOK
  PROVE  IsFiniteSet(Ids(case.cache, addon)) /\ Versions = Cardinality(Ids(case.cache, addon))
<1> DEFINE known == {Id(v) : v \in case.cache}
           id == [v \in case.cache |-> Id(v)]
<1>1. id \in Surjection(case.cache, known)
  BY DEF Surjection
<1>2. IsFiniteSet(known)
  BY <1>1, FS_Surjection DEF GraphOK
<1>3. Ids(case.cache, addon) = known \cup {Id(addon)}
  BY DEF Ids
<1> QED
  BY <1>2, <1>3, FS_AddElement DEF Versions

\* A call has visited as many versions as it is deep: below the limit, that leaves
\* none to visit where the recursion gives up.
LEMMA NoPanicBelowLimit ==
  ASSUME GraphOK, NEW f, IsSearch(f, case.cache, addon, {}), Versions <= MaxDepth
  PROVE  "panic" \notin f[<<addon, {}, 0>>]
<1> DEFINE Ending(d) == \A m, before : Call(m, before, d) /\ Cardinality(before) = d =>
                          "panic" \notin f[<<m, before, d>>]
           S == {d \in 0..MaxDepth : Ending(d)}
<1>1. MaxDepth \in Nat
  BY DepthAssumption
<1>2. ASSUME NEW m, NEW before, NEW d, Call(m, before, d), Cardinality(before) = d
      PROVE  Cardinality(before \cup {Id(m)}) = d + 1 /\ d + 1 <= MaxDepth
  <2>1. before \cup {Id(m)} \in SUBSET Ids(case.cache, addon)
    BY <1>2 DEF Call, Known, Ids
  <2>2. /\ IsFiniteSet(before) /\ IsFiniteSet(before \cup {Id(m)})
        /\ Cardinality(before \cup {Id(m)}) <= Versions
    BY <1>2, <2>1, FinitelyManyIds, FS_Subset DEF Call
  <2>3. Cardinality(before \cup {Id(m)}) = d + 1
    BY <1>2, <2>2, FS_AddElement DEF Call
  <2>4. Versions \in Nat /\ d \in Nat
    BY <1>1, <1>2, FinitelyManyIds, FS_CardinalityType DEF Call
  <2> QED
    BY <1>1, <2>2, <2>3, <2>4
<1>3. MaxDepth \in S
  <2>1. ASSUME NEW m, NEW before, Call(m, before, MaxDepth), Cardinality(before) = MaxDepth
        PROVE  FALSE
    <3>1. MaxDepth + 1 <= MaxDepth
      BY Zenon, <1>2, <2>1
    <3> QED
      BY <1>1, <3>1
  <2>2. Ending(MaxDepth)
    BY <2>1
  <2> HIDE DEF Ending
  <2> QED
    BY <1>1, <2>2
<1>4. ASSUME NEW d \in 0..(MaxDepth - 1), d + 1 \in S
      PROVE  d \in S
  <2>1. d < MaxDepth /\ d \in 0..MaxDepth
    BY <1>1
  <2>2. ASSUME NEW m, NEW before, Call(m, before, d), Cardinality(before) = d,
               "panic" \in f[<<m, before, d>>]
        PROVE  FALSE
    <3> DEFINE seen == before \cup {Id(m)}
    <3>1. PICK t \in Targets(m) : "panic" \in Resolved(f, t, seen, d)
      BY <2>1, <2>2, CallAnswers
    <3>2. t # NoVersion /\ Id(t) \notin seen /\ "panic" \in f[<<t, seen, d + 1>>]
      BY <3>1 DEF Resolved
    <3>3. Call(t, seen, d + 1)
      BY <2>1, <2>2, <3>1, <3>2, NextCall
    <3>4. Cardinality(seen) = d + 1
      BY <1>2, <2>2
    <3>5. Ending(d + 1)
      BY <1>4
    <3> HIDE DEF seen
    <3> QED
      BY <3>2, <3>3, <3>4, <3>5
  <2>3. Ending(d)
    BY <2>2
  <2> HIDE DEF Ending
  <2> QED
    BY <2>1, <2>3
<1>5. Ending(0)
  <2>1. 0 \in S
    <3> HIDE DEF S
    <3> QED
      BY <1>1, <1>3, <1>4, Downwards
  <2> QED
    BY <2>1
<1> QED
  BY <1>5, NextCall, FS_EmptySet

\* The answers that turn an addon away.
Wrong == {"panic", "circular", "notInstalled", "ownPackage"}

\* A search that finds nothing wrong ends well.
LEMMA EndsWell ==
  ASSUME GraphOK, NEW f, IsSearch(f, case.cache, addon, {}), f[<<addon, {}, 0>>] \cap Wrong = {}
  PROVE  f[<<addon, {}, 0>>] = {"ok"}
<1> DEFINE Saying(d) == \A m, before : Call(m, before, d) =>
                          /\ f[<<m, before, d>>] \subseteq Wrong \cup {"ok"}
                          /\ f[<<m, before, d>>] # {}
           S == {d \in 0..MaxDepth : Saying(d)}
<1>1. MaxDepth \in Nat
  BY DepthAssumption
<1>2. MaxDepth \in S
  <2>1. ASSUME NEW m, NEW before, Call(m, before, MaxDepth)
        PROVE  f[<<m, before, MaxDepth>>] = {"panic"}
    BY Zenon, <2>1, CallAtLimit
  <2>2. Saying(MaxDepth)
    BY <2>1 DEF Wrong
  <2> HIDE DEF Saying
  <2> QED
    BY <1>1, <2>2
<1>3. ASSUME NEW d \in 0..(MaxDepth - 1), d + 1 \in S
      PROVE  d \in S
  <2>1. d < MaxDepth /\ d \in 0..MaxDepth
    BY <1>1
  <2>2. ASSUME NEW m, NEW before, Call(m, before, d)
        PROVE  f[<<m, before, d>>] \subseteq Wrong \cup {"ok"} /\ f[<<m, before, d>>] # {}
    <3> DEFINE seen == before \cup {Id(m)}
               now == f[<<m, before, d>>]
    <3>1. /\ \A dep \in m.deps : dep[1] = m.pkg => "ownPackage" \in now
          /\ \A t \in Targets(m) : \A x \in Resolved(f, t, seen, d) : x # "ok" => x \in now
          /\ \A x \in now : \/ x \in {"ok", "ownPackage"}
                            \/ \E t \in Targets(m) : x \in Resolved(f, t, seen, d)
          /\ (\A dep \in m.deps : dep[1] # m.pkg)
             /\ (\A t \in Targets(m) : "ok" \in Resolved(f, t, seen, d))
             => "ok" \in now
      BY <2>1, <2>2, CallAnswers
    <3>2. ASSUME NEW t \in Targets(m)
          PROVE  Resolved(f, t, seen, d) \subseteq Wrong \cup {"ok"} /\ Resolved(f, t, seen, d) # {}
      <4>1. CASE t = NoVersion \/ Id(t) \in seen
        BY <4>1 DEF Resolved, Wrong
      <4>2. CASE t # NoVersion /\ Id(t) \notin seen
        <5>1. Call(t, seen, d + 1)
          BY <2>1, <2>2, <4>2, NextCall
        <5>2. Saying(d + 1)
          BY <1>3
        <5>3. Resolved(f, t, seen, d) = f[<<t, seen, d + 1>>]
          BY Zenon, <4>2 DEF Resolved
        <5> HIDE DEF seen
        <5> QED
          BY <5>1, <5>2, <5>3
      <4> QED
        BY <4>1, <4>2
    <3> HIDE DEF now, seen
    <3>3. now \subseteq Wrong \cup {"ok"}
      BY <3>1, <3>2 DEF Wrong
    <3>4. now # {}
      BY <3>1, <3>2
    <3> QED
      BY <3>3, <3>4 DEF now
  <2>3. Saying(d)
    BY <2>2
  <2> HIDE DEF Saying
  <2> QED
    BY <2>1, <2>3
<1>4. Saying(0)
  <2>1. 0 \in S
    <3> HIDE DEF S
    <3> QED
      BY <1>1, <1>2, <1>3, Downwards
  <2> QED
    BY <2>1
<1>5. Call(addon, {}, 0)
  BY NextCall
<1> QED
  BY <1>4, <1>5

\* The way to a call's version: it is reached from the addon and from every version
\* that was visited.
OnTheWay(m, before) ==
  /\ m \in Reach(addon)
  /\ \A i \in before : \E u \in Known : Id(u) = i /\ m \in Reach(u)

\* What the graph has to say for an answer.
Explained(answers) ==
  /\ "circular" \in answers => CycleReached
  /\ "notInstalled" \in answers => NoVersion \in Reach(addon)
  /\ "ownPackage" \in answers => DependsOnItself

\* What turns the addon away is in the graph.
LEMMA AnswersExplained ==
  ASSUME GraphOK, NEW f, IsSearch(f, case.cache, addon, {})
  PROVE  Explained(f[<<addon, {}, 0>>])
<1> DEFINE Right(d) == \A m, before : Call(m, before, d) /\ OnTheWay(m, before) =>
                         Explained(f[<<m, before, d>>])
           S == {d \in 0..MaxDepth : Right(d)}
<1>1. MaxDepth \in Nat
  BY DepthAssumption
<1>2. MaxDepth \in S
  <2>1. ASSUME NEW m, NEW before, Call(m, before, MaxDepth)
        PROVE  f[<<m, before, MaxDepth>>] = {"panic"}
    BY Zenon, <2>1, CallAtLimit
  <2>2. Right(MaxDepth)
    BY <2>1 DEF Explained
  <2> HIDE DEF Right
  <2> QED
    BY <1>1, <2>2
<1>3. ASSUME NEW d \in 0..(MaxDepth - 1), d + 1 \in S
      PROVE  d \in S
  <2>1. d < MaxDepth /\ d \in 0..MaxDepth
    BY <1>1
  <2>2. ASSUME NEW m, NEW before, Call(m, before, d), OnTheWay(m, before)
        PROVE  Explained(f[<<m, before, d>>])
    <3> DEFINE seen == before \cup {Id(m)}
               now == f[<<m, before, d>>]
    <3>1. /\ m \in Known /\ m # NoVersion /\ m \in Reach(addon)
          /\ Targets(m) \subseteq Reach(addon)
      BY <2>2, KnownVersions, Reached DEF Call, OnTheWay
    <3>2. \A x \in now :
            \/ x = "ok"
            \/ x = "ownPackage" /\ \E dep \in m.deps : dep[1] = m.pkg
            \/ \E t \in Targets(m) : x \in Resolved(f, t, seen, d)
      BY <2>1, <2>2, CallAnswers
    <3>3. \A i \in seen : \E u \in Known : Id(u) = i /\ m \in Reach(u)
      BY <2>2, <3>1, Reached DEF OnTheWay
    <3>4. ASSUME NEW t \in Targets(m)
          PROVE  Explained(Resolved(f, t, seen, d))
      <4>1. CASE t = NoVersion
        BY <3>1, <3>4, <4>1 DEF Resolved, Explained
      <4>2. CASE t # NoVersion /\ Id(t) \in seen
        <5>1. PICK u \in Known : Id(u) = Id(t) /\ m \in Reach(u)
          BY <3>3, <4>2
        <5>2. u = t
          BY <4>2, <5>1, KnownVersions, TargetsKnown
        <5>3. CycleReached
          BY <3>1, <4>2, <5>1, <5>2 DEF CycleReached
        <5> QED
          BY <4>2, <5>3 DEF Resolved, Explained
      <4>3. CASE t # NoVersion /\ Id(t) \notin seen
        <5>1. Call(t, seen, d + 1)
          BY <2>1, <2>2, <4>3, NextCall
        <5>2. OnTheWay(t, seen)
          <6>1. \A u \in Known : m \in Reach(u) => t \in Reach(u)
            BY <3>1, Reached
          <6> QED
            BY <3>1, <3>3, <6>1 DEF OnTheWay
        <5>3. Right(d + 1)
          BY <1>3
        <5>4. Resolved(f, t, seen, d) = f[<<t, seen, d + 1>>]
          BY Zenon, <4>3 DEF Resolved
        <5> HIDE DEF seen
        <5> QED
          BY Zenon, <5>1, <5>2, <5>3, <5>4
      <4> QED
        BY <4>1, <4>2, <4>3
    <3>5. (\E dep \in m.deps : dep[1] = m.pkg) => DependsOnItself
      BY <3>1 DEF DependsOnItself
    <3> HIDE DEF now, seen
    <3>6. Explained(now)
      BY <3>2, <3>4, <3>5 DEF Explained
    <3> QED
      BY <3>6 DEF now
  <2>3. Right(d)
    BY <2>2
  <2> HIDE DEF Right
  <2> QED
    BY <2>1, <2>3
<1>4. Right(0)
  <2>1. 0 \in S
    <3> HIDE DEF S
    <3> QED
      BY <1>1, <1>2, <1>3, Downwards
  <2> QED
    BY <2>1
<1>5. Call(addon, {}, 0) /\ OnTheWay(addon, {})
  BY NextCall, Reached DEF OnTheWay
<1> QED
  BY <1>4, <1>5

\* A call that is not turned away for a cycle reaches nothing that was visited.
LEMMA NothingVisitedReached ==
  ASSUME GraphOK, NEW f, IsSearch(f, case.cache, addon, {}), NEW m, NEW before, NEW d,
         Call(m, before, d), f[<<m, before, d>>] \cap {"circular", "panic"} = {},
         NEW u \in Reach(m) \ {NoVersion}
  PROVE  Id(u) \notin before
<1> DEFINE Apart(k) == \A n, b : Call(n, b, k) /\ f[<<n, b, k>>] \cap {"circular", "panic"} = {} =>
                         \A v \in Reach(n) \ {NoVersion} : Id(v) \notin b
           S == {k \in 0..MaxDepth : Apart(k)}
<1>1. MaxDepth \in Nat
  BY DepthAssumption
<1>2. MaxDepth \in S
  <2>1. ASSUME NEW n, NEW b, Call(n, b, MaxDepth)
        PROVE  f[<<n, b, MaxDepth>>] = {"panic"}
    BY Zenon, <2>1, CallAtLimit
  <2>2. Apart(MaxDepth)
    BY <2>1
  <2> HIDE DEF Apart
  <2> QED
    BY <1>1, <2>2
<1>3. ASSUME NEW k \in 0..(MaxDepth - 1), k + 1 \in S
      PROVE  k \in S
  <2>1. k < MaxDepth /\ k \in 0..MaxDepth
    BY <1>1
  <2>2. ASSUME NEW n, NEW b, Call(n, b, k), f[<<n, b, k>>] \cap {"circular", "panic"} = {},
               NEW v \in Reach(n) \ {NoVersion}
        PROVE  Id(v) \notin b
    <3> DEFINE seen == b \cup {Id(n)}
    <3>1. n \in Known /\ Id(n) \notin b
      BY <2>2 DEF Call
    <3>2. CASE v = n
      BY <3>1, <3>2
    <3>3. ASSUME NEW t \in Targets(n) \ {NoVersion}, v \in Reach(t)
          PROVE  Id(v) \notin b
      <4>1. Resolved(f, t, seen, k) \cap {"circular", "panic"} = {}
        BY <2>1, <2>2, <3>3, CallAnswers
      <4>2. Id(t) \notin seen /\ Resolved(f, t, seen, k) = f[<<t, seen, k + 1>>]
        BY <3>3, <4>1 DEF Resolved
      <4>3. Call(t, seen, k + 1)
        BY <2>1, <2>2, <3>3, <4>2, NextCall
      <4>4. Apart(k + 1)
        BY <1>3
      <4>5. Id(v) \notin seen
        <5> HIDE DEF seen
        <5> QED
          BY <2>2, <3>3, <4>1, <4>2, <4>3, <4>4
      <4> QED
        BY <4>5
    <3> QED
      BY <2>2, <3>1, <3>2, <3>3, ReachedThrough
  <2>3. Apart(k)
    BY <2>2
  <2> HIDE DEF Apart
  <2> QED
    BY <2>1, <2>3
<1>4. Apart(d)
  <2>1. d \in S
    <3> HIDE DEF S
    <3> QED
      BY <1>2, <1>3, Downwards DEF Call
  <2> QED
    BY <2>1
<1> QED
  BY <1>4

\* Calls in whose answers there is none of B.
Passing(f, B, v) == \E before, d : Call(v, before, d) /\ f[<<v, before, d>>] \cap B = {}

\* If neither a cycle nor the limit turns the addon away, then every version that is
\* reached has such a call, for whatever else does not turn the addon away; and it
\* is on no cycle.
LEMMA ReachedPasses ==
  ASSUME GraphOK, NEW f, IsSearch(f, case.cache, addon, {}), NEW B, "ok" \notin B,
         {"circular", "panic"} \subseteq B, f[<<addon, {}, 0>>] \cap B = {}
  PROVE  /\ \A v \in Reach(addon) \ {NoVersion} : Passing(f, B, v)
         /\ ~CycleReached
         /\ "notInstalled" \in B => NoVersion \notin Reach(addon)
         /\ "ownPackage" \in B => ~DependsOnItself
<1> DEFINE passing == {v \in Known : Passing(f, B, v)}
           nil == IF "notInstalled" \in B THEN {} ELSE {NoVersion}
           s == passing \cup nil
<1>1. NoVersion \notin passing /\ addon \in passing
  BY KnownVersions, NextCall DEF Passing
<1>2. ASSUME NEW v, Passing(f, B, v)
      PROVE  \E before, d : /\ Call(v, before, d) /\ f[<<v, before, d>>] \cap B = {}
                            /\ \A t \in Targets(v) :
                                 /\ t = NoVersion => "notInstalled" \notin B
                                 /\ t # NoVersion =>
                                      /\ Call(t, before \cup {Id(v)}, d + 1)
                                      /\ f[<<t, before \cup {Id(v)}, d + 1>>] \cap B = {}
                            /\ "ownPackage" \in B => \A dep \in v.deps : dep[1] # v.pkg
  <2>1. PICK before, d : Call(v, before, d) /\ f[<<v, before, d>>] \cap B = {}
    BY Zenon, <1>2 DEF Passing
  <2> DEFINE seen == before \cup {Id(v)}
  <2>2. d < MaxDepth
    <3>1. d \in 0..MaxDepth /\ MaxDepth \in Nat
      BY <2>1, DepthAssumption DEF Call
    <3>2. d # MaxDepth
      <4>1. ASSUME d = MaxDepth
            PROVE  f[<<v, before, d>>] = {"panic"}
        BY Zenon, <2>1, <4>1, CallAtLimit
      <4> QED
        BY <2>1, <4>1
    <3> QED
      BY <3>1, <3>2
  <2>3. /\ \A dep \in v.deps : dep[1] = v.pkg => "ownPackage" \in f[<<v, before, d>>]
        /\ \A t \in Targets(v) : \A x \in Resolved(f, t, seen, d) :
             x # "ok" => x \in f[<<v, before, d>>]
    BY <2>1, <2>2, CallAnswers
  <2>4. ASSUME NEW t \in Targets(v)
        PROVE  /\ t = NoVersion => "notInstalled" \notin B
               /\ t # NoVersion => Call(t, seen, d + 1) /\ f[<<t, seen, d + 1>>] \cap B = {}
    <3>1. Resolved(f, t, seen, d) \cap B = {}
      <4> HIDE DEF seen
      <4> QED
        BY <2>1, <2>3, <2>4
    <3>2. CASE t = NoVersion
      BY <3>1, <3>2 DEF Resolved
    <3>3. CASE t # NoVersion
      <4>1. Id(t) \notin seen /\ Resolved(f, t, seen, d) = f[<<t, seen, d + 1>>]
        BY <3>1, <3>3 DEF Resolved
      <4>2. Call(t, seen, d + 1)
        BY <2>1, <2>2, <2>4, <3>3, <4>1, NextCall
      <4> QED
        BY <3>1, <3>3, <4>1, <4>2
    <3> QED
      BY <3>2, <3>3
  <2>5. "ownPackage" \in B => \A dep \in v.deps : dep[1] # v.pkg
    BY <2>1, <2>3
  <2> QED
    BY <2>1, <2>4, <2>5
<1>3. ASSUME NEW v \in s \ {NoVersion}
      PROVE  Targets(v) \subseteq s
  <2>1. Passing(f, B, v)
    BY <1>3
  <2>2. \A t \in Targets(v) : /\ t = NoVersion => "notInstalled" \notin B
                              /\ t # NoVersion => Passing(f, B, t)
    BY <1>2, <2>1 DEF Passing
  <2> QED
    BY <2>2, TargetsKnown
<1>4. Reach(addon) \subseteq s
  <2>1. s \in SUBSET (case.cache \cup {addon, NoVersion, addon}) /\ addon \in s
    BY <1>1 DEF Known
  <2> HIDE DEF s
  <2> QED
    BY <1>3, <2>1, Reached
<1>5. \A v \in Reach(addon) \ {NoVersion} : v \in Known /\ Passing(f, B, v)
  BY <1>4
<1>6. "notInstalled" \in B => NoVersion \notin Reach(addon)
  BY <1>1, <1>4
<1>7. "ownPackage" \in B => ~DependsOnItself
  BY <1>2, <1>5 DEF DependsOnItself
<1>8. ASSUME NEW v \in Reach(addon) \ {NoVersion}, NEW w \in Targets(v) \ {NoVersion},
             v \in Reach(w)
      PROVE  FALSE
  <2>1. PICK before, d : /\ Call(w, before \cup {Id(v)}, d + 1)
                         /\ f[<<w, before \cup {Id(v)}, d + 1>>] \cap B = {}
    BY <1>2, <1>5, <1>8
  <2>2. f[<<w, before \cup {Id(v)}, d + 1>>] \cap {"circular", "panic"} = {}
    BY <2>1
  <2>3. Id(v) \notin before \cup {Id(v)}
    BY <1>8, <2>1, <2>2, NothingVisitedReached
  <2> QED
    BY <2>3
<1> QED
  BY <1>5, <1>6, <1>7, <1>8 DEF CycleReached

-----------------------------------------------------------------------------

\* The search ends before it is given up for its depth if there are no more versions
\* than MaxDepth.
LEMMA PanicsOnlyAtLimit ==
  ASSUME GraphOK, Versions <= MaxDepth
  PROVE  "panic" \notin resolveDependencies(case.cache, addon, {}, 0)
BY Zenon, Resolution, NoPanicBelowLimit

\* The search matches the graph, unless it is given up.
LEMMA ResolvedMatchesGraph ==
  ASSUME GraphOK, NEW answers, answers = resolveDependencies(case.cache, addon, {}, 0),
         "panic" \notin answers
  PROVE  /\ "circular" \in answers <=> CycleReached
         /\ answers = {"ok"} <=> ~CycleReached /\ NoVersion \notin Reach(addon) /\ ~DependsOnItself
<1>1. PICK f : IsSearch(f, case.cache, addon, {}) /\ answers = f[<<addon, {}, 0>>]
  BY Zenon, Resolution
<1>2. Explained(answers)
  BY Zenon, <1>1, AnswersExplained
<1>3. ASSUME "circular" \notin answers
      PROVE  ~CycleReached
  <2> DEFINE B == {"circular", "panic"}
  <2>1. "ok" \notin B /\ {"circular", "panic"} \subseteq B /\ answers \cap B = {}
    BY <1>3
  <2> HIDE DEF B
  <2> QED
    BY Zenon, <1>1, <2>1, ReachedPasses
<1>4. ASSUME answers = {"ok"}
      PROVE  ~CycleReached /\ NoVersion \notin Reach(addon) /\ ~DependsOnItself
  <2>1. /\ "ok" \notin Wrong /\ {"circular", "panic"} \subseteq Wrong /\ answers \cap Wrong = {}
        /\ "notInstalled" \in Wrong /\ "ownPackage" \in Wrong
    BY <1>4 DEF Wrong
  <2> QED
    BY Zenon, <1>1, <2>1, ReachedPasses
<1>5. ASSUME ~CycleReached, NoVersion \notin Reach(addon), ~DependsOnItself
      PROVE  answers = {"ok"}
  <2>1. answers \cap Wrong = {}
    BY <1>2, <1>5 DEF Explained, Wrong
  <2> QED
    BY Zenon, <1>1, <2>1, EndsWell
<1> QED
  BY <1>2, <1>3, <1>4, <1>5 DEF Explained

=============================================================================
