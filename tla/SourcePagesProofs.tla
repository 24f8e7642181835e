------------------------- MODULE SourcePagesProofs -------------------------
(***************************************************************************)
(* Proofs about SourcePages for any platforms, keywords, listings, limits  *)
(* and page sizes: what a fetcher reports of its pages is true, a source   *)
(* that is said to be exhausted was read to its end, and the raw rows are  *)
(* just what the stored sources delivered.  The recursion of Fresh needs   *)
(* induction, which is derived here for sets of natural numbers from the   *)
(* well-foundedness of finite sets.                                        *)
(***************************************************************************)
EXTENDS SourcePages, FiniteSetTheorems, SequenceTheorems, WellFoundedInduction, TLAPS

-----------------------------------------------------------------------------
(* Induction over the natural numbers, by sets. *)

\* A set of natural numbers has a least element: the intervals up to its
\* elements are finite sets, and these are well-founded.
LEMMA LeastNumber ==
  ASSUME NEW T, T \subseteq Nat, T # {}
  PROVE  \E m \in T : \A n \in T : m <= n
<1> DEFINE U == {1..m : m \in T}
<1>1. U \subseteq FiniteSubsetsOf(Nat) /\ U # {}
  <2>1. \A m \in T : 1..m \in SUBSET Nat /\ IsFiniteSet(1..m)
    BY FS_Interval
  <2> QED BY <2>1 DEF FiniteSubsetsOf
<1>2. IsWellFoundedOn(StrictSubsetOrdering(Nat), FiniteSubsetsOf(Nat))
  BY FS_StrictSubsetOrderingWellFounded
<1> HIDE DEF U
<1>3. PICK x \in U : \A y \in U : ~ (<<y, x>> \in StrictSubsetOrdering(Nat))
  BY <1>1, <1>2, WFMin
<1>4. PICK m \in T : x = 1..m
  BY DEF U
<1>5. ASSUME NEW n \in T, n < m PROVE FALSE
  <2>1. 1..n \in U /\ 1..n \subseteq 1..m /\ 1..n # 1..m /\ 1..n \subseteq Nat /\ 1..m \subseteq Nat
    BY <1>5 DEF U
  <2> QED BY <1>3, <1>4, <2>1 DEF StrictSubsetOrdering
<1> QED BY <1>5

\* Induction over the natural numbers, with a set in place of a predicate.
LEMMA SetInduction ==
  ASSUME NEW T, 0 \in T, \A n \in Nat : n \in T => n + 1 \in T
  PROVE  \A n \in Nat : n \in T
<1> SUFFICES ASSUME Nat \ T # {} PROVE FALSE
  OBVIOUS
<1>1. PICK m \in Nat \ T : \A n \in Nat \ T : m <= n
  BY LeastNumber
<1>2. m # 0 /\ m - 1 \in Nat /\ ~(m <= m - 1) /\ (m - 1) + 1 = m
  BY <1>1
<1> QED BY <1>1, <1>2

-----------------------------------------------------------------------------
(* dedupe_new_jobs *)

\* The jobs that are selected among the first n.
IsSelection(g, jobs, seen, m) ==
  g = [n \in 0..m |->
         IF n = 0 THEN <<>>
         ELSE IF jobs[n] \in seen THEN g[n - 1] ELSE Append(g[n - 1], jobs[n])]

\* The recursion of Fresh defines a function.
LEMMA SelectionExists ==
  ASSUME NEW jobs, NEW seen
  PROVE  \A m \in Nat : \E g : IsSelection(g, jobs, seen, m)
<1> DEFINE T == {m \in Nat : \E g : IsSelection(g, jobs, seen, m)}
<1>1. 0 \in T
  <2>1. IsSelection([n \in 0..0 |-> <<>>], jobs, seen, 0)
    BY DEF IsSelection
  <2> QED BY <2>1
<1>2. ASSUME NEW m \in Nat, m \in T PROVE m + 1 \in T
  <2>1. PICK g : IsSelection(g, jobs, seen, m)
    BY <1>2
  <2> DEFINE h == [n \in 0..m + 1 |->
                     IF n <= m THEN g[n]
                     ELSE IF jobs[n] \in seen THEN g[m] ELSE Append(g[m], jobs[n])]
  <2>2. DOMAIN h = 0..m + 1 /\ \A n \in 0..m : h[n] = g[n]
    OBVIOUS
  <2>3. \A n \in 0..m + 1 :
          h[n] = IF n = 0 THEN <<>>
                 ELSE IF jobs[n] \in seen THEN h[n - 1] ELSE Append(h[n - 1], jobs[n])
    <3> SUFFICES ASSUME NEW n \in 0..m + 1
                 PROVE  h[n] = IF n = 0 THEN <<>>
                               ELSE IF jobs[n] \in seen THEN h[n - 1]
                               ELSE Append(h[n - 1], jobs[n])
      OBVIOUS
    <3>1. CASE n \in 0..m
      <4>1. g[n] = IF n = 0 THEN <<>>
                   ELSE IF jobs[n] \in seen THEN g[n - 1] ELSE Append(g[n - 1], jobs[n])
        BY <2>1, <3>1 DEF IsSelection
      <4>2. n # 0 => n - 1 \in 0..m
        BY <3>1
      <4> HIDE DEF h
      <4> QED BY <2>2, <3>1, <4>1, <4>2
    <3>2. CASE n = m + 1
      <4>1. n # 0 /\ n - 1 = m /\ ~(n <= m) /\ h[m] = g[m]
        BY <3>2, <2>2
      <4> QED BY <3>2, <4>1
    <3> QED BY <3>1, <3>2
  <2>4. IsSelection(h, jobs, seen, m + 1)
    BY <2>2, <2>3 DEF IsSelection
  <2> HIDE DEF h
  <2> QED BY <2>4
<1> HIDE DEF T
<1>3. \A m \in Nat : m \in T
  BY <1>1, <1>2, SetInduction
<1> QED BY <1>3 DEF T

\* A list without repetitions, and an element that is not in it.
LEMMA AppendNew ==
  ASSUME NEW S, NEW q \in Seq(S), NEW x \in S, IsInjective(q), x \notin ToSet(q)
  PROVE  /\ Append(q, x) \in Seq(S) /\ IsInjective(Append(q, x))
         /\ ToSet(Append(q, x)) = ToSet(q) \cup {x}
<1>1. /\ DOMAIN q = 1..Len(q) /\ Len(q) \in Nat
      /\ DOMAIN Append(q, x) = 1..Len(q) + 1
      /\ \A i \in 1..Len(q) : Append(q, x)[i] = q[i]
      /\ Append(q, x)[Len(q) + 1] = x
  OBVIOUS
<1>2. \A i \in 1..Len(q) + 1 : i \in 1..Len(q) \/ i = Len(q) + 1
  BY <1>1
<1>3. \A i \in 1..Len(q) : i \in 1..Len(q) + 1
  BY <1>1
<1>4. Len(q) + 1 \in 1..Len(q) + 1
  BY <1>1
<1>5. IsInjective(Append(q, x))
  BY <1>1, <1>2 DEF IsInjective, ToSet
<1>6. ToSet(Append(q, x)) = ToSet(q) \cup {x}
  BY <1>1, <1>2, <1>3, <1>4 DEF ToSet
<1> QED BY <1>5, <1>6

\* What is selected of a page without repetitions are its jobs that were not
\* collected before, without repetitions.
LEMMA FreshIsNew ==
  ASSUME NEW s, NEW jobs \in Seq(Jobs), IsInjective(jobs)
  PROVE  /\ Fresh(s, jobs) \in Seq(Jobs) /\ IsInjective(Fresh(s, jobs))
         /\ ToSet(Fresh(s, jobs)) = ToSet(jobs) \ ToSet(s.collected)
<1> DEFINE seen == ToSet(s.collected)
           g == CHOOSE g : IsSelection(g, jobs, seen, Len(jobs))
           T == {m \in Nat : m <= Len(jobs) =>
                   /\ g[m] \in Seq(Jobs) /\ IsInjective(g[m])
                   /\ ToSet(g[m]) = {jobs[i] : i \in 1..m} \ seen}
<1>1. IsSelection(g, jobs, seen, Len(jobs)) /\ Len(jobs) \in Nat
  BY SelectionExists
<1>2. Fresh(s, jobs) = g[Len(jobs)]
  BY DEF Fresh, IsSelection
<1> HIDE DEF g, seen
<1>3. \A n \in 0..Len(jobs) :
        g[n] = IF n = 0 THEN <<>>
               ELSE IF jobs[n] \in seen THEN g[n - 1] ELSE Append(g[n - 1], jobs[n])
  BY <1>1 DEF IsSelection
<1>4. 0 \in T
  <2>1. g[0] = <<>>
    BY <1>1, <1>3
  <2>2. <<>> \in Seq(Jobs) /\ IsInjective(<<>>) /\ ToSet(<<>>) = {}
    BY DEF IsInjective, ToSet
  <2>3. {jobs[i] : i \in 1..0} = {}
    OBVIOUS
  <2> QED BY <2>1, <2>2, <2>3
<1>5. ASSUME NEW m \in Nat, m \in T PROVE m + 1 \in T
  <2> SUFFICES ASSUME m + 1 <= Len(jobs)
               PROVE  /\ g[m + 1] \in Seq(Jobs) /\ IsInjective(g[m + 1])
                      /\ ToSet(g[m + 1]) = {jobs[i] : i \in 1..m + 1} \ seen
    OBVIOUS
  <2>1. /\ g[m] \in Seq(Jobs) /\ IsInjective(g[m])
        /\ ToSet(g[m]) = {jobs[i] : i \in 1..m} \ seen
    BY <1>1, <1>5
  <2>2. /\ m + 1 \in 1..Len(jobs) /\ (m + 1) - 1 = m
        /\ g[m + 1] = IF jobs[m + 1] \in seen THEN g[m] ELSE Append(g[m], jobs[m + 1])
    BY <1>1, <1>3
  <2>3. {jobs[i] : i \in 1..m + 1} = {jobs[i] : i \in 1..m} \cup {jobs[m + 1]}
    <3>1. \A i \in Nat : i \in 1..m + 1 <=> i \in 1..m \/ i = m + 1
      OBVIOUS
    <3>2. 1..m \subseteq Nat /\ 1..m + 1 \subseteq Nat
      OBVIOUS
    <3> QED BY <3>1, <3>2
  <2>4. jobs[m + 1] \in Jobs /\ jobs[m + 1] \notin {jobs[i] : i \in 1..m}
    BY <2>2 DEF IsInjective
  <2>5. CASE jobs[m + 1] \in seen
    BY <2>1, <2>2, <2>3, <2>5
  <2>6. CASE jobs[m + 1] \notin seen
    <3>1. jobs[m + 1] \notin ToSet(g[m])
      BY <2>1, <2>4
    <3>2. /\ Append(g[m], jobs[m + 1]) \in Seq(Jobs) /\ IsInjective(Append(g[m], jobs[m + 1]))
          /\ ToSet(Append(g[m], jobs[m + 1])) = ToSet(g[m]) \cup {jobs[m + 1]}
      BY <2>1, <2>4, <3>1, AppendNew
    <3> QED BY <2>1, <2>2, <2>3, <2>6, <3>2
  <2> QED BY <2>5, <2>6
<1> HIDE DEF T
<1>6. Len(jobs) \in T
  BY <1>1, <1>4, <1>5, SetInduction
<1>7. ToSet(jobs) = {jobs[i] : i \in 1..Len(jobs)}
  BY DEF ToSet
<1> QED BY <1>1, <1>2, <1>6, <1>7 DEF T, seen

-----------------------------------------------------------------------------
(* Sizes and pages *)

\* Page sizes and the target are positive.
LEMMA Sizes == PageSize \in Nat \ {0} /\ Served \in Nat \ {0} /\ Target \in Nat \ {0}
BY LimitsAssumption DEF PageSize, Target, Least, Most

\* A page is a part of the list: no longer than asked for, without repetitions.
LEMMA SliceIsPage ==
  ASSUME NEW l \in Seq(Jobs), IsInjective(l), NEW from \in Nat, NEW n \in Nat
  PROVE  /\ Slice(l, from, n) \in Seq(Jobs) /\ IsInjective(Slice(l, from, n))
         /\ Len(Slice(l, from, n)) <= n
         /\ from + Len(Slice(l, from, n)) >= Len(l) => from + n >= Len(l)
         /\ ToSet(Slice(l, from, n)) = {l[i] : i \in from + 1..Least(from + n, Len(l))}
<1> DEFINE upto == Least(from + n, Len(l))
<1>1. upto \in Nat /\ upto <= from + n /\ upto <= Len(l) /\ Len(l) \in Nat
  BY DEF Least
<1> HIDE DEF upto
<1>2. Slice(l, from, n) = SubSeq(l, from + 1, upto)
  BY DEF Slice, upto
<1>3. CASE from >= upto
  <2>1. SubSeq(l, from + 1, upto) = <<>> /\ from + 1..upto = {}
    BY <1>1, <1>3
  <2>2. <<>> \in Seq(Jobs) /\ IsInjective(<<>>) /\ ToSet(<<>>) = {} /\ Len(<<>>) = 0
    BY DEF IsInjective, ToSet
  <2>3. {l[i] : i \in from + 1..upto} = {}
    BY <2>1
  <2>4. Slice(l, from, n) = <<>>
    BY <1>2, <2>1
  <2>5. ToSet(Slice(l, from, n)) = {l[i] : i \in from + 1..upto}
    BY <2>2, <2>3, <2>4
  <2>6. from + Len(Slice(l, from, n)) >= Len(l) => from + n >= Len(l)
    BY <1>1, <2>2, <2>4
  <2> QED BY <1>1, <2>2, <2>4, <2>5, <2>6 DEF upto
<1>4. CASE from < upto
  <2> DEFINE q == SubSeq(l, from + 1, upto)
  <2>1. /\ q \in Seq(Jobs) /\ Len(q) = upto - from /\ DOMAIN q = 1..upto - from
        /\ \A i \in 1..upto - from : q[i] = l[from + i] /\ from + i \in DOMAIN l
    BY <1>1, <1>4
  <2> HIDE DEF q
  <2>2. IsInjective(q)
    <3> SUFFICES ASSUME NEW a \in 1..upto - from, NEW b \in 1..upto - from, q[a] = q[b]
                 PROVE  a = b
      BY <2>1 DEF IsInjective
    <3>1. from + a = from + b
      BY <2>1 DEF IsInjective
    <3> QED BY <1>1, <3>1
  <2>3. ToSet(q) = {l[i] : i \in from + 1..upto}
    <3>1. \A i \in 1..upto - from : from + i \in from + 1..upto
      BY <1>1
    <3>2. \A i \in from + 1..upto : i - from \in 1..upto - from /\ from + (i - from) = i
      BY <1>1
    <3>3. \A x \in ToSet(q) : x \in {l[i] : i \in from + 1..upto}
      BY <2>1, <3>1 DEF ToSet
    <3>4. \A i \in from + 1..upto : l[i] \in ToSet(q)
      <4> SUFFICES ASSUME NEW i \in from + 1..upto PROVE l[i] \in ToSet(q)
        OBVIOUS
      <4>1. i - from \in DOMAIN q /\ q[i - from] = l[i]
        BY <2>1, <3>2
      <4> QED BY <4>1 DEF ToSet
    <3> QED BY <3>3, <3>4
  <2> QED BY <1>1, <1>2, <2>1, <2>2, <2>3 DEF upto, q
<1> QED BY <1>1, <1>3, <1>4

-----------------------------------------------------------------------------
(* The invariant *)

\* What the page loop of keyword k asks for next: jobs after the first From(k).
Size == IF platform \in {"jobstreet", "kalibrr"} THEN Served ELSE PageSize
From(k) == IF platform = "kalibrr" THEN f[k].next ELSE (f[k].next - 1) * Size
Step == IF platform = "kalibrr" THEN Least(Served, PageSize) ELSE Size

SiteInv == site \in [Keywords -> Seq(Jobs)] /\ \A k \in Keywords : IsInjective(site[k])

\* The books of a fetcher: requests, answers, and jobs that were worth them.
Books(s) ==
  /\ s.at = "idle" => s = Idle
  /\ s.at = "page" =>
       /\ s.stop = "none" /\ s.empty <= 1
       /\ s.attempted = s.succeeded + s.failed + 1
       /\ s.attempted <= 2 * Len(s.collected) + s.empty + 1
  /\ s.at = "details" =>
       /\ s.stop = "none" /\ s.empty = 0
       /\ s.attempted = s.succeeded + s.failed
       /\ s.attempted <= 2 * (Len(s.collected) + Len(s.new))
  /\ s.at \in {"fetched", "stored"} => s.attempted = s.succeeded + s.failed
  /\ s.at # "details" => s.new = <<>>
  /\ s.attempted <= MaxPages
  /\ s.attempted <= 2 * (Len(s.collected) + Len(s.new)) + 2
  /\ IsInjective(s.collected \o s.new)

\* Which platforms a fetcher may be in the middle of.
Paging(k) ==
  /\ f[k].at \in {"page", "details"} =>
       platform # "fixture" /\ (platform # "kalibrr" => f[k].next >= 1)
  /\ f[k].at = "details" => platform \in {"dealls", "kitalulus", "jobstreet"}

\* The first c jobs of the list, and whether all of it has been seen.
First(l, c) == {l[i] : i \in 1..Least(c, Len(l))}
Prefix(k, c) == First(site[k], c)
Seen(k) == ToSet(f[k].collected \o f[k].new)
Complete(k) == ToSet(site[k]) \subseteq Seen(k)

\* A fetcher whose pages came from one listing has seen a first part of it that
\* ends within the next page; and a page without a new job was after the end.
Coverage(k) ==
  k \notin moved =>
    /\ f[k].at \in {"page", "details"} =>
         /\ \E c \in Nat : Seen(k) = Prefix(k, c) /\ From(k) <= c /\ c < From(k) + Size
         /\ f[k].empty >= 1 => Complete(k)
    /\ f[k].at = "details" /\ f[k].last => Complete(k)
    /\ f[k].stop = "source_exhausted" => ToSet(site[k]) \subseteq ToSet(f[k].collected)

FetchInv ==
  /\ platform \in Platforms /\ moves \in 0..MaxMoves /\ moved \subseteq Keywords
  /\ SiteInv
  /\ f \in [Keywords -> Fetcher]
  /\ \A k \in Keywords : Books(f[k]) /\ Paging(k)
  /\ status \in {"none", "started", "partial", "completed"}
  /\ status = "none" => \A k \in Keywords : f[k].at = "idle"

CoverageInv == \A k \in Keywords : Coverage(k)

-----------------------------------------------------------------------------
(* Lists of jobs *)

\* The elements, length and repetitions of two lists that are put together.
LEMMA ConcatSet ==
  ASSUME NEW p \in Seq(Jobs), NEW q \in Seq(Jobs)
  PROVE  /\ ToSet(p \o q) = ToSet(p) \cup ToSet(q)
         /\ p \o q \in Seq(Jobs) /\ Len(p \o q) = Len(p) + Len(q) /\ p \o <<>> = p
         /\ IsInjective(p) /\ IsInjective(q) /\ ToSet(p) \cap ToSet(q) = {} => IsInjective(p \o q)
<1> DEFINE r == p \o q
<1>1. /\ r \in Seq(Jobs) /\ Len(r) = Len(p) + Len(q) /\ p \o <<>> = p
      /\ Len(p) \in Nat /\ Len(q) \in Nat
      /\ DOMAIN r = 1..Len(p) + Len(q) /\ DOMAIN p = 1..Len(p) /\ DOMAIN q = 1..Len(q)
      /\ \A i \in 1..Len(p) : r[i] = p[i]
      /\ \A i \in 1..Len(q) : r[Len(p) + i] = q[i]
  BY ConcatProperties
<1> HIDE DEF r
<1>2. \A i \in DOMAIN r : \/ i \in DOMAIN p /\ r[i] = p[i]
                          \/ i - Len(p) \in DOMAIN q /\ r[i] = q[i - Len(p)]
  <2> SUFFICES ASSUME NEW i \in DOMAIN r, i \notin DOMAIN p
               PROVE  i - Len(p) \in DOMAIN q /\ r[i] = q[i - Len(p)]
    BY <1>1
  <2>1. i - Len(p) \in 1..Len(q) /\ Len(p) + (i - Len(p)) = i
    BY <1>1
  <2> QED BY <1>1, <2>1
<1>3. ToSet(r) = ToSet(p) \cup ToSet(q)
  <2>1. \A x \in ToSet(r) : x \in ToSet(p) \cup ToSet(q)
    BY <1>2 DEF ToSet
  <2>2. \A x \in ToSet(p) : x \in ToSet(r)
    BY <1>1 DEF ToSet
  <2>3. \A x \in ToSet(q) : x \in ToSet(r)
    <3>1. \A i \in DOMAIN q : Len(p) + i \in DOMAIN r /\ r[Len(p) + i] = q[i]
      BY <1>1
    <3> QED BY <3>1 DEF ToSet
  <2> QED BY <2>1, <2>2, <2>3
<1>4. ASSUME IsInjective(p), IsInjective(q), ToSet(p) \cap ToSet(q) = {}
      PROVE  IsInjective(r)
  <2> SUFFICES ASSUME NEW a \in DOMAIN r, NEW b \in DOMAIN r, r[a] = r[b] PROVE a = b
    BY DEF IsInjective
  <2>1. \A i \in DOMAIN p : p[i] \in ToSet(p)
    BY DEF ToSet
  <2>2. \A i \in DOMAIN q : q[i] \in ToSet(q)
    BY DEF ToSet
  <2>3. CASE a \in DOMAIN p /\ r[a] = p[a]
    <3>1. b \in DOMAIN p /\ r[b] = p[b]
      BY <1>2, <1>4, <2>1, <2>2, <2>3
    <3> QED BY <1>4, <2>3, <3>1 DEF IsInjective
  <2>4. CASE a - Len(p) \in DOMAIN q /\ r[a] = q[a - Len(p)]
    <3>1. b - Len(p) \in DOMAIN q /\ r[b] = q[b - Len(p)]
      BY <1>2, <1>4, <2>1, <2>2, <2>4
    <3>2. a - Len(p) = b - Len(p)
      BY <1>4, <2>4, <3>1 DEF IsInjective
    <3>3. a \in Int /\ b \in Int
      BY <1>1
    <3> QED BY <1>1, <3>2, <3>3
  <2> QED BY <1>2, <2>3, <2>4
<1> QED BY <1>1, <1>3, <1>4 DEF r

\* The loop goes on only within its limits, and says why when it ends.
LEMMA TurnFacts ==
  ASSUME NEW s \in Fetcher
  PROVE  /\ Turn(s) \in Fetcher
         /\ Turn(s).collected = s.collected /\ Turn(s).new = s.new /\ Turn(s).empty = s.empty
         /\ Turn(s).last = s.last /\ Turn(s).next = s.next
         /\ Turn(s).succeeded = s.succeeded /\ Turn(s).failed = s.failed
         /\ \/ /\ Turn(s).at = "page" /\ Turn(s).stop = s.stop
               /\ Turn(s).attempted = s.attempted + 1 /\ s.attempted < MaxPages
               /\ s.empty <= 1 /\ ~s.last
            \/ /\ Turn(s).at = "fetched" /\ Turn(s).attempted = s.attempted
               /\ Turn(s).stop = "source_exhausted" => s.empty >= 2 \/ s.last
<1>1. Ended(s) \in {"none", "target_reached", "source_exhausted", "max_pages_reached"}
  BY DEF Ended
<1>2. s.attempted \in Nat /\ s.empty \in 0..2 /\ s.last \in BOOLEAN /\ MaxPages \in Nat
  BY LimitsAssumption DEF Fetcher
<1>3. CASE Ended(s) = "none"
  <2>1. Turn(s) = [s EXCEPT !.at = "page", !.attempted = @ + 1]
    BY <1>3 DEF Turn
  <2>2. s.attempted < MaxPages /\ s.empty <= 1 /\ ~s.last
    BY <1>2, <1>3 DEF Ended
  <2>3. Turn(s) \in Fetcher
    <3>1. \A n \in Nat : [s EXCEPT !.at = "page", !.attempted = n] \in Fetcher
      BY DEF Fetcher
    <3>2. s.attempted + 1 \in Nat
      BY <1>2
    <3> QED BY <2>1, <3>1, <3>2
  <2>4. /\ Turn(s).collected = s.collected /\ Turn(s).new = s.new /\ Turn(s).empty = s.empty
        /\ Turn(s).last = s.last /\ Turn(s).next = s.next
        /\ Turn(s).succeeded = s.succeeded /\ Turn(s).failed = s.failed
        /\ Turn(s).at = "page" /\ Turn(s).stop = s.stop /\ Turn(s).attempted = s.attempted + 1
    BY <2>1 DEF Fetcher
  <2> QED BY <2>2, <2>3, <2>4
<1>4. CASE Ended(s) # "none"
  <2>1. Turn(s) = [s EXCEPT !.at = "fetched", !.stop = Ended(s)]
    BY <1>4 DEF Turn
  <2>2. Ended(s) = "source_exhausted" => s.empty >= 2 \/ s.last
    BY DEF Ended
  <2> QED BY <1>1, <1>2, <1>4, <2>1, <2>2 DEF Fetcher
<1> QED BY <1>3, <1>4

\* The loop's books stay in order when a page, with its details, is done.
LEMMA TurnBooks ==
  ASSUME NEW s \in Fetcher, s.new = <<>>, s.stop = "none",
         s.attempted = s.succeeded + s.failed, s.attempted <= MaxPages,
         s.attempted <= 2 * Len(s.collected) + s.empty, IsInjective(s.collected)
  PROVE  Books(Turn(s))
<1> DEFINE t == Turn(s)
<1>1. /\ s.attempted \in Nat /\ s.empty \in 0..2 /\ MaxPages \in Nat
      /\ s.succeeded \in Nat /\ s.failed \in Nat
      /\ s.collected \in Seq(Jobs) /\ Len(s.collected) \in Nat
  BY LimitsAssumption DEF Fetcher
<1>2. /\ t.collected = s.collected /\ t.new = <<>> /\ t.empty = s.empty
      /\ t.succeeded = s.succeeded /\ t.failed = s.failed
      /\ \/ /\ t.at = "page" /\ t.stop = "none" /\ s.empty <= 1
            /\ t.attempted = s.attempted + 1 /\ s.attempted < MaxPages
         \/ t.at = "fetched" /\ t.attempted = s.attempted
  BY TurnFacts
<1>3. t.collected \o t.new = s.collected /\ Len(t.new) = 0
  BY <1>1, <1>2, ConcatSet
<1> HIDE DEF t
<1>4. ASSUME t.at = "page", t.stop = "none", s.empty <= 1,
             t.attempted = s.attempted + 1, s.attempted < MaxPages
      PROVE  Books(t)
  <2>1. /\ t.attempted = t.succeeded + t.failed + 1 /\ t.attempted <= MaxPages
        /\ t.attempted <= 2 * Len(t.collected) + t.empty + 1
        /\ t.attempted <= 2 * (Len(t.collected) + Len(t.new)) + 2
    <3> DEFINE l == Len(s.collected)
    <3>1. l \in Nat /\ s.attempted <= 2 * l + s.empty
      BY <1>1
    <3>2. Len(t.collected) = l
      BY <1>2
    <3> HIDE DEF l
    <3> QED BY <1>1, <1>2, <1>3, <1>4, <3>1, <3>2
  <2> QED BY <1>2, <1>3, <1>4, <2>1 DEF Books
<1>5. ASSUME t.at = "fetched", t.attempted = s.attempted PROVE Books(t)
  <2>1. /\ t.attempted = t.succeeded + t.failed /\ t.attempted <= MaxPages
        /\ t.attempted <= 2 * (Len(t.collected) + Len(t.new)) + 2
    <3> DEFINE l == Len(s.collected)
    <3>1. l \in Nat /\ s.attempted <= 2 * l + s.empty
      BY <1>1
    <3>2. Len(t.collected) = l
      BY <1>2
    <3> HIDE DEF l
    <3> QED BY <1>1, <1>2, <1>3, <1>5, <3>1, <3>2
  <2> QED BY <1>2, <1>3, <1>5, <2>1 DEF Books
<1>6. Books(t)
  BY <1>2, <1>4, <1>5
<1> QED BY <1>6 DEF t

\* A page whose details have been read is collected, and the loop turns.
LEMMA CollectFacts ==
  ASSUME NEW s \in Fetcher, NEW rich \in SUBSET Jobs, s.stop = "none", s.empty = 0,
         s.attempted = s.succeeded + s.failed, s.attempted <= MaxPages,
         s.attempted <= 2 * (Len(s.collected) + Len(s.new)), IsInjective(s.collected \o s.new)
  PROVE  LET c == Collect(s, rich) IN
         /\ c \in Fetcher /\ Books(c) /\ c.at \in {"page", "fetched"}
         /\ c.next = s.next /\ c.empty = 0
         /\ ToSet(c.collected \o c.new) = ToSet(s.collected \o s.new)
         /\ c.stop = "source_exhausted" => s.last
<1> DEFINE m == [s EXCEPT !.collected = s.collected \o s.new, !.rich = s.rich \cup rich,
                          !.new = <<>>]
           c == Turn(m)
<1>1. Collect(s, rich) = c
  BY DEF Collect
<1>2. /\ s.collected \in Seq(Jobs) /\ s.new \in Seq(Jobs) /\ s.rich \in SUBSET Jobs
      /\ s.attempted \in Nat /\ s.succeeded \in Nat /\ s.failed \in Nat
  BY DEF Fetcher
<1>3. /\ s.collected \o s.new \in Seq(Jobs) /\ (s.collected \o s.new) \o <<>> = s.collected \o s.new
      /\ Len(s.collected \o s.new) = Len(s.collected) + Len(s.new)
  BY <1>2, ConcatSet
<1>4. m \in Fetcher
  <2>1. \A q, n \in Seq(Jobs), r \in SUBSET Jobs :
          [s EXCEPT !.collected = q, !.rich = r, !.new = n] \in Fetcher
    BY DEF Fetcher
  <2>2. <<>> \in Seq(Jobs) /\ s.rich \cup rich \in SUBSET Jobs
    BY <1>2
  <2> QED BY <1>3, <2>1, <2>2
<1>5. /\ m.collected = s.collected \o s.new /\ m.new = <<>> /\ m.stop = s.stop
      /\ m.attempted = s.attempted /\ m.succeeded = s.succeeded /\ m.failed = s.failed
      /\ m.empty = s.empty /\ m.next = s.next
  BY DEF Fetcher
<1>8. m.last = s.last
  BY DEF Fetcher
<1> HIDE DEF m
<1>6. Books(c)
  <2>1. m.attempted <= 2 * Len(m.collected) + m.empty
    <3> DEFINE l == Len(m.collected)
    <3>1. l \in Nat /\ m.empty = 0 /\ m.attempted <= 2 * l
      <4>1. l = Len(s.collected) + Len(s.new)
        BY <1>3, <1>5
      <4>3. s.attempted <= 2 * l
        BY <4>1
      <4>4. l \in Nat
        <5>1. m.collected \in Seq(Jobs)
          BY <1>3, <1>5
        <5> QED BY <5>1
      <4> HIDE DEF l
      <4>5. m.empty = 0
        BY <1>5
      <4>6. m.attempted <= 2 * l
        BY <1>5, <4>3
      <4> QED BY <4>4, <4>5, <4>6
    <3> HIDE DEF l
    <3>2. m.attempted <= 2 * l + m.empty
      BY <1>2, <1>5, <3>1
    <3> QED BY <3>2 DEF l
  <2>2. /\ m.new = <<>> /\ m.stop = "none" /\ m.attempted = m.succeeded + m.failed
        /\ m.attempted <= MaxPages /\ IsInjective(m.collected)
    BY <1>5
  <2> QED BY <1>4, <2>1, <2>2, TurnBooks
<1>7. /\ c \in Fetcher /\ c.at \in {"page", "fetched"} /\ c.next = s.next /\ c.empty = 0
      /\ c.collected = s.collected \o s.new /\ c.new = <<>>
      /\ c.stop = "source_exhausted" => s.last
  <2>1. /\ c \in Fetcher /\ c.next = m.next /\ c.empty = m.empty /\ c.collected = m.collected
        /\ c.new = m.new
        /\ \/ c.at = "page" /\ c.stop = m.stop
           \/ c.at = "fetched" /\ (c.stop = "source_exhausted" => m.empty >= 2 \/ m.last)
    BY <1>4, TurnFacts
  <2> HIDE DEF c
  <2> QED BY <1>5, <1>8, <2>1
<1> HIDE DEF c
<1> QED BY <1>1, <1>3, <1>6, <1>7

\* What an answer makes of a fetcher: its books are in order, it has seen the
\* jobs of the page, and it has counted the page as empty just if it knew them.
LEMMA AnswerFacts ==
  ASSUME NEW k \in Keywords, f[k] \in Fetcher, Books(f[k]), f[k].at = "page",
         NEW jobs \in Seq(Jobs), IsInjective(jobs), NEW last \in BOOLEAN, NEW next \in Nat
  PROVE  LET a == Answered(k, jobs, last, next) IN
         /\ a \in Fetcher /\ Books(a) /\ a.at \in {"page", "details", "fetched"}
         /\ a.at = "details" => platform \notin {"glints", "kalibrr"}
         /\ a.next = next
         /\ ToSet(a.collected \o a.new) = ToSet(f[k].collected) \cup ToSet(jobs)
         /\ a.empty >= 1 => ToSet(jobs) \subseteq ToSet(f[k].collected)
         /\ a.empty >= 2 => f[k].empty >= 1
         /\ a.at = "details" => a.last = last
         /\ a.stop = "source_exhausted" => last \/ a.empty >= 2
<1> DEFINE s == f[k]
           new == Fresh(s, jobs)
           empty == IF new = <<>> THEN s.empty + 1 ELSE 0
           b == [s EXCEPT !.succeeded = s.succeeded + 1, !.new = new, !.last = last,
                          !.next = next, !.empty = empty]
           a == Answered(k, jobs, last, next)
<1>1. /\ s \in Fetcher /\ s.collected \in Seq(Jobs) /\ s.attempted \in Nat /\ s.empty \in Nat
      /\ s.succeeded \in Nat /\ s.failed \in Nat /\ Len(s.collected) \in Nat
  BY DEF Fetcher
<1>2. /\ new \in Seq(Jobs) /\ IsInjective(new) /\ ToSet(new) = ToSet(jobs) \ ToSet(s.collected)
  BY FreshIsNew
<1>3. a = IF new = <<>> THEN Turn(b)
          ELSE IF platform \in {"glints", "kalibrr"} THEN Collect(b, Embedded(new))
          ELSE [b EXCEPT !.at = "details"]
  BY DEF Answered
<1>4. /\ s.new = <<>> /\ s.stop = "none" /\ s.empty <= 1
      /\ s.attempted = s.succeeded + s.failed + 1
      /\ s.attempted <= 2 * Len(s.collected) + s.empty + 1
      /\ s.attempted <= MaxPages /\ IsInjective(s.collected \o s.new)
  BY DEF Books
<1>5. IsInjective(s.collected)
  BY <1>1, <1>4, ConcatSet
<1> HIDE DEF new
<1>6. empty \in 0..2
  <2>1. s.empty + 1 \in 0..2 /\ 0 \in 0..2
    BY <1>1, <1>4
  <2> QED BY <2>1
<1> HIDE DEF empty
<1>7. b \in Fetcher
  <2>1. \A n \in Nat, q \in Seq(Jobs), e \in 0..2 :
          [s EXCEPT !.succeeded = n, !.new = q, !.last = last, !.next = next, !.empty = e] \in Fetcher
    BY <1>1 DEF Fetcher
  <2>2. s.succeeded + 1 \in Nat
    BY <1>1
  <2> QED BY <1>2, <1>6, <2>1, <2>2
<1>8. /\ b.collected = s.collected /\ b.new = new /\ b.stop = s.stop /\ b.attempted = s.attempted
      /\ b.succeeded = s.succeeded + 1 /\ b.failed = s.failed /\ b.empty = empty
      /\ b.next = next
  BY <1>1 DEF Fetcher
<1>12. b.last = last
  BY <1>1 DEF Fetcher
<1> HIDE DEF b, a
<1>9. /\ ToSet(s.collected \o new) = ToSet(s.collected) \cup ToSet(jobs)
      /\ Len(s.collected \o new) = Len(s.collected) + Len(new)
      /\ IsInjective(s.collected \o new)
      /\ s.collected \o <<>> = s.collected
  BY <1>1, <1>2, <1>5, ConcatSet
<1>10. CASE new = <<>>
  <2>1. empty = s.empty + 1 /\ ToSet(jobs) \subseteq ToSet(s.collected)
    <3>1. ToSet(<<>>) = {}
      BY DEF ToSet
    <3> QED BY <1>2, <1>10, <3>1 DEF empty
  <2>2. b.attempted = b.succeeded + b.failed /\ b.attempted <= 2 * Len(b.collected) + b.empty
    <3> DEFINE l == 2 * Len(s.collected)
    <3>1. l \in Nat /\ s.attempted <= l + s.empty + 1
      BY <1>1, <1>4
    <3>2. 2 * Len(b.collected) = l
      BY <1>8
    <3> HIDE DEF l
    <3>3. b.attempted = b.succeeded + b.failed
      BY <1>1, <1>4, <1>8
    <3>4. s.empty \in Nat /\ empty = s.empty + 1
      BY <1>1, <2>1
    <3>5. s.attempted <= l + empty
      BY <1>1, <3>1, <3>4
    <3> QED BY <1>8, <3>2, <3>3, <3>5
  <2>3. Books(Turn(b))
    BY <1>4, <1>5, <1>7, <1>8, <1>10, <2>2, TurnBooks
  <2>4. /\ a \in Fetcher /\ a.collected = s.collected /\ a.new = new /\ a.empty = empty
        /\ a.next = next /\ a.at \in {"page", "fetched"}
        /\ a.stop = "source_exhausted" => last \/ a.empty >= 2
    BY <1>3, <1>4, <1>7, <1>8, <1>10, <1>12, TurnFacts
  <2>5. a.empty >= 2 => s.empty >= 1
    BY <1>1, <2>1, <2>4
  <2> QED BY <1>3, <1>9, <1>10, <2>1, <2>3, <2>4, <2>5 DEF a
<1>11. CASE new # <<>>
  <2>1. empty = 0 /\ Len(new) >= 1 /\ Len(new) \in Nat
    BY <1>2, <1>11 DEF empty
  <2>2. /\ b.attempted = b.succeeded + b.failed
        /\ b.attempted <= 2 * (Len(b.collected) + Len(b.new))
    <3> DEFINE l == Len(s.collected)
               n == Len(new)
    <3>1. l \in Nat /\ n \in Nat /\ n >= 1 /\ s.attempted <= 2 * l + s.empty + 1
      BY <1>1, <1>4, <2>1
    <3>2. Len(b.collected) = l /\ Len(b.new) = n
      BY <1>8
    <3> HIDE DEF l, n
    <3>3. b.attempted = b.succeeded + b.failed
      BY <1>1, <1>4, <1>8
    <3>4. s.empty <= 1 /\ s.attempted <= 2 * l + 2
      BY <1>1, <1>4, <3>1
    <3>5. s.attempted <= 2 * (l + n)
      BY <1>1, <3>1, <3>4
    <3> QED BY <1>8, <3>2, <3>3, <3>5
  <2>3. CASE platform \in {"glints", "kalibrr"}
    <3>1. Embedded(new) \in SUBSET Jobs
      BY <1>2 DEF Embedded, KalibrrDetails, GlintsDetails, ToSet
    <3>a. /\ b.stop = "none" /\ b.empty = 0 /\ b.attempted <= MaxPages
          /\ IsInjective(b.collected \o b.new)
      BY <1>4, <1>8, <1>9, <2>1
    <3>2. LET c == Collect(b, Embedded(new)) IN
          /\ c \in Fetcher /\ Books(c) /\ c.at \in {"page", "fetched"}
          /\ c.next = b.next /\ c.empty = 0
          /\ ToSet(c.collected \o c.new) = ToSet(b.collected \o b.new)
          /\ c.stop = "source_exhausted" => b.last
      BY <1>7, <2>2, <3>1, <3>a, CollectFacts
    <3> QED BY <1>3, <1>8, <1>9, <1>11, <1>12, <2>3, <3>2 DEF a
  <2>4. CASE platform \notin {"glints", "kalibrr"}
    <3>1. a = [b EXCEPT !.at = "details"]
      BY <1>3, <1>11, <2>4
    <3>2. a \in Fetcher
      BY <1>7, <3>1 DEF Fetcher
    <3>3. /\ a.at = "details" /\ a.collected = s.collected /\ a.new = new /\ a.stop = "none"
          /\ a.attempted = b.attempted /\ a.succeeded = b.succeeded /\ a.failed = b.failed
          /\ a.empty = 0 /\ a.last = last /\ a.next = next
      BY <1>4, <1>7, <1>8, <1>12, <2>1, <3>1 DEF Fetcher
    <3>4. Books(a)
      BY <1>1, <1>4, <1>8, <1>9, <2>1, <2>2, <3>3 DEF Books
    <3> QED BY <1>9, <2>4, <3>2, <3>3, <3>4 DEF a
  <2> QED BY <2>3, <2>4
<1> QED BY <1>10, <1>11

-----------------------------------------------------------------------------
(* Taking a page *)

\* The pages that JobStreet serves are no shorter than the setting by which the
\* adapter counts them; with shorter ones its fetcher stops too early.
JobStreetPagesSuffice == "jobstreet" \in Platforms => Served >= PageSize

\* The request after the next answer, and whether the latter reaches the end.
Following(k) == f[k].next + IF platform = "kalibrr" THEN Least(Served, PageSize) ELSE 1
Enough(k) == From(k) + Size >= Len(site[k])

\* So many pages of p jobs hold m of them.
LEMMA CeilingCovers ==
  ASSUME NEW m \in Nat, NEW p \in Nat \ {0}, NEW n \in Nat, n >= Ceiling(m, p)
  PROVE  n * p >= m
<1> DEFINE q == (m + p - 1) \div p
<1>1. q \in Int /\ m + p - 1 < (q + 1) * p
  OBVIOUS
<1>2. n >= q
  BY DEF Ceiling
<1> HIDE DEF q
<1>3. n * p >= q * p
  BY <1>1, <1>2
<1>4. (q + 1) * p = q * p + p
  BY <1>1
<1> QED BY <1>1, <1>3, <1>4

\* Whatever a site answers is a list of jobs without repetitions.
LEMMA AnswersArePages ==
  ASSUME FetchInv, NEW k \in Keywords, NEW from \in Nat, NEW n \in Nat
  PROVE  \A jobs \in Answers(k, from, n) : jobs \in Seq(Jobs) /\ IsInjective(jobs)
<1>1. site[k] \in Seq(Jobs) /\ IsInjective(site[k]) /\ 0 \in Nat
  BY DEF FetchInv, SiteInv
<1>2. <<>> \in Seq(Jobs) /\ IsInjective(<<>>)
  BY DEF IsInjective
<1>3. Slice(site[k], from, n) \in Seq(Jobs) /\ IsInjective(Slice(site[k], from, n))
  BY <1>1, SliceIsPage
<1>4. Slice(site[k], 0, n) \in Seq(Jobs) /\ IsInjective(Slice(site[k], 0, n))
  BY <1>1, SliceIsPage
<1> QED BY <1>2, <1>3, <1>4 DEF Answers

\* The tests for the last page of the platforms other than Kalibrr: none says so
\* before the end of the list.
LEMMA LastIsEnough ==
  ASSUME FetchInv, JobStreetPagesSuffice, NEW k \in Keywords, f[k].next \in Nat, f[k].next >= 1,
         \/ platform = "dealls" /\ DeallsLast(k)
         \/ platform = "glints" /\ GlintsLast(k)
         \/ platform = "kitalulus" /\ KitalulusLast(k)
         \/ platform = "jobstreet" /\ JobStreetLast(k)
  PROVE  Enough(k)
<1> DEFINE n == f[k].next
           l == Len(site[k])
<1>1. l \in Nat
  BY DEF FetchInv, SiteInv
<1>2. n \in Nat /\ n >= 1 /\ PageSize \in Nat \ {0} /\ Served \in Nat \ {0}
  BY Sizes
<1>3. n * PageSize >= l
  <2>1. CASE n >= Ceiling(l, PageSize)
    BY <1>1, <1>2, <2>1, CeilingCovers
  <2>2. CASE n * PageSize >= l
    BY <2>2
  <2> QED BY <2>1, <2>2 DEF DeallsLast, GlintsLast, KitalulusLast, JobStreetLast
<1>4. \A s \in Nat : (n - 1) * s + s = n * s
  BY <1>2
<1>5. From(k) + Size = n * Size
  <2>1. From(k) = (n - 1) * Size
    BY DEF From
  <2>2. Size \in Nat
    BY <1>2 DEF Size
  <2> QED BY <1>4, <2>1, <2>2
<1>6. n * Size >= l
  <2>1. CASE platform = "jobstreet"
    <3>1. Served >= PageSize
      BY <2>1 DEF JobStreetPagesSuffice, FetchInv
    <3>2. n * Served >= n * PageSize
      <4> DEFINE a == Served
                 b == PageSize
                 c == n
      <4>1. a \in Nat /\ b \in Nat /\ c \in Nat /\ a >= b
        BY <1>2, <3>1
      <4> HIDE DEF a, b, c
      <4>2. c * a >= c * b
        BY <4>1
      <4> QED BY <4>2 DEF a, b, c
    <3>3. Size = Served
      BY <2>1 DEF Size
    <3>4. n * Served \in Int /\ n * PageSize \in Int /\ n * PageSize >= l
      BY <1>2, <1>3
    <3> QED BY <1>1, <3>2, <3>3, <3>4
  <2>2. CASE platform # "jobstreet"
    <3>1. Size = PageSize
      BY <2>2 DEF Size
    <3> QED BY <1>3, <3>1
  <2> QED BY <2>1, <2>2
<1> QED BY <1>5, <1>6 DEF Enough

TakesPage(k) ==
  DeallsPage(k) \/ GlintsPage(k) \/ KitalulusPage(k) \/ JobStreetPage(k) \/ KalibrrPage(k)

\* What every platform's page action does.
LEMMA PageTaken ==
  ASSUME FetchInv, NEW k \in Keywords, TakesPage(k)
  PROVE  /\ f[k].at = "page" /\ From(k) \in Nat /\ Following(k) \in Nat
         /\ UNCHANGED <<platform, site, blocked, storeVars, status>>
         /\ moves' \in 0..MaxMoves /\ moved' \in SUBSET Keywords /\ moved \subseteq moved'
         /\ \E jobs \in Seq(Jobs), last \in BOOLEAN :
              /\ IsInjective(jobs)
              /\ f' = [f EXCEPT ![k] = IF Unreadable(jobs) THEN PageLost(f[k], "parse_error")
                                       ELSE Answered(k, jobs, last, Following(k))]
              /\ k \notin moved' => jobs = Slice(site[k], From(k), Size)
              /\ JobStreetPagesSuffice /\ k \notin moved' /\ last => Enough(k)
<1> DEFINE Result(jobs, last) ==
             f' = [f EXCEPT ![k] = IF Unreadable(jobs) THEN PageLost(f[k], "parse_error")
                                   ELSE Answered(k, jobs, last, Following(k))]
           Moves(jobs) ==
             LET wrong == jobs # Slice(site[k], From(k), Size)
             IN /\ moves' = IF wrong THEN moves + 1 ELSE moves
                /\ moved' = IF wrong THEN moved \cup {k} ELSE moved
<1>1. f[k] \in Fetcher /\ f[k].next \in Nat /\ Books(f[k]) /\ Paging(k)
  BY DEF FetchInv, Fetcher
<1>2. f[k].at = "page" /\ UNCHANGED <<platform, site, blocked, storeVars, status>>
  BY DEF TakesPage, DeallsPage, GlintsPage, KitalulusPage, JobStreetPage, KalibrrPage, Take
<1>3. platform # "kalibrr" => f[k].next >= 1
  BY <1>1, <1>2 DEF Paging
<1>4. PageSize \in Nat /\ Served \in Nat /\ Size \in Nat
  BY Sizes DEF Size
<1>5. From(k) \in Nat
  <2>1. CASE platform = "kalibrr"
    BY <1>1, <2>1 DEF From
  <2>2. CASE platform # "kalibrr"
    <3>1. f[k].next - 1 \in Nat
      BY <1>1, <1>3, <2>2
    <3>2. \A x, y \in Nat : x * y \in Nat
      OBVIOUS
    <3> QED BY <1>4, <2>2, <3>1, <3>2 DEF From
  <2> QED BY <2>1, <2>2
<1>6. Following(k) \in Nat
  BY <1>1, <1>4 DEF Following, Least
<1>7. \E jobs \in Answers(k, From(k), Size) :
        /\ Moves(jobs)
        /\ \E last \in BOOLEAN :
             Result(jobs, last)
             /\ (JobStreetPagesSuffice /\ last /\ jobs = Slice(site[k], From(k), Size) => Enough(k))
  <2>1. CASE DeallsPage(k)
    <3>1. /\ platform = "dealls" /\ From(k) = (f[k].next - 1) * PageSize /\ Size = PageSize
          /\ Following(k) = f[k].next + 1
      BY <2>1 DEF DeallsPage, From, Size, Following
    <3>2. PICK jobs \in Answers(k, From(k), Size) : Moves(jobs) /\ Result(jobs, DeallsLast(k))
      BY <2>1, <3>1 DEF DeallsPage, DeallsLast, Take
    <3>3. JobStreetPagesSuffice /\ DeallsLast(k) => Enough(k)
      BY <1>1, <1>3, <3>1, LastIsEnough
    <3>4. DeallsLast(k) \in BOOLEAN
      BY DEF DeallsLast
    <3> QED BY <3>2, <3>3, <3>4
  <2>2. CASE GlintsPage(k)
    <3>1. /\ platform = "glints" /\ From(k) = (f[k].next - 1) * PageSize /\ Size = PageSize
          /\ Following(k) = f[k].next + 1
      BY <2>2 DEF GlintsPage, From, Size, Following
    <3>2. PICK jobs \in Answers(k, From(k), Size) : Moves(jobs) /\ Result(jobs, GlintsLast(k))
      BY <2>2, <3>1 DEF GlintsPage, Take
    <3>3. JobStreetPagesSuffice /\ GlintsLast(k) => Enough(k)
      BY <1>1, <1>3, <3>1, LastIsEnough
    <3>4. GlintsLast(k) \in BOOLEAN
      BY DEF GlintsLast
    <3> QED BY <3>2, <3>3, <3>4
  <2>3. CASE KitalulusPage(k)
    <3>1. /\ platform = "kitalulus" /\ From(k) = (f[k].next - 1) * PageSize /\ Size = PageSize
          /\ Following(k) = f[k].next + 1
      BY <2>3 DEF KitalulusPage, From, Size, Following
    <3>2. PICK jobs \in Answers(k, From(k), Size) : Moves(jobs) /\ Result(jobs, KitalulusLast(k))
      BY <2>3, <3>1 DEF KitalulusPage, Take
    <3>3. JobStreetPagesSuffice /\ KitalulusLast(k) => Enough(k)
      BY <1>1, <1>3, <3>1, LastIsEnough
    <3>4. KitalulusLast(k) \in BOOLEAN
      BY DEF KitalulusLast
    <3> QED BY <3>2, <3>3, <3>4
  <2>4. CASE JobStreetPage(k)
    <3>1. /\ platform = "jobstreet" /\ From(k) = (f[k].next - 1) * Served /\ Size = Served
          /\ Following(k) = f[k].next + 1
      BY <2>4 DEF JobStreetPage, From, Size, Following
    <3>2. PICK jobs \in Answers(k, From(k), Size) : Moves(jobs) /\ Result(jobs, JobStreetLast(k))
      BY <2>4, <3>1 DEF JobStreetPage, Take
    <3>3. JobStreetPagesSuffice /\ JobStreetLast(k) => Enough(k)
      BY <1>1, <1>3, <3>1, LastIsEnough
    <3>4. JobStreetLast(k) \in BOOLEAN
      BY DEF JobStreetLast
    <3> QED BY <3>2, <3>3, <3>4
  <2>5. CASE KalibrrPage(k)
    <3>1. /\ platform = "kalibrr" /\ From(k) = f[k].next /\ Size = Served
          /\ Following(k) = f[k].next + Least(Served, PageSize)
      BY <2>5 DEF KalibrrPage, From, Size, Following
    <3>2. PICK jobs \in Answers(k, From(k), Size) :
            Moves(jobs) /\ Result(jobs, KalibrrLast(k, jobs))
      BY <2>5, <3>1 DEF KalibrrPage, Take
    <3>3. KalibrrLast(k, jobs) /\ jobs = Slice(site[k], From(k), Size) => Enough(k)
      <4>1. site[k] \in Seq(Jobs) /\ IsInjective(site[k])
        BY DEF FetchInv, SiteInv
      <4>2. From(k) + Len(Slice(site[k], From(k), Size)) >= Len(site[k])
              => From(k) + Size >= Len(site[k])
        BY <1>4, <1>5, <4>1, SliceIsPage
      <4> QED BY <3>1, <4>2 DEF KalibrrLast, Enough
    <3>4. KalibrrLast(k, jobs) \in BOOLEAN
      BY DEF KalibrrLast
    <3> QED BY <3>2, <3>3, <3>4
  <2> QED BY <2>1, <2>2, <2>3, <2>4, <2>5 DEF TakesPage
<1>8. PICK jobs \in Answers(k, From(k), Size), last \in BOOLEAN :
        /\ Moves(jobs) /\ Result(jobs, last)
        /\ JobStreetPagesSuffice /\ last /\ jobs = Slice(site[k], From(k), Size) => Enough(k)
  BY <1>7
<1>9. jobs \in Seq(Jobs) /\ IsInjective(jobs)
  BY <1>4, <1>5, AnswersArePages
<1>10. /\ moved' \in SUBSET Keywords /\ moved \subseteq moved'
       /\ k \notin moved' => jobs = Slice(site[k], From(k), Size)
  BY <1>8 DEF FetchInv
<1>11. moves' \in 0..MaxMoves
  <2>1. CASE jobs = Slice(site[k], From(k), Size)
    BY <1>8, <2>1 DEF FetchInv
  <2>2. CASE jobs # Slice(site[k], From(k), Size)
    <3>1. moves < MaxMoves
      BY <1>8, <2>2 DEF Answers
    <3>2. moves \in 0..MaxMoves /\ MaxMoves \in Nat /\ moves' = moves + 1
      BY <1>8, <2>2, LimitsAssumption DEF FetchInv
    <3> QED BY <3>1, <3>2
  <2> QED BY <2>1, <2>2
<1> QED BY <1>2, <1>5, <1>6, <1>8, <1>9, <1>10, <1>11

-----------------------------------------------------------------------------
(* The fetchers' books *)

\* A lost page ends the loop and is counted as failed.
LEMMA LostFacts ==
  ASSUME NEW s \in Fetcher, Books(s), s.at = "page", NEW e \in PageErrors
  PROVE  LET p == PageLost(s, e) IN
         /\ p \in Fetcher /\ Books(p) /\ p.at = "fetched" /\ p.stop = e
         /\ p.collected = s.collected /\ p.new = s.new
<1> DEFINE p == PageLost(s, e)
<1>1. s.failed \in Nat /\ s.attempted \in Nat /\ s.succeeded \in Nat
  BY DEF Fetcher
<1>2. p = [s EXCEPT !.at = "fetched", !.failed = s.failed + 1, !.stop = e]
  BY DEF PageLost
<1>3. p \in Fetcher
  <2>1. \A n \in Nat : [s EXCEPT !.at = "fetched", !.failed = n, !.stop = e] \in Fetcher
    BY DEF Fetcher
  <2>2. s.failed + 1 \in Nat
    BY <1>1
  <2> QED BY <1>2, <2>1, <2>2
<1>4. /\ p.at = "fetched" /\ p.stop = e /\ p.collected = s.collected /\ p.new = s.new
      /\ p.failed = s.failed + 1 /\ p.attempted = s.attempted /\ p.succeeded = s.succeeded
  BY <1>2 DEF Fetcher
<1> HIDE DEF p
<1>5. Books(p)
  <2>1. p.attempted = p.succeeded + p.failed
    BY <1>1, <1>4 DEF Books
  <2> QED BY <1>4, <2>1 DEF Books
<1>6. /\ p \in Fetcher /\ Books(p) /\ p.at = "fetched" /\ p.stop = e
      /\ p.collected = s.collected /\ p.new = s.new
  BY <1>3, <1>4, <1>5
<1> QED BY <1>6 DEF p

\* Fetchers start with books in order, and have seen nothing.
LEMMA BeginFacts ==
  ASSUME NEW k, platform \in Platforms
  PROVE  /\ Begin(k) \in Fetcher /\ Books(Begin(k)) /\ Begin(k).at \in {"page", "fetched"}
         /\ Begin(k).new = <<>> /\ Begin(k).empty = 0 /\ Begin(k).stop # "source_exhausted"
         /\ Begin(k).at = "page" =>
              /\ platform # "fixture" /\ Begin(k).collected = <<>>
              /\ Begin(k).next = IF platform = "kalibrr" THEN 0 ELSE 1
<1>1. <<>> \in Seq(Jobs) /\ Len(<<>>) = 0 /\ <<>> \o <<>> = <<>> /\ IsInjective(<<>>)
  BY DEF IsInjective
<1>2. MaxPages \in Nat /\ MaxPages >= 1
  BY LimitsAssumption
<1>3. Idle \in Fetcher
  BY <1>1 DEF Idle, Fetcher
<1>4. CASE platform = "fixture"
  <2> DEFINE q == [i \in 1..Limit |-> i]
             b == [Idle EXCEPT !.at = "fetched", !.collected = q]
  <2>1. q \in Seq(Jobs) /\ Len(q) \in Nat /\ IsInjective(q)
    BY LimitsAssumption DEF IsInjective
  <2> HIDE DEF q
  <2>2. q \o <<>> = q
    BY <2>1
  <2>3. b \in Fetcher
    BY <1>3, <2>1 DEF Fetcher
  <2>4. /\ b.at = "fetched" /\ b.collected = q /\ b.new = <<>> /\ b.empty = 0
        /\ b.stop = "none" /\ b.attempted = 0 /\ b.succeeded = 0 /\ b.failed = 0
    BY DEF Idle
  <2>5. Begin(k) = b
    BY <1>4 DEF Begin, q
  <2> HIDE DEF b
  <2>6. b.attempted <= MaxPages /\ b.attempted <= 2 * (Len(b.collected) + Len(b.new)) + 2
    <3> DEFINE l == Len(b.collected)
    <3>1. l \in Nat /\ Len(b.new) = 0
      BY <1>1, <2>1, <2>4
    <3> HIDE DEF l
    <3> QED BY <1>2, <2>4, <3>1 DEF l
  <2>7. Books(b)
    BY <1>1, <2>1, <2>2, <2>4, <2>6 DEF Books
  <2> QED BY <2>3, <2>4, <2>5, <2>7
<1>5. CASE platform = "jobstreet" /\ blocked
  <2> DEFINE b == [Idle EXCEPT !.at = "fetched", !.stop = "cloudflare_challenge"]
  <2>1. b \in Fetcher
    BY <1>3 DEF Fetcher, PageErrors
  <2>2. /\ b.at = "fetched" /\ b.collected = <<>> /\ b.new = <<>> /\ b.empty = 0
        /\ b.stop = "cloudflare_challenge" /\ b.attempted = 0 /\ b.succeeded = 0 /\ b.failed = 0
    BY DEF Idle
  <2>3. Begin(k) = b
    BY <1>5 DEF Begin
  <2> HIDE DEF b
  <2>4. Books(b)
    BY <1>1, <1>2, <2>2 DEF Books
  <2> QED BY <2>1, <2>2, <2>3, <2>4
<1>6. CASE platform # "fixture" /\ ~(platform = "jobstreet" /\ blocked)
  <2> DEFINE first == IF platform = "kalibrr" THEN 0 ELSE 1
             b == [Idle EXCEPT !.at = "page", !.attempted = 1, !.next = first]
  <2>1. b \in Fetcher
    BY <1>3 DEF Fetcher
  <2>2. /\ b.at = "page" /\ b.collected = <<>> /\ b.new = <<>> /\ b.empty = 0 /\ b.next = first
        /\ b.stop = "none" /\ b.attempted = 1 /\ b.succeeded = 0 /\ b.failed = 0
    BY DEF Idle
  <2>3. Begin(k) = b
    BY <1>6 DEF Begin
  <2> HIDE DEF b
  <2>4. Books(b)
    BY <1>1, <1>2, <2>2 DEF Books
  <2> QED BY <1>6, <2>1, <2>2, <2>3, <2>4
<1> QED BY <1>4, <1>5, <1>6

\* Nothing has been fetched at the start.
LEMMA FetchInit == Init => FetchInv
<1> SUFFICES ASSUME Init PROVE FetchInv
  OBVIOUS
<1>1. platform \in Platforms /\ moves = 0 /\ moved = {} /\ status = "none"
  BY DEF Init
<1>2. SiteInv
  <2>1. site \in [Keywords -> Listings]
    BY DEF Init
  <2> QED BY <2>1, ListingsAssumption DEF SiteInv
<1>3. \A k \in Keywords : f[k] = Idle
  BY DEF Init
<1>4. <<>> \in Seq(Jobs) /\ Len(<<>>) = 0 /\ <<>> \o <<>> = <<>> /\ IsInjective(<<>>)
  BY DEF IsInjective
<1>5. Idle \in Fetcher /\ Idle.at = "idle"
  BY <1>4 DEF Idle, Fetcher
<1>6. Books(Idle)
  <2>1. Idle.attempted = 0 /\ Idle.new = <<>> /\ Idle.collected = <<>>
    BY DEF Idle
  <2> QED BY <1>4, <1>5, <2>1, LimitsAssumption DEF Books
<1>7. f \in [Keywords -> Fetcher]
  BY <1>5 DEF Init
<1>8. MaxMoves \in Nat
  BY LimitsAssumption
<1> QED BY <1>1, <1>2, <1>3, <1>5, <1>6, <1>7, <1>8 DEF FetchInv, Paging

\* A fetcher that is in the middle of its pages.
OnItsWay(s) ==
  /\ s.at \in {"page", "details"} =>
       platform # "fixture" /\ (platform # "kalibrr" => s.next >= 1)
  /\ s.at = "details" => platform \in {"dealls", "kitalulus", "jobstreet"}

\* A step of one fetcher that keeps its own books keeps those of the stage.
LEMMA OneFetcher ==
  ASSUME FetchInv, NEW k \in Keywords, f[k].at # "idle", NEW s \in Fetcher, Books(s), OnItsWay(s),
         f' = [f EXCEPT ![k] = s], UNCHANGED <<platform, site, status>>,
         moves' \in 0..MaxMoves, moved' \subseteq Keywords
  PROVE  FetchInv'
<1>1. /\ f' \in [Keywords -> Fetcher] /\ f'[k] = s
      /\ \A i \in Keywords \ {k} : f'[i] = f[i]
  BY DEF FetchInv
<1>2. \A i \in Keywords : Books(f'[i])
  BY <1>1 DEF FetchInv
<1>3. ASSUME NEW i \in Keywords PROVE Paging(i)'
  <2>1. CASE i = k
    BY <1>1, <2>1 DEF OnItsWay, Paging
  <2>2. CASE i # k
    BY <1>1, <2>2 DEF FetchInv, Paging
  <2> QED BY <2>1, <2>2
<1>4. SiteInv'
  BY DEF FetchInv, SiteInv
<1>5. status # "none"
  BY DEF FetchInv
<1>6. /\ platform' \in Platforms /\ moves' \in 0..MaxMoves /\ moved' \subseteq Keywords
      /\ status' \in {"none", "started", "partial", "completed"} /\ status' # "none"
  BY <1>5 DEF FetchInv
<1>7. \A i \in Keywords : Books(f[i])'
  BY <1>2
<1> QED BY <1>1, <1>3, <1>4, <1>6, <1>7 DEF FetchInv

\* A page keeps the books of its fetcher.
LEMMA PageStep ==
  ASSUME FetchInv, NEW k \in Keywords, TakesPage(k)
  PROVE  FetchInv'
<1>1. PICK jobs \in Seq(Jobs), last \in BOOLEAN :
        /\ IsInjective(jobs)
        /\ f' = [f EXCEPT ![k] = IF Unreadable(jobs) THEN PageLost(f[k], "parse_error")
                                 ELSE Answered(k, jobs, last, Following(k))]
  BY PageTaken
<1>2. /\ f[k].at = "page" /\ Following(k) \in Nat
      /\ UNCHANGED <<platform, site, status>> /\ moves' \in 0..MaxMoves /\ moved' \subseteq Keywords
  BY PageTaken
<1>3. f[k] \in Fetcher /\ Books(f[k]) /\ Paging(k)
  BY DEF FetchInv
<1>4. CASE Unreadable(jobs)
  <2> DEFINE s == PageLost(f[k], "parse_error")
  <2>1. s \in Fetcher /\ Books(s) /\ s.at = "fetched"
    BY <1>2, <1>3, LostFacts DEF PageErrors
  <2>2. f' = [f EXCEPT ![k] = s]
    BY <1>1, <1>4
  <2> HIDE DEF s
  <2>3. OnItsWay(s)
    BY <2>1 DEF OnItsWay
  <2> QED BY <1>2, <2>1, <2>2, <2>3, OneFetcher
<1>5. CASE ~Unreadable(jobs)
  <2> DEFINE s == Answered(k, jobs, last, Following(k))
  <2>1. /\ s \in Fetcher /\ Books(s) /\ s.at \in {"page", "details", "fetched"}
        /\ s.at = "details" => platform \notin {"glints", "kalibrr"}
        /\ s.next = Following(k)
    BY <1>1, <1>2, <1>3, AnswerFacts
  <2>2. f' = [f EXCEPT ![k] = s]
    BY <1>1, <1>5
  <2> HIDE DEF s
  <2>3. OnItsWay(s)
    <3>1. platform # "fixture" /\ (platform # "kalibrr" => f[k].next >= 1)
      BY <1>2, <1>3 DEF Paging
    <3>2. platform # "kalibrr" => s.next >= 1
      <4>1. f[k].next \in Nat
        BY <1>3 DEF Fetcher
      <4> QED BY <2>1, <3>1, <4>1 DEF Following
    <3>3. platform \in {"fixture", "dealls", "glints", "jobstreet", "kalibrr", "kitalulus"}
      BY PlatformsAssumption DEF FetchInv
    <3> QED BY <2>1, <3>1, <3>2, <3>3 DEF OnItsWay
  <2> QED BY <1>2, <2>1, <2>2, <2>3, OneFetcher
<1> QED BY <1>4, <1>5

\* What the details of a page do, on every platform that asks for them.
LEMMA DetailsTaken ==
  ASSUME FetchInv, NEW k \in Keywords, Details(k)
  PROVE  /\ f[k].at = "details" /\ UNCHANGED <<siteVars, blocked, storeVars, status>>
         /\ \E rich \in SUBSET Jobs : f' = [f EXCEPT ![k] = Collect(f[k], rich)]
<1>1. f[k].at = "details" /\ UNCHANGED <<siteVars, blocked, storeVars, status>>
  BY DEF Details
<1>2. platform \in {"dealls", "kitalulus", "jobstreet"}
  BY <1>1 DEF FetchInv, Paging
<1>3. ToSet(f[k].new) \subseteq Jobs
  <2>1. f[k].new \in Seq(Jobs)
    BY DEF FetchInv, Fetcher
  <2> QED BY <2>1 DEF ToSet
<1>4. \E rich \in SUBSET Jobs : f' = [f EXCEPT ![k] = Collect(f[k], rich)]
  <2>1. CASE platform = "dealls"
    BY <1>3, <2>1 DEF Details, DeallsDetails
  <2>2. CASE platform = "kitalulus"
    BY <1>3, <2>2 DEF Details, KitalulusDetails
  <2>3. CASE platform = "jobstreet"
    BY <1>3, <2>3 DEF Details, JobStreetDetails
  <2> QED BY <1>2, <2>1, <2>2, <2>3
<1> QED BY <1>1, <1>4

\* The details of a page keep the books of its fetcher.
LEMMA DetailsStep ==
  ASSUME FetchInv, NEW k \in Keywords, Details(k)
  PROVE  FetchInv'
<1>1. PICK rich \in SUBSET Jobs : f' = [f EXCEPT ![k] = Collect(f[k], rich)]
  BY DetailsTaken
<1>2. /\ f[k].at = "details" /\ UNCHANGED <<platform, site, status>>
      /\ moves' \in 0..MaxMoves /\ moved' \subseteq Keywords
  BY DetailsTaken DEF siteVars, FetchInv
<1>3. f[k] \in Fetcher /\ Books(f[k]) /\ Paging(k)
  BY DEF FetchInv
<1> DEFINE s == Collect(f[k], rich)
<1>4. s \in Fetcher /\ Books(s) /\ s.at \in {"page", "fetched"} /\ s.next = f[k].next
  BY <1>2, <1>3, CollectFacts DEF Books
<1> HIDE DEF s
<1>5. OnItsWay(s)
  BY <1>2, <1>3, <1>4 DEF OnItsWay, Paging
<1>6. f' = [f EXCEPT ![k] = s]
  BY <1>1 DEF s
<1> QED BY <1>2, <1>4, <1>5, <1>6, OneFetcher

\* A fetcher that has ended, well or not, keeps the books of its pages.
LEMMA EndFacts ==
  ASSUME NEW s \in Fetcher, Books(s), NEW e \in {"stored", "failed"}, NEW n \in Nat,
         s.at \in {"page", "fetched"}, e = "stored" => s.at = "fetched"
  PROVE  LET t == [s EXCEPT !.at = e, !.persisted = n] IN
         t \in Fetcher /\ Books(t) /\ OnItsWay(t)
<1> DEFINE t == [s EXCEPT !.at = e, !.persisted = n]
<1>1. t \in Fetcher
  BY DEF Fetcher
<1>2. /\ t.at = e /\ t.attempted = s.attempted /\ t.succeeded = s.succeeded
      /\ t.failed = s.failed /\ t.collected = s.collected /\ t.new = s.new
  BY DEF Fetcher
<1> HIDE DEF t
<1>3. Books(t) /\ OnItsWay(t)
  BY <1>2 DEF Books, OnItsWay
<1> QED BY <1>1, <1>3 DEF t

\* What a fetcher delivers is a list of jobs.
LEMMA DeliveredFits ==
  ASSUME NEW s \in Fetcher
  PROVE  Delivered(s) \in Seq(Jobs) /\ Len(Delivered(s)) \in Nat
<1>1. s.collected \in Seq(Jobs) /\ Limit \in Nat
  BY LimitsAssumption DEF Fetcher
<1> DEFINE n == Least(Limit, Len(s.collected))
<1>2. n \in Nat /\ n <= Len(s.collected)
  BY <1>1 DEF Least
<1> HIDE DEF n
<1>3. SubSeq(s.collected, 1, n) \in Seq(Jobs)
  BY <1>1, <1>2
<1> QED BY <1>3 DEF Delivered, n

\* A fetcher that loses a page, or ends, keeps its books.
LEMMA StoreStep ==
  ASSUME FetchInv, NEW k \in Keywords, Store(k) \/ StoreFails(k) \/ PageFails(k) \/ PageEscapes(k)
  PROVE  FetchInv'
<1>1. f[k] \in Fetcher /\ Books(f[k])
  BY DEF FetchInv
<1>2. /\ UNCHANGED <<platform, site, status>> /\ moves' \in 0..MaxMoves /\ moved' \subseteq Keywords
      /\ f[k].at \in {"page", "fetched"}
  BY DEF Store, StoreFails, PageFails, PageEscapes, siteVars, FetchInv
<1>3. CASE Store(k)
  <2> DEFINE s == [f[k] EXCEPT !.at = "stored", !.persisted = Len(Delivered(f[k]))]
  <2>1. f[k].at = "fetched" /\ f' = [f EXCEPT ![k] = s]
    BY <1>3 DEF Store
  <2>2. s \in Fetcher /\ Books(s) /\ OnItsWay(s)
    BY <1>1, <2>1, DeliveredFits, EndFacts
  <2> HIDE DEF s
  <2> QED BY <1>2, <2>1, <2>2, OneFetcher
<1>4. CASE StoreFails(k)
  <2>1. PICK n \in 0..Len(Delivered(f[k])) :
          f' = [f EXCEPT ![k] = [f[k] EXCEPT !.at = "failed", !.persisted = n]]
    BY <1>4 DEF StoreFails
  <2> DEFINE s == [f[k] EXCEPT !.at = "failed", !.persisted = n]
  <2>2. n \in Nat
    BY <1>1, DeliveredFits
  <2>3. s \in Fetcher /\ Books(s) /\ OnItsWay(s)
    BY <1>1, <1>2, <2>2, EndFacts
  <2>4. f' = [f EXCEPT ![k] = s]
    BY <2>1
  <2> HIDE DEF s
  <2> QED BY <1>2, <2>3, <2>4, OneFetcher
<1>5. CASE PageFails(k)
  <2>1. PICK e \in PageErrors : f' = [f EXCEPT ![k] = PageLost(f[k], e)]
    BY <1>5 DEF PageFails
  <2> DEFINE s == PageLost(f[k], e)
  <2>2. s \in Fetcher /\ Books(s) /\ s.at = "fetched"
    BY <1>1, <1>5, LostFacts DEF PageFails
  <2>3. f' = [f EXCEPT ![k] = s]
    BY <2>1
  <2> HIDE DEF s
  <2>4. OnItsWay(s)
    BY <2>2 DEF OnItsWay
  <2> QED BY <1>2, <2>2, <2>3, <2>4, OneFetcher
<1>6. CASE PageEscapes(k)
  <2> DEFINE s == [f[k] EXCEPT !.at = "failed", !.persisted = f[k].persisted]
  <2>1. f' = [f EXCEPT ![k] = s]
    <3>1. f' = [f EXCEPT ![k] = [f[k] EXCEPT !.at = "failed"]]
      BY <1>6 DEF PageEscapes
    <3>2. [f[k] EXCEPT !.at = "failed"] = s
      BY <1>1 DEF Fetcher
    <3> QED BY <3>1, <3>2
  <2>2. f[k].persisted \in Nat
    BY <1>1 DEF Fetcher
  <2>3. s \in Fetcher /\ Books(s) /\ OnItsWay(s)
    BY <1>1, <1>2, <2>2, EndFacts
  <2> HIDE DEF s
  <2> QED BY <1>2, <2>1, <2>3, OneFetcher
<1> QED BY <1>3, <1>4, <1>5, <1>6

\* A site that changes still lists no job twice.
LEMMA SiteStep ==
  ASSUME FetchInv, NEW k \in Keywords, SiteMoves(k)
  PROVE  FetchInv'
<1>1. /\ UNCHANGED <<platform, f, status>> /\ moves' = moves + 1 /\ moves < MaxMoves
      /\ moved' = moved \cup {k} /\ moves \in 0..MaxMoves /\ moved \subseteq Keywords
  BY DEF SiteMoves, FetchInv
<1>2. /\ site \in [Keywords -> Seq(Jobs)] /\ site[k] \in Seq(Jobs)
      /\ \A i \in Keywords : IsInjective(site[i])
  BY DEF FetchInv, SiteInv
<1>3. \E l \in Seq(Jobs) : IsInjective(l) /\ site' = [site EXCEPT ![k] = l]
  <2>1. ASSUME NEW j \in Jobs \ ToSet(site[k]), site' = [site EXCEPT ![k] = <<j>> \o site[k]]
        PROVE  \E l \in Seq(Jobs) : IsInjective(l) /\ site' = [site EXCEPT ![k] = l]
    <3>1. <<j>> \in Seq(Jobs) /\ IsInjective(<<j>>) /\ ToSet(<<j>>) = {j}
      BY DEF IsInjective, ToSet
    <3>2. <<j>> \o site[k] \in Seq(Jobs) /\ IsInjective(<<j>> \o site[k])
      <4>1. ToSet(<<j>>) \cap ToSet(site[k]) = {} /\ IsInjective(site[k])
        BY <1>2, <3>1
      <4>2. <<j>> \in Seq(Jobs) /\ site[k] \in Seq(Jobs)
        BY <1>2, <3>1
      <4> QED BY <3>1, <4>1, <4>2, ConcatSet
    <3> QED BY <2>1, <3>2
  <2>2. ASSUME 1 \in DOMAIN site[k], site' = [site EXCEPT ![k] = Tail(site[k])]
        PROVE  \E l \in Seq(Jobs) : IsInjective(l) /\ site' = [site EXCEPT ![k] = l]
    <3> DEFINE l == site[k]
    <3>1. l \in Seq(Jobs) /\ l # <<>> /\ IsInjective(l)
      BY <1>2, <2>2
    <3>2. /\ Tail(l) \in Seq(Jobs) /\ Len(Tail(l)) = Len(l) - 1 /\ Len(l) \in Nat
          /\ \A i \in 1..Len(l) - 1 : Tail(l)[i] = l[i + 1]
      BY <3>1, HeadTailProperties
    <3>3. IsInjective(Tail(l))
      <4> HIDE DEF l
      <4>1. DOMAIN Tail(l) = 1..Len(l) - 1 /\ DOMAIN l = 1..Len(l)
        BY <3>1, <3>2
      <4> SUFFICES ASSUME NEW a \in 1..Len(l) - 1, NEW b \in 1..Len(l) - 1, Tail(l)[a] = Tail(l)[b]
                   PROVE  a = b
        BY <4>1 DEF IsInjective
      <4>2. a + 1 \in DOMAIN l /\ b + 1 \in DOMAIN l /\ l[a + 1] = l[b + 1]
        BY <3>2, <4>1
      <4>3. a + 1 = b + 1
        BY <3>1, <4>2 DEF IsInjective
      <4> QED BY <3>2, <4>3
    <3> QED BY <2>2, <3>2, <3>3
  <2> QED BY <2>1, <2>2 DEF SiteMoves
<1>4. SiteInv'
  <2>1. PICK l \in Seq(Jobs) : IsInjective(l) /\ site' = [site EXCEPT ![k] = l]
    BY <1>3
  <2>2. site' \in [Keywords -> Seq(Jobs)]
    BY <1>2, <2>1
  <2>3. \A i \in Keywords : IsInjective(site'[i])
    BY <1>2, <2>1
  <2> QED BY <2>2, <2>3 DEF SiteInv
<1>5. moves' \in 0..MaxMoves
  BY <1>1, LimitsAssumption
<1>6. moved' \subseteq Keywords
  BY <1>1
<1>7. \A i \in Keywords : Books(f[i])' /\ Paging(i)'
  BY <1>1 DEF FetchInv, Paging
<1> QED BY <1>1, <1>4, <1>5, <1>6, <1>7 DEF FetchInv

\* The fetchers that a stage starts have their books in order.
LEMMA StartStep ==
  ASSUME FetchInv, Start
  PROVE  FetchInv'
<1>1. /\ f' = [k \in Keywords |-> Begin(k)] /\ status' = "started"
      /\ UNCHANGED <<platform, site, moves, moved>>
  BY DEF Start, siteVars
<1>2. \A k \in Keywords :
        /\ Begin(k) \in Fetcher /\ Books(Begin(k)) /\ Begin(k).at \in {"page", "fetched"}
        /\ Begin(k).at = "page" =>
             platform # "fixture" /\ Begin(k).next = IF platform = "kalibrr" THEN 0 ELSE 1
  BY BeginFacts DEF FetchInv
<1>3. f' \in [Keywords -> Fetcher]
  BY <1>1, <1>2
<1>4. \A k \in Keywords : f'[k] = Begin(k)
  BY <1>1
<1>5. \A k \in Keywords : Books(f[k])'
  BY <1>2, <1>4
<1>6. \A k \in Keywords : Paging(k)'
  BY <1>1, <1>2, <1>4 DEF Paging
<1>7. SiteInv'
  BY <1>1 DEF SiteInv, FetchInv
<1> QED BY <1>1, <1>3, <1>5, <1>6, <1>7 DEF FetchInv

\* Every step keeps the books of every fetcher.
LEMMA FetchNext == FetchInv /\ [Next]_vars => FetchInv'
<1> SUFFICES ASSUME FetchInv, [Next]_vars PROVE FetchInv'
  OBVIOUS
<1>1. CASE Start
  BY <1>1, StartStep
<1>2. CASE Finish
  <2>1. UNCHANGED <<platform, site, moves, moved, f>> /\ status' \in {"partial", "completed"}
    BY <1>2 DEF Finish, siteVars
  <2>2. \A k \in Keywords : Books(f[k])' /\ Paging(k)'
    BY <2>1 DEF FetchInv, Paging
  <2> QED BY <2>1, <2>2 DEF FetchInv, SiteInv
<1>3. ASSUME NEW k \in Keywords, Page(k) PROVE FetchInv'
  BY <1>3, PageStep, StoreStep DEF Page, TakesPage
<1>4. ASSUME NEW k \in Keywords, Details(k) PROVE FetchInv'
  BY <1>4, DetailsStep
<1>5. ASSUME NEW k \in Keywords, Store(k) \/ StoreFails(k) PROVE FetchInv'
  BY <1>5, StoreStep
<1>6. ASSUME NEW k \in Keywords, SiteMoves(k) PROVE FetchInv'
  BY <1>6, SiteStep
<1>7. CASE UNCHANGED vars
  <2>1. UNCHANGED <<platform, site, moves, moved, f, status>>
    BY <1>7 DEF vars, siteVars
  <2>2. \A k \in Keywords : Books(f[k])' /\ Paging(k)'
    BY <2>1 DEF FetchInv, Paging
  <2> QED BY <2>1, <2>2 DEF FetchInv, SiteInv
<1> QED BY <1>1, <1>2, <1>3, <1>4, <1>5, <1>6, <1>7 DEF Next

-----------------------------------------------------------------------------
(* Exhausted sources *)

\* A fetcher that stands still, on a site that does, knows what it knew.
LEMMA CoverageFrame ==
  ASSUME NEW k \in Keywords, Coverage(k), k \notin moved => k \notin moved',
         moved \subseteq moved', f'[k] = f[k], site'[k] = site[k], platform' = platform
  PROVE  Coverage(k)'
<1>1. Seen(k)' = Seen(k) /\ Complete(k)' = Complete(k) /\ From(k)' = From(k) /\ Size' = Size
  BY DEF Seen, Complete, From, Size
<1>2. \A c : Prefix(k, c)' = Prefix(k, c)
  BY DEF Prefix, First
<1> QED BY <1>1, <1>2 DEF Coverage

\* Pages of a list are parts of it: the next page extends a first part, and it
\* adds nothing just if there was nothing left.
LEMMA PageExtends ==
  ASSUME NEW l \in Seq(Jobs), IsInjective(l), NEW from \in Nat, NEW n \in Nat, NEW c \in Nat,
         from <= c, c < from + n
  PROVE  /\ \A x : x \in First(l, from + n) <=> x \in First(l, c) \/ x \in ToSet(Slice(l, from, n))
         /\ from + n >= Len(l) => First(l, from + n) = ToSet(l)
         /\ ToSet(Slice(l, from, n)) \subseteq First(l, c) => First(l, c) = ToSet(l)
<1> DEFINE Part(m) == {l[i] : i \in 1..Least(m, Len(l))}
           page == ToSet(Slice(l, from, n))
<1>1. page = {l[i] : i \in from + 1..Least(from + n, Len(l))}
  BY SliceIsPage
<1>2. Len(l) \in Nat /\ DOMAIN l = 1..Len(l) /\ ToSet(l) = {l[i] : i \in 1..Len(l)}
  BY DEF ToSet
<1> HIDE DEF page
<1>3. Part(c) \cup page = Part(from + n)
  <2>1. \A i \in 1..Least(c, Len(l)) : i \in 1..Least(from + n, Len(l))
    BY <1>2 DEF Least
  <2>2. \A i \in from + 1..Least(from + n, Len(l)) : i \in 1..Least(from + n, Len(l))
    BY <1>2 DEF Least
  <2>3. \A i \in 1..Least(from + n, Len(l)) :
          i \in 1..Least(c, Len(l)) \/ i \in from + 1..Least(from + n, Len(l))
    BY <1>2 DEF Least
  <2> QED BY <1>1, <2>1, <2>2, <2>3
<1>4. from + n >= Len(l) => Part(from + n) = ToSet(l)
  BY <1>2 DEF Least
<1>5. ASSUME page \subseteq Part(c) PROVE Part(c) = ToSet(l)
  <2>1. CASE c >= Len(l)
    BY <1>2, <2>1 DEF Least
  <2>2. CASE c < Len(l)
    <3>1. c + 1 \in from + 1..Least(from + n, Len(l)) /\ c + 1 \in DOMAIN l
      BY <1>2, <2>2 DEF Least
    <3>2. l[c + 1] \in page
      BY <1>1, <3>1
    <3>3. PICK i \in 1..Least(c, Len(l)) : l[i] = l[c + 1]
      BY <1>5, <3>2
    <3>4. i \in DOMAIN l /\ i # c + 1
      BY <1>2, <2>2, <3>3 DEF Least
    <3> QED BY <3>1, <3>3, <3>4 DEF IsInjective
  <2>3. c >= Len(l) \/ c < Len(l)
    BY <1>2
  <2> HIDE DEF Part
  <2> QED BY <2>1, <2>2, <2>3
<1> QED BY <1>3, <1>4, <1>5 DEF page, First

\* The answer to a request that is taken from one listing keeps the fetcher's
\* knowledge of it.
LEMMA CoveragePage ==
  ASSUME FetchInv, CoverageInv, JobStreetPagesSuffice, NEW k \in Keywords, TakesPage(k)
  PROVE  Coverage(k)'
<1> SUFFICES ASSUME k \notin moved' PROVE Coverage(k)'
  BY DEF Coverage
<1>1. PICK jobs \in Seq(Jobs), last \in BOOLEAN :
        /\ IsInjective(jobs)
        /\ f' = [f EXCEPT ![k] = IF Unreadable(jobs) THEN PageLost(f[k], "parse_error")
                                 ELSE Answered(k, jobs, last, Following(k))]
        /\ jobs = Slice(site[k], From(k), Size)
        /\ last => Enough(k)
  BY PageTaken
<1>2. /\ f[k].at = "page" /\ From(k) \in Nat /\ Following(k) \in Nat
      /\ UNCHANGED <<platform, site>> /\ moved \subseteq moved'
  BY PageTaken
<1>3. f[k] \in Fetcher /\ Books(f[k]) /\ Paging(k) /\ f \in [Keywords -> Fetcher]
  BY DEF FetchInv
<1>4. site[k] \in Seq(Jobs) /\ IsInjective(site[k])
  BY DEF FetchInv, SiteInv
<1>5. Size \in Nat \ {0} /\ Step \in Nat \ {0} /\ Step <= Size
  BY Sizes DEF Size, Step, Least
<1>6. f[k].collected \in Seq(Jobs) /\ f[k].new = <<>>
  BY <1>2, <1>3 DEF Fetcher, Books
<1>7. Seen(k) = ToSet(f[k].collected)
  BY <1>6, ConcatSet DEF Seen
<1>8. \E c \in Nat : Seen(k) = Prefix(k, c) /\ From(k) <= c /\ c < From(k) + Size
  BY <1>2 DEF CoverageInv, Coverage
<1>9. f[k].empty >= 1 => Complete(k)
  BY <1>2 DEF CoverageInv, Coverage
<1> DEFINE seen == Seen(k) \cup ToSet(jobs)
           d == From(k) + Size
<1>10. /\ seen = Prefix(k, d)
       /\ Enough(k) => Prefix(k, d) = ToSet(site[k])
       /\ ToSet(jobs) \subseteq Seen(k) => Seen(k) = ToSet(site[k])
  <2>1. PICK c \in Nat : Seen(k) = First(site[k], c) /\ From(k) <= c /\ c < From(k) + Size
    BY <1>8 DEF Prefix
  <2>2. /\ First(site[k], c) \cup ToSet(Slice(site[k], From(k), Size)) = First(site[k], d)
        /\ d >= Len(site[k]) => First(site[k], d) = ToSet(site[k])
        /\ ToSet(Slice(site[k], From(k), Size)) \subseteq First(site[k], c)
             => First(site[k], c) = ToSet(site[k])
    <3>1. Size \in Nat
      BY <1>5
    <3>2. /\ \A x : x \in First(site[k], d) <=>
                    x \in First(site[k], c) \/ x \in ToSet(Slice(site[k], From(k), Size))
          /\ d >= Len(site[k]) => First(site[k], d) = ToSet(site[k])
          /\ ToSet(Slice(site[k], From(k), Size)) \subseteq First(site[k], c)
               => First(site[k], c) = ToSet(site[k])
      BY <1>2, <1>4, <2>1, <3>1, PageExtends
    <3> HIDE DEF d
    <3> QED BY <3>2
  <2>3. Prefix(k, d) = First(site[k], d) /\ (Enough(k) <=> d >= Len(site[k]))
    BY DEF Prefix, Enough
  <2> HIDE DEF d
  <2> QED BY <1>1, <2>1, <2>2, <2>3
<1>11. CASE Unreadable(jobs)
  <2>1. f'[k].at = "fetched" /\ f'[k].stop = "parse_error"
    BY <1>1, <1>2, <1>3, <1>11, LostFacts DEF PageErrors
  <2> QED BY <2>1 DEF Coverage
<1>12. CASE ~Unreadable(jobs)
  <2> DEFINE a == Answered(k, jobs, last, Following(k))
  <2>1. f'[k] = a
    BY <1>1, <1>3, <1>12
  <2>2. /\ a.at \in {"page", "details", "fetched"} /\ a.next = Following(k)
        /\ a \in Fetcher /\ Books(a)
        /\ ToSet(a.collected \o a.new) = ToSet(f[k].collected) \cup ToSet(jobs)
        /\ a.empty >= 1 => ToSet(jobs) \subseteq ToSet(f[k].collected)
        /\ a.empty >= 2 => f[k].empty >= 1
    BY <1>1, <1>2, <1>3, AnswerFacts
  <2>12. a.stop = "source_exhausted" => last \/ a.empty >= 2
    BY <1>1, <1>2, <1>3, AnswerFacts
  <2>16. a.at = "details" => a.last = last
    BY <1>1, <1>2, <1>3, AnswerFacts
  <2> HIDE DEF a
  <2>3. Seen(k)' = seen
    BY <1>7, <2>1, <2>2 DEF Seen
  <2>4. From(k)' = From(k) + Step
    <3>1. f'[k].next = Following(k) /\ platform' = platform
      BY <1>2, <2>1, <2>2
    <3>2. CASE platform = "kalibrr"
      BY <3>1, <3>2 DEF From, Following, Step
    <3>3. CASE platform # "kalibrr"
      <4>1. f[k].next \in Nat /\ f'[k].next = f[k].next + 1
        BY <1>3, <3>1, <3>3 DEF Following, Fetcher
      <4>2. From(k)' = (f'[k].next - 1) * Size /\ From(k) = (f[k].next - 1) * Size /\ Step = Size
        BY <3>1, <3>3 DEF From, Step, Size
      <4>3. \A n, s \in Nat : (n + 1 - 1) * s = (n - 1) * s + s
        OBVIOUS
      <4>4. (f[k].next + 1 - 1) * Size = (f[k].next - 1) * Size + Size
        BY <1>5, <4>1, <4>3
      <4>5. (f'[k].next - 1) * Size = (f[k].next + 1 - 1) * Size
        BY <4>1
      <4> QED BY <4>2, <4>4, <4>5
    <3> QED BY <3>2, <3>3
  <2>5. Size' = Size
    BY <1>2 DEF Size
  <2>6. \A m : Prefix(k, m)' = Prefix(k, m)
    BY <1>2 DEF Prefix, First
  <2>7. d \in Nat /\ From(k)' <= d /\ d < From(k)' + Size'
    BY <1>2, <1>5, <2>4, <2>5
  <2>8. Complete(k)' <=> ToSet(site[k]) \subseteq seen
    BY <1>2, <2>3 DEF Complete, Seen
  <2> HIDE DEF d, seen
  <2>9. last \/ a.empty >= 1 => ToSet(site[k]) \subseteq seen
    BY <1>1, <1>7, <1>10, <2>2 DEF seen
  <2>10. a.stop = "source_exhausted" =>
           ToSet(site'[k]) \subseteq ToSet(a.collected)
    <3> SUFFICES ASSUME a.stop = "source_exhausted" PROVE ToSet(site[k]) \subseteq ToSet(a.collected)
      BY <1>2
    <3>1. ToSet(site[k]) \subseteq seen
      BY <1>7, <1>9, <2>2, <2>9, <2>12 DEF Complete, seen
    <3>2. a.new = <<>> /\ a.collected \in Seq(Jobs)
      BY <2>2 DEF Books, Fetcher
    <3>3. ToSet(a.collected \o a.new) = ToSet(a.collected)
      BY <3>2, ConcatSet
    <3> QED BY <1>7, <2>2, <3>1, <3>3 DEF seen
  <2>11. \E c \in Nat : Seen(k)' = Prefix(k, c)' /\ From(k)' <= c /\ c < From(k)' + Size'
    <3>1. PICK c \in Nat : c = d
      BY <2>7
    <3>2. Seen(k)' = Prefix(k, c) /\ Prefix(k, c)' = Prefix(k, c)
      BY <1>10, <2>3, <2>6, <3>1
    <3> QED BY <2>7, <3>1, <3>2
  <2>13. f'[k].at = "details" /\ f'[k].last => Complete(k)'
    BY <2>1, <2>8, <2>9, <2>16
  <2>14. f'[k].empty >= 1 => Complete(k)'
    BY <2>1, <2>8, <2>9
  <2>15. f'[k].stop = "source_exhausted" => ToSet(site'[k]) \subseteq ToSet(f'[k].collected)
    BY <2>1, <2>10
  <2> QED BY <2>11, <2>13, <2>14, <2>15 DEF Coverage
<1> QED BY <1>11, <1>12

\* Reading the details of a page changes nothing of what was seen.
LEMMA CoverageDetails ==
  ASSUME FetchInv, CoverageInv, NEW k \in Keywords, Details(k)
  PROVE  Coverage(k)'
<1>1. PICK rich \in SUBSET Jobs : f' = [f EXCEPT ![k] = Collect(f[k], rich)]
  BY DetailsTaken
<1>2. /\ f[k].at = "details" /\ UNCHANGED <<platform, site, moved>>
      /\ f[k] \in Fetcher /\ Books(f[k]) /\ f \in [Keywords -> Fetcher]
  BY DetailsTaken DEF siteVars, FetchInv
<1> DEFINE s == Collect(f[k], rich)
<1>3. /\ s \in Fetcher /\ Books(s) /\ s.at \in {"page", "fetched"} /\ s.next = f[k].next
      /\ s.empty = 0 /\ ToSet(s.collected \o s.new) = Seen(k)
  BY <1>2, CollectFacts DEF Books, Seen
<1>4. s.stop = "source_exhausted" => f[k].last
  BY <1>2, CollectFacts DEF Books
<1>5. f'[k] = s
  BY <1>1, <1>2
<1> HIDE DEF s
<1>6. s.new = <<>> /\ ToSet(s.collected \o s.new) = ToSet(s.collected)
  <2>1. s.new = <<>> /\ s.collected \in Seq(Jobs)
    BY <1>3 DEF Books, Fetcher
  <2> QED BY <2>1, ConcatSet
<1>7. Seen(k)' = Seen(k) /\ From(k)' = From(k) /\ Size' = Size
  BY <1>2, <1>3, <1>5 DEF Seen, From, Size
<1>8. \A c : Prefix(k, c)' = Prefix(k, c)
  BY <1>2 DEF Prefix, First
<1> SUFFICES ASSUME k \notin moved PROVE Coverage(k)'
  BY <1>2 DEF Coverage
<1>9. /\ \E c \in Nat : Seen(k) = Prefix(k, c) /\ From(k) <= c /\ c < From(k) + Size
      /\ f[k].last => Complete(k)
  BY <1>2 DEF CoverageInv, Coverage
<1>10. s.stop = "source_exhausted" => ToSet(site'[k]) \subseteq ToSet(s.collected)
  BY <1>2, <1>3, <1>4, <1>6, <1>9 DEF Complete
<1> QED BY <1>3, <1>5, <1>7, <1>8, <1>9, <1>10 DEF Coverage

\* A fetcher that starts has seen the empty first part of its list.
LEMMA CoverageStart ==
  ASSUME FetchInv, Start, NEW k \in Keywords
  PROVE  Coverage(k)'
<1>1. f'[k] = Begin(k) /\ UNCHANGED <<platform, site>>
  BY DEF Start, siteVars
<1>2. /\ Begin(k).at \in {"page", "fetched"} /\ Begin(k).new = <<>> /\ Begin(k).empty = 0
      /\ Begin(k).stop # "source_exhausted"
      /\ Begin(k).at = "page" =>
           /\ Begin(k).collected = <<>>
           /\ Begin(k).next = IF platform = "kalibrr" THEN 0 ELSE 1
  BY BeginFacts DEF FetchInv
<1>3. CASE Begin(k).at = "page"
  <2>1. Size \in Nat \ {0}
    BY Sizes DEF Size
  <2>2. From(k)' = 0 /\ Size' = Size
    <3>1. \A s \in Nat : (1 - 1) * s = 0
      OBVIOUS
    <3> QED BY <1>1, <1>2, <1>3, <2>1, <3>1 DEF From, Size
  <2>3. Seen(k)' = {}
    <3>1. <<>> \o <<>> = <<>> /\ ToSet(<<>>) = {}
      BY DEF ToSet
    <3> QED BY <1>1, <1>2, <1>3, <3>1 DEF Seen
  <2>4. Prefix(k, 0)' = {}
    <3>1. Len(site[k]) \in Nat
      BY DEF FetchInv, SiteInv
    <3>2. 1..Least(0, Len(site[k])) = {}
      BY <3>1 DEF Least
    <3> QED BY <1>1, <3>2 DEF Prefix, First
  <2> QED BY <1>1, <1>2, <1>3, <2>1, <2>2, <2>3, <2>4 DEF Coverage
<1>4. CASE Begin(k).at = "fetched"
  BY <1>1, <1>2, <1>4 DEF Coverage
<1> QED BY <1>2, <1>3, <1>4

\* Every step keeps what the fetchers know of their sites.
LEMMA CoverageNext ==
  FetchInv /\ CoverageInv /\ JobStreetPagesSuffice /\ [Next]_vars => CoverageInv'
<1> SUFFICES ASSUME FetchInv, CoverageInv, JobStreetPagesSuffice, [Next]_vars, NEW i \in Keywords
             PROVE  Coverage(i)'
  BY DEF CoverageInv
<1>1. Coverage(i) /\ f \in [Keywords -> Fetcher]
  BY DEF CoverageInv, FetchInv
<1>2. CASE Start
  BY <1>2, CoverageStart
<1>3. CASE Finish \/ UNCHANGED vars
  <2>1. UNCHANGED <<platform, site, moved, f>>
    BY <1>3 DEF Finish, siteVars, vars
  <2> QED BY <1>1, <2>1, CoverageFrame
<1>4. ASSUME NEW k \in Keywords, TakesPage(k) PROVE Coverage(i)'
  <2>1. CASE i = k
    BY <1>4, <2>1, CoveragePage
  <2>2. CASE i # k
    <3>1. UNCHANGED <<platform, site>> /\ moved \subseteq moved' /\ f'[i] = f[i]
      BY <1>1, <1>4, <2>2, PageTaken
    <3>2. i \notin moved => i \notin moved'
      BY <1>4, <2>2 DEF TakesPage, DeallsPage, GlintsPage, KitalulusPage, JobStreetPage,
                        KalibrrPage, Take
    <3> QED BY <1>1, <3>1, <3>2, CoverageFrame
  <2> QED BY <2>1, <2>2
<1>5. ASSUME NEW k \in Keywords, Details(k) PROVE Coverage(i)'
  <2>1. CASE i = k
    BY <1>5, <2>1, CoverageDetails
  <2>2. CASE i # k
    <3>1. UNCHANGED <<platform, site, moved>> /\ f'[i] = f[i]
      BY <1>1, <1>5, <2>2, DetailsTaken DEF siteVars
    <3> QED BY <1>1, <3>1, CoverageFrame
  <2> QED BY <2>1, <2>2
<1>6. ASSUME NEW k \in Keywords, PageFails(k) \/ PageEscapes(k) \/ Store(k) \/ StoreFails(k)
      PROVE  Coverage(i)'
  <2>1. /\ UNCHANGED <<platform, site, moved>>
        /\ f[k] \in Fetcher /\ Books(f[k])
    BY <1>6 DEF PageFails, PageEscapes, Store, StoreFails, siteVars, FetchInv
  <2>2. CASE i # k
    <3>1. f'[i] = f[i]
      BY <1>1, <1>6, <2>2 DEF PageFails, PageEscapes, Store, StoreFails
    <3> QED BY <1>1, <2>1, <3>1, CoverageFrame
  <2>3. CASE i = k
    <3>1. f'[i].at \in {"fetched", "stored", "failed"}
      BY <1>1, <1>6, <2>3 DEF PageFails, PageEscapes, Store, StoreFails, PageLost, Fetcher
    <3>2. \/ f'[i].stop \in PageErrors
          \/ f'[i].stop = f[i].stop /\ f'[i].collected = f[i].collected
      <4>1. CASE PageFails(k)
        <5>1. PICK e \in PageErrors : f' = [f EXCEPT ![k] = PageLost(f[k], e)]
          BY <4>1 DEF PageFails
        <5>2. PageLost(f[k], e).stop = e
          BY <2>1, <4>1, LostFacts DEF PageFails
        <5> QED BY <1>1, <2>3, <5>1, <5>2
      <4>2. CASE PageEscapes(k) \/ Store(k) \/ StoreFails(k)
        BY <1>1, <2>1, <2>3, <4>2 DEF PageEscapes, Store, StoreFails, Fetcher
      <4> QED BY <1>6, <4>1, <4>2
    <3>3. "source_exhausted" \notin PageErrors
      BY DEF PageErrors
    <3> QED BY <1>1, <2>1, <2>3, <3>1, <3>2, <3>3 DEF Coverage
  <2> QED BY <2>2, <2>3
<1>7. ASSUME NEW k \in Keywords, SiteMoves(k) PROVE Coverage(i)'
  <2>1. moved' = moved \cup {k} /\ UNCHANGED <<platform, f>>
    BY <1>7 DEF SiteMoves
  <2>2. CASE i = k
    BY <2>1, <2>2 DEF Coverage
  <2>3. CASE i # k
    <3>1. site'[i] = site[i]
      BY <1>7, <2>3 DEF SiteMoves, FetchInv, SiteInv
    <3> QED BY <1>1, <2>1, <2>3, <3>1, CoverageFrame
  <2> QED BY <2>2, <2>3
<1> QED BY <1>2, <1>3, <1>4, <1>5, <1>6, <1>7 DEF Next, Page, TakesPage

\* Books that are in order bound the pages that do not pay.
LEMMA FetchFacts ==
  ASSUME FetchInv
  PROVE  PagesPay
<1> SUFFICES ASSUME NEW k \in Keywords
             PROVE  /\ f[k].attempted \in 0..MaxPages
                    /\ f[k].attempted <= 2 * Len(f[k].collected \o f[k].new) + 2
                    /\ f[k].at \in {"fetched", "stored"} =>
                         f[k].attempted = f[k].succeeded + f[k].failed
                    /\ IsInjective(f[k].collected \o f[k].new)
  BY DEF PagesPay
<1>1. f[k] \in Fetcher /\ Books(f[k])
  BY DEF FetchInv
<1>2. /\ f[k].collected \in Seq(Jobs) /\ f[k].new \in Seq(Jobs)
      /\ f[k].attempted \in Nat /\ MaxPages \in Nat
  BY <1>1, LimitsAssumption DEF Fetcher
<1>3. Len(f[k].collected \o f[k].new) = Len(f[k].collected) + Len(f[k].new)
  BY <1>2, ConcatSet
<1>4. f[k].attempted <= MaxPages
  BY <1>1 DEF Books
<1>5. f[k].attempted <= 2 * (Len(f[k].collected) + Len(f[k].new)) + 2
  BY <1>1 DEF Books
<1>6. f[k].attempted <= 2 * Len(f[k].collected \o f[k].new) + 2
  BY <1>3, <1>5
<1>7. f[k].attempted \in 0..MaxPages
  BY <1>2, <1>4
<1> QED BY <1>1, <1>6, <1>7 DEF Books

\* A fetcher that is idle claims nothing.
LEMMA CoverageInit == Init => CoverageInv
<1> SUFFICES ASSUME Init, NEW k \in Keywords PROVE Coverage(k)
  BY DEF CoverageInv
<1>1. f[k].at = "idle" /\ f[k].stop = "none"
  BY DEF Init, Idle
<1> QED BY <1>1 DEF Coverage

\* Whatever a site answers, a fetcher asks for at most two more pages than pays,
\* collects no job twice, and reports its pages as they were (the page loops,
\* dedupe_new_jobs).
THEOREM PagesAlwaysPay == Spec => []PagesPay
<1>1. FetchInv /\ [Next]_vars => FetchInv'
  BY FetchNext
<1>2. FetchInv => PagesPay
  BY FetchFacts
<1> QED BY <1>1, <1>2, FetchInit, PTL DEF Spec

\* A fetcher that says it has exhausted a source has collected every job of it,
\* and its report of its pages is true, if JobStreet serves pages that are not
\* shorter than the ones it is counted by (is_last_page of the adapters and the
\* stop reasons of the page loops).
THEOREM FetchersTellTheTruth == JobStreetPagesSuffice => (Spec => []FetchersAreTruthful)
<1> SUFFICES ASSUME JobStreetPagesSuffice PROVE Spec => []FetchersAreTruthful
  OBVIOUS
<1>1. Init => FetchInv /\ CoverageInv
  BY FetchInit, CoverageInit
<1>2. FetchInv /\ CoverageInv /\ [Next]_vars => (FetchInv /\ CoverageInv)'
  BY FetchNext, CoverageNext
<1>3. FetchInv /\ CoverageInv => FetchersAreTruthful
  <2>1. CoverageInv => ExhaustedIsComplete
    BY DEF CoverageInv, Coverage, ExhaustedIsComplete
  <2> QED BY <2>1, FetchFacts DEF FetchersAreTruthful
<1> QED BY <1>1, <1>2, <1>3, PTL DEF Spec

-----------------------------------------------------------------------------
(* The store *)

\* Between two steps nothing waits in the session for a commit.
SessionInv ==
  /\ blocked \in BOOLEAN
  /\ db \in [Jobs -> Payloads] /\ session = db
  /\ StoreIsExact

Carries(k, j) == f[k].at = "stored" /\ j \in ToSet(Delivered(f[k]))
Payload(k, j) == IF j \in f[k].rich THEN "complete" ELSE "partial"

Accounted ==
  \A j \in Jobs :
    \/ db[j] = "none" /\ \A k \in Keywords : ~Carries(k, j)
    \/ \E k \in Keywords : Carries(k, j) /\ db[j] = Payload(k, j)

\* StoreIsExact, with the sources that carry a job spelled out.
LEMMA ExactByCarriers == StoreIsExact <=> Accounted
<1> SUFFICES ASSUME NEW j \in Jobs
             PROVE  (LET carriers == {k \in Keywords : f[k].at = "stored"
                                                       /\ j \in ToSet(Delivered(f[k]))}
                     IN IF carriers = {} THEN db[j] = "none"
                        ELSE \E k \in carriers :
                               db[j] = IF j \in f[k].rich THEN "complete" ELSE "partial")
                    <=> \/ db[j] = "none" /\ \A k \in Keywords : ~Carries(k, j)
                        \/ \E k \in Keywords : Carries(k, j) /\ db[j] = Payload(k, j)
  BY DEF StoreIsExact, Accounted
<1>1. CASE \E k \in Keywords : Carries(k, j)
  BY <1>1 DEF Carries, Payload
<1>2. CASE \A k \in Keywords : ~Carries(k, j)
  BY <1>2 DEF Carries, Payload
<1> QED BY <1>1, <1>2

\* Steps of fetchers that store nothing leave the store exact.
LEMMA StoreFrame ==
  ASSUME SessionInv, db' = db, session' = db, blocked' \in BOOLEAN,
         \A k \in Keywords : \/ f'[k] = f[k]
                             \/ f[k].at # "stored" /\ f'[k].at # "stored"
  PROVE  SessionInv'
<1>1. \A k \in Keywords, j \in Jobs :
        /\ Carries(k, j)' <=> Carries(k, j)
        /\ Carries(k, j) => Payload(k, j)' = Payload(k, j)
  BY DEF Carries, Payload, Delivered
<1>2. Accounted
  BY ExactByCarriers DEF SessionInv
<1>3. Accounted'
  BY <1>1, <1>2 DEF Accounted
<1>4. StoreIsExact'
  BY <1>3, ExactByCarriers, PTL
<1> QED BY <1>4 DEF SessionInv

\* Storing the rows of one source.
LEMMA StoreRows ==
  ASSUME FetchInv, SessionInv, NEW k \in Keywords, Store(k)
  PROVE  SessionInv'
<1> DEFINE d == Delivered(f[k])
<1>1. /\ f[k].at = "fetched" /\ f[k] \in Fetcher /\ f \in [Keywords -> Fetcher]
      /\ db' = session' /\ blocked' = blocked /\ session = db /\ db \in [Jobs -> Payloads]
      /\ f' = [f EXCEPT ![k].at = "stored", ![k].persisted = Len(d)]
      /\ session' = Upserted(k, Len(d))
  BY DEF Store, FetchInv, SessionInv
<1>2. d \in Seq(Jobs) /\ SubSeq(d, 1, Len(d)) = d
  <2>1. d \in Seq(Jobs)
    BY <1>1, DeliveredFits
  <2> QED BY <2>1
<1>3. /\ f'[k].at = "stored" /\ f'[k].rich = f[k].rich /\ f'[k].collected = f[k].collected
      /\ \A i \in Keywords \ {k} : f'[i] = f[i]
  BY <1>1 DEF Fetcher
<1>4. \A j \in Jobs : db'[j] = IF j \notin ToSet(d) THEN db[j] ELSE Payload(k, j)
  BY <1>1, <1>2 DEF Upserted, Payload
<1>5. \A j \in Jobs :
        /\ ~Carries(k, j) /\ (Carries(k, j)' <=> j \in ToSet(d))
        /\ Payload(k, j)' = Payload(k, j)
        /\ \A i \in Keywords \ {k} : /\ Carries(i, j)' <=> Carries(i, j)
                                     /\ Payload(i, j)' = Payload(i, j)
  BY <1>1, <1>3 DEF Carries, Payload, Delivered
<1>6. Accounted
  BY ExactByCarriers DEF SessionInv
<1> HIDE DEF d
<1>7. Accounted'
  <2> SUFFICES ASSUME NEW j \in Jobs
               PROVE  \/ db'[j] = "none" /\ \A i \in Keywords : ~Carries(i, j)'
                      \/ \E i \in Keywords : Carries(i, j)' /\ db'[j] = Payload(i, j)'
    BY DEF Accounted
  <2>1. CASE j \in ToSet(d)
    BY <1>4, <1>5, <2>1
  <2>2. CASE j \notin ToSet(d)
    <3>1. CASE db[j] = "none" /\ \A i \in Keywords : ~Carries(i, j)
      BY <1>4, <1>5, <2>2, <3>1
    <3>2. ASSUME NEW i \in Keywords, Carries(i, j), db[j] = Payload(i, j)
          PROVE  \E n \in Keywords : Carries(n, j)' /\ db'[j] = Payload(n, j)'
      <4>1. i # k
        BY <1>5, <3>2
      <4> QED BY <1>4, <1>5, <2>2, <3>2, <4>1
    <3> QED BY <1>6, <3>1, <3>2 DEF Accounted
  <2> QED BY <2>1, <2>2
<1>8. StoreIsExact'
  BY <1>7, ExactByCarriers, PTL
<1>9. db' \in [Jobs -> Payloads]
  <2>1. \A j \in Jobs : db[j] \in Payloads /\ Payload(k, j) \in Payloads
    BY <1>1 DEF Payload, Payloads
  <2>2. db' = [j \in Jobs |-> db'[j]]
    BY <1>1 DEF Upserted
  <2>3. \A j \in Jobs : db'[j] \in Payloads
    BY <1>4, <2>1
  <2> QED BY <2>2, <2>3
<1> QED BY <1>1, <1>8, <1>9 DEF SessionInv

\* Every step keeps the store exact and the session without leftovers.
LEMMA SessionNext == FetchInv /\ SessionInv /\ [Next]_vars => SessionInv'
<1> SUFFICES ASSUME FetchInv, SessionInv, [Next]_vars PROVE SessionInv'
  OBVIOUS
<1>1. f \in [Keywords -> Fetcher] /\ session = db /\ blocked \in BOOLEAN
  BY DEF FetchInv, SessionInv
<1>2. CASE Start
  <2>1. \A k \in Keywords : f[k].at # "stored" /\ f'[k].at # "stored"
    <3>1. \A k \in Keywords : Begin(k).at \in {"page", "fetched"}
      BY BeginFacts DEF FetchInv
    <3>2. \A k \in Keywords : f[k].at = "idle" /\ f'[k] = Begin(k)
      BY <1>2 DEF Start, FetchInv
    <3> QED BY <3>1, <3>2
  <2>2. db' = db /\ session' = db /\ blocked' \in BOOLEAN
    BY <1>1, <1>2 DEF Start, storeVars
  <2> QED BY <2>1, <2>2, StoreFrame
<1>3. CASE Finish \/ UNCHANGED vars
  <2>1. db' = db /\ session' = db /\ blocked' \in BOOLEAN /\ f' = f
    BY <1>1, <1>3 DEF Finish, storeVars, vars
  <2> QED BY <2>1, StoreFrame
<1>4. ASSUME NEW k \in Keywords, TakesPage(k) PROVE SessionInv'
  <2>1. /\ f[k].at = "page" /\ UNCHANGED <<blocked, storeVars>>
    BY <1>4, PageTaken
  <2>2. f[k] \in Fetcher /\ Books(f[k])
    BY DEF FetchInv
  <2>3. f'[k].at # "stored" /\ \A i \in Keywords \ {k} : f'[i] = f[i]
    <3>1. PICK jobs \in Seq(Jobs), last \in BOOLEAN :
            /\ IsInjective(jobs)
            /\ f' = [f EXCEPT ![k] = IF Unreadable(jobs) THEN PageLost(f[k], "parse_error")
                                     ELSE Answered(k, jobs, last, Following(k))]
      BY <1>4, PageTaken
    <3>2. Following(k) \in Nat
      BY <1>4, PageTaken
    <3>3. PageLost(f[k], "parse_error").at = "fetched"
      BY <2>1, <2>2, LostFacts DEF PageErrors
    <3>4. Answered(k, jobs, last, Following(k)).at \in {"page", "details", "fetched"}
      BY <2>1, <2>2, <3>1, <3>2, AnswerFacts
    <3> QED BY <1>1, <3>1, <3>3, <3>4
  <2> QED BY <1>1, <2>1, <2>3, StoreFrame DEF storeVars
<1>5. ASSUME NEW k \in Keywords, Details(k) PROVE SessionInv'
  <2>1. PICK rich \in SUBSET Jobs : f' = [f EXCEPT ![k] = Collect(f[k], rich)]
    BY <1>5, DetailsTaken
  <2>2. /\ f[k].at = "details" /\ UNCHANGED <<blocked, storeVars>>
        /\ f[k] \in Fetcher /\ Books(f[k])
    BY <1>5, DetailsTaken DEF FetchInv
  <2>3. Collect(f[k], rich).at \in {"page", "fetched"}
    BY <2>2, CollectFacts DEF Books
  <2>4. f'[k].at # "stored" /\ \A i \in Keywords \ {k} : f'[i] = f[i]
    BY <1>1, <2>1, <2>3
  <2> QED BY <1>1, <2>2, <2>4, StoreFrame DEF storeVars
<1>6. ASSUME NEW k \in Keywords, Store(k) PROVE SessionInv'
  BY <1>6, StoreRows
<1>7. ASSUME NEW k \in Keywords, PageFails(k) \/ PageEscapes(k) \/ StoreFails(k) PROVE SessionInv'
  <2>1. db' = db /\ session' = db /\ blocked' \in BOOLEAN
    BY <1>1, <1>7 DEF PageFails, PageEscapes, StoreFails, storeVars
  <2>2. /\ f[k].at # "stored" /\ f'[k].at # "stored"
        /\ \A i \in Keywords \ {k} : f'[i] = f[i]
    <3>1. f[k] \in Fetcher
      BY <1>1
    <3> QED BY <1>1, <1>7, <3>1 DEF PageFails, PageEscapes, StoreFails, PageLost, Fetcher
  <2> QED BY <2>1, <2>2, StoreFrame
<1>8. ASSUME NEW k \in Keywords, SiteMoves(k) PROVE SessionInv'
  <2>1. db' = db /\ session' = db /\ blocked' \in BOOLEAN /\ f' = f
    BY <1>1, <1>8 DEF SiteMoves, storeVars
  <2> QED BY <2>1, StoreFrame
<1> QED BY <1>2, <1>3, <1>4, <1>5, <1>6, <1>7, <1>8 DEF Next, Page, TakesPage

\* The committed rows are just what the stored sources delivered (upsert_raw_job,
\* and the commit or the rollback of _scrape_source).
THEOREM StoreHolds == Spec => []StoreInv
<1>1. Init => SessionInv
  <2> SUFFICES ASSUME Init PROVE SessionInv
    OBVIOUS
  <2>1. /\ db = [j \in Jobs |-> "none"] /\ session = db /\ blocked = FALSE
        /\ \A k \in Keywords : f[k].at = "idle"
    BY DEF Init, Idle
  <2>2. StoreIsExact
    BY <2>1 DEF StoreIsExact
  <2> QED BY <2>1, <2>2 DEF SessionInv, Payloads
<1>2. FetchInv /\ SessionInv /\ [Next]_vars => (FetchInv /\ SessionInv)'
  BY FetchNext, SessionNext
<1>3. FetchInv /\ SessionInv => StoreInv
  BY DEF FetchInv, SiteInv, SessionInv, StoreInv, TypeOK
<1> QED BY <1>1, <1>2, <1>3, FetchInit, PTL DEF Spec

=============================================================================
