-------------------------- MODULE TxRequest_proofs --------------------------
(***************************************************************************)
(* What the operations of the transaction tracker keep, for every finite   *)
(* set of peers and transactions and every order of priorities.            *)
(*                                                                         *)
(* The loops of the code are folds.  A fold is a function defined by       *)
(* recursion on finite sets; the first part shows that it exists and that  *)
(* it stays in a set that its step does not leave.                         *)
(***************************************************************************)
EXTENDS TxRequest, FiniteSetTheorems, WellFoundedInduction, TLAPS

-----------------------------------------------------------------------------
(* Recursion on finite sets *)

\* A family of subsets of a finite set has a member that is least by inclusion.
LEMMA LeastSubset ==
  ASSUME NEW S, IsFiniteSet(S), NEW T, T \subseteq SUBSET S, T # {}
  PROVE  \E x \in T : \A y \in T : ~(y \subseteq x /\ y # x)
<1>1. T \subseteq FiniteSubsetsOf(S)
  BY FS_FiniteSubsetsOfFinite
<1>2. \E x \in T : \A y \in T : ~(<<y, x>> \in StrictSubsetOrdering(S))
  BY <1>1, FS_StrictSubsetOrderingWellFounded, WFMin
<1> QED BY <1>2 DEF StrictSubsetOrdering

\* pick takes an element of every subset of S that is not empty.
Picks(pick, S) == \A s \in (SUBSET S) \ {{}} : pick[s] \in s

\* A family that has the empty set, and a set whenever it has the set without the
\* picked element, has all subsets.
LEMMA SubsetInduction ==
  ASSUME NEW S, IsFiniteSet(S), NEW pick, Picks(pick, S),
         NEW T, {} \in T, \A s \in (SUBSET S) \ {{}} : s \ {pick[s]} \in T => s \in T
  PROVE  SUBSET S \subseteq T
<1> DEFINE U == (SUBSET S) \ T
<1>1. SUFFICES ASSUME U # {} PROVE FALSE
  OBVIOUS
<1>2. PICK s \in U : \A y \in U : ~(y \subseteq s /\ y # s)
  <2>1. U \subseteq SUBSET S
    BY Zenon
  <2> HIDE DEF U
  <2> QED BY <1>1, <2>1, LeastSubset
<1>3. s # {} /\ s \in SUBSET S /\ pick[s] \in s
  BY <1>2 DEF Picks
<1>4. s \ {pick[s]} \in SUBSET S /\ s \ {pick[s]} \subseteq s /\ s \ {pick[s]} # s
  BY <1>3
<1>5. s \ {pick[s]} \in T
  BY <1>2, <1>4
<1> QED BY <1>2, <1>3, <1>5

\* f folds step over the subsets of S, from u0 on.
Folding(f, S, U, u0, step, pick) ==
  /\ f \in [SUBSET S -> U] /\ f[{}] = u0
  /\ \A s \in (SUBSET S) \ {{}} : f[s] = step[<<pick[s], f[s \ {pick[s]}]>>]

\* The fold exists.
LEMMA RecursionOnSubsets ==
  ASSUME NEW S, IsFiniteSet(S), NEW pick, Picks(pick, S),
         NEW U, NEW u0 \in U, NEW step \in [S \X U -> U]
  PROVE  \E f : Folding(f, S, U, u0, step, pick)
<1> DEFINE Part(s) == {g \in [SUBSET s -> U] :
              g[{}] = u0 /\ \A r \in (SUBSET s) \ {{}} : g[r] = step[<<pick[r], g[r \ {pick[r]}]>>]}
<1>p. \A s \in (SUBSET S) \ {{}} : pick[s] \in s
  BY Zenon DEF Picks
<1>1. ASSUME NEW q \in SUBSET S, NEW s \in SUBSET S, NEW g \in Part(q), NEW h \in Part(s),
             NEW t \in SUBSET S, t \subseteq q, t \subseteq s
      PROVE  g[t] = h[t]
  <2> DEFINE T == {r \in SUBSET S : r \subseteq q /\ r \subseteq s => g[r] = h[r]}
  <2>1. {} \in T
    BY Zenon
  <2>2. ASSUME NEW r \in (SUBSET S) \ {{}}, r \ {pick[r]} \in T
        PROVE  r \in T
    <3> SUFFICES ASSUME r \subseteq q, r \subseteq s PROVE g[r] = h[r]
      OBVIOUS
    <3>1. r \ {pick[r]} \subseteq q /\ r \ {pick[r]} \subseteq s
      BY Zenon
    <3>2. g[r \ {pick[r]}] = h[r \ {pick[r]}]
      BY Zenon, <2>2, <3>1
    <3>3. /\ g[r] = step[<<pick[r], g[r \ {pick[r]}]>>]
          /\ h[r] = step[<<pick[r], h[r \ {pick[r]}]>>]
      BY Zenon
    <3> QED BY Zenon, <3>2, <3>3
  <2>3. SUBSET S \subseteq T
    <3> HIDE DEF T, Part
    <3> QED BY <2>1, <2>2, SubsetInduction
  <2>4. t \in T
    BY Zenon, <2>3
  <2> QED BY Zenon, <1>1, <2>4
<1> DEFINE G(s) == CHOOSE g \in Part(s) : TRUE
           f == [s \in SUBSET S |-> G(s)[s]]
<1>g. ASSUME NEW s, Part(s) # {} PROVE G(s) \in Part(s)
  BY Zenon, <1>g
<1>2. \A s \in SUBSET S : Part(s) # {}
  <2> HIDE DEF G
  <2> DEFINE B == {s \in SUBSET S : Part(s) = {}}
  <2>1. SUFFICES ASSUME B # {} PROVE FALSE
    BY Zenon
  <2>2. PICK s \in B : \A r \in B : ~(r \subseteq s /\ r # s)
    <3>1. B \subseteq SUBSET S
      BY Zenon
    <3> HIDE DEF B
    <3> QED BY <2>1, <3>1, LeastSubset
  <2>3. s \in SUBSET S /\ Part(s) = {}
    BY Zenon, <2>2
  <2>4. s # {}
    <3>1. \A r \in SUBSET {} : r = {}
      BY Zenon
    <3> DEFINE g == [r \in SUBSET {} |-> u0]
    <3>2. g \in [SUBSET {} -> U] /\ g[{}] = u0
      BY Zenon
    <3> HIDE DEF g
    <3>3. g \in Part({})
      <4>1. \A r \in (SUBSET {}) \ {{}} : FALSE
        BY Zenon, <3>1
      <4> QED BY Zenon, <3>2, <4>1
    <3> QED BY Zenon, <2>3, <3>3
  <2>5. ASSUME NEW r \in SUBSET s, r # s PROVE G(r) \in Part(r)
    <3> HIDE DEF Part
    <3> QED BY Zenon, <1>g, <2>2, <2>5
  <2> DEFINE q == s \ {pick[s]}
             h == [r \in SUBSET s |-> IF r = s THEN step[<<pick[s], G(q)[q]>>] ELSE G(r)[r]]
  <2>6. pick[s] \in s /\ pick[s] \in S /\ q \in SUBSET s /\ q # s /\ q \in SUBSET S
    BY <1>p, <2>3, <2>4
  <2>7. ASSUME NEW r \in SUBSET s, r # s PROVE G(r)[r] \in U
    <3>1. G(r) \in [SUBSET r -> U] /\ r \in SUBSET r
      BY Zenon, <2>5, <2>7
    <3> QED BY Zenon, <3>1
  <2>8. h \in [SUBSET s -> U]
    <3>1. step[<<pick[s], G(q)[q]>>] \in U
      BY Zenon, <2>6, <2>7
    <3> QED BY Zenon, <2>7, <3>1
  <2>9. h[{}] = u0
    BY Zenon, <2>4, <2>5
  <2>10. ASSUME NEW r \in (SUBSET s) \ {{}} PROVE h[r] = step[<<pick[r], h[r \ {pick[r]}]>>]
    <3> DEFINE v == r \ {pick[r]}
    <3>1. pick[r] \in r /\ v \in SUBSET s /\ v # s
      BY <1>p, <2>3
    <3>2. h[v] = G(v)[v]
      BY Zenon, <3>1
    <3>3. CASE r = s
      BY Zenon, <3>2, <3>3
    <3>4. CASE r # s
      <4>1. h[r] = G(r)[r] /\ G(r)[r] = step[<<pick[r], G(r)[v]>>]
        BY Zenon, <2>5, <3>4
      <4>2. v \subseteq r /\ v \subseteq v /\ r \in SUBSET S /\ v \in SUBSET S
        BY Zenon, <2>3
      <4>3. G(r)[v] = G(v)[v]
        <5>1. G(r) \in Part(r) /\ G(v) \in Part(v)
          BY Zenon, <2>5, <3>1, <3>4
        <5> HIDE DEF Part, v
        <5> QED BY <1>1, <4>2, <5>1
      <4> QED BY Zenon, <3>2, <4>1, <4>3
    <3> QED BY Zenon, <3>3, <3>4
  <2>11. h \in Part(s)
    <3> HIDE DEF h
    <3> QED BY Zenon, <2>8, <2>9, <2>10
  <2> QED BY Zenon, <2>3, <2>11
<1>3. \A s \in SUBSET S : G(s) \in Part(s)
  BY Zenon, <1>2, <1>g
<1> HIDE DEF G
<1>4. f \in [SUBSET S -> U] /\ f[{}] = u0
  <2>1. \A s \in SUBSET S : G(s)[s] \in U
    BY Zenon, <1>3
  <2> QED BY Zenon, <2>1, <1>3
<1>5. ASSUME NEW s \in (SUBSET S) \ {{}} PROVE f[s] = step[<<pick[s], f[s \ {pick[s]}]>>]
  <2> DEFINE r == s \ {pick[s]}
  <2>1. G(s)[s] = step[<<pick[s], G(s)[r]>>]
    BY Zenon, <1>3
  <2>2. G(s)[r] = G(r)[r]
    <3>1. r \subseteq s /\ r \subseteq r /\ r \in SUBSET S
      BY Zenon
    <3> HIDE DEF Part, r
    <3> QED BY <1>1, <1>3, <3>1
  <2>3. f[s] = G(s)[s] /\ f[r] = G(r)[r]
    BY Zenon
  <2> QED BY Zenon, <2>1, <2>2, <2>3
<1> HIDE DEF f
<1> QED BY Zenon, <1>4, <1>5 DEF Folding

\* A finite set that is not empty has a member of the greatest weight.
LEMMA Heaviest ==
  ASSUME NEW A, IsFiniteSet(A), A # {}, NEW w \in [A -> Int]
  PROVE  \E a \in A : \A b \in A : w[b] <= w[a]
<1> DEFINE Above(a) == {b \in A : w[b] > w[a]}
           T == {Above(a) : a \in A}
<1>1. T \subseteq SUBSET A /\ T # {}
  <2>1. \A a \in A : Above(a) \in SUBSET A
    BY Zenon
  <2> HIDE DEF Above
  <2> QED BY Zenon, <2>1
<1>2. PICK x \in T : \A y \in T : ~(y \subseteq x /\ y # x)
  <2> HIDE DEF T
  <2> QED BY <1>1, LeastSubset
<1>3. PICK a \in A : x = Above(a)
  BY Zenon, <1>2
<1>4. ASSUME NEW b \in A, w[b] > w[a] PROVE FALSE
  <2>1. Above(b) \subseteq Above(a) /\ b \in Above(a) /\ b \notin Above(b)
    BY <1>4
  <2> HIDE DEF Above
  <2> QED BY Zenon, <1>2, <1>3, <2>1
<1> QED BY <1>4

-----------------------------------------------------------------------------
(* The transaction tracker *)

\* SanityCheck of the tracker k, announcement by announcement.
Sane(k) ==
  /\ k \in [Ann -> State]
  /\ \A a, b \in Ann : a[2] = b[2] =>
       /\ k[a] \in Selected /\ k[b] \in Selected => a = b
       /\ k[a] = "best" /\ k[b] = "ready" => Priority[a] > Priority[b]
  /\ \A a \in Ann : k[a] = "ready" => \E b \in Ann : b[2] = a[2] /\ k[b] \in Selected
  /\ \A a \in Ann : k[a] = "completed" =>
       \E b \in Ann : b[2] = a[2] /\ k[b] \notin {"none", "completed"}

\* Announcements of one transaction have different priorities.
LEMMA Priorities ==
  /\ \A a \in Ann : Priority[a] \in Nat
  /\ \A a, b \in Ann : a[2] = b[2] /\ a # b => Priority[a] # Priority[b]
<1>1. \A a \in Ann : Priority[a] \in Nat
  BY Zenon, TrackerAssumption
<1>2. ASSUME NEW a \in Ann, NEW b \in Ann, a[2] = b[2], a # b
      PROVE  Priority[a] # Priority[b]
  <2>1. PICK p \in TxPeer, t \in Tx : a = <<p, t>>
    BY DEF Ann
  <2>2. PICK q \in TxPeer, u \in Tx : b = <<q, u>>
    BY DEF Ann
  <2>3. t = u /\ p # q
    BY <1>2, <2>1, <2>2
  <2>4. Priority[<<p, t>>] # Priority[<<q, t>>]
    BY Zenon, <2>3, TrackerAssumption
  <2> QED BY Zenon, <2>1, <2>2, <2>3, <2>4
<1> QED BY Zenon, <1>1, <1>2

\* The announcements are finitely many; Highest finds one.
LEMMA HighestFound ==
  ASSUME NEW A \in SUBSET Ann, A # {}
  PROVE  Highest(A) \in A /\ \A b \in A : Priority[b] <= Priority[Highest(A)]
<1>1. IsFiniteSet(Ann)
  BY Zenon, TrackerAssumption, FS_Product DEF Ann
<1>2. IsFiniteSet(A)
  BY Zenon, <1>1, FS_Subset
<1> DEFINE w == [a \in A |-> Priority[a]]
<1>3. w \in [A -> Int]
  BY Priorities
<1>4. \E a \in A : \A b \in A : w[b] <= w[a]
  <2> HIDE DEF w
  <2> QED BY Zenon, <1>2, <1>3, Heaviest
<1>5. \E a \in A : \A b \in A : Priority[b] <= Priority[a]
  BY Zenon, <1>4
<1> QED BY Zenon, <1>5 DEF Highest

\* An announcement whose time has come is a candidate, and the best one is selected.
LEMMA PromoteKeeps ==
  ASSUME NEW k, Sane(k), NEW a \in Ann, k[a] = "delayed"
  PROVE  Sane(PromoteCandidateReady(k, a))
<1> DEFINE r == Modify(k, a, "ready")
           better == {b \in Of(r, a[2], {"ready"}) : Priority[b] > Priority[a]}
           top == Of(r, a[2], {"best"})
           new == PromoteCandidateReady(k, a)
<1> SUFFICES Sane(new)
  BY Zenon
<1>r. /\ r \in [Ann -> State] /\ r[a] = "ready"
      /\ \A b \in Ann : b # a => r[b] = k[b]
  BY Zenon DEF Modify, Sane, State
<1>1. CASE better # {}
  <2>1. new = r
    BY Zenon, <1>1 DEF PromoteCandidateReady
  <2>2. PICK c \in Ann : c # a /\ c[2] = a[2] /\ k[c] = "ready" /\ Priority[c] > Priority[a]
    BY <1>1, <1>r, Priorities DEF Of
  <2>3. PICK e \in Ann : e # a /\ e[2] = a[2] /\ k[e] \in Selected
    BY Zenon, <2>2 DEF Sane, Selected
  <2> HIDE DEF r
  <2> QED BY <1>r, <2>1, <2>2, <2>3, Priorities DEF Sane, Selected
<1>2. CASE better = {} /\ Of(r, a[2], Selected) = {}
  <2>1. new = Modify(r, a, "best")
    BY Zenon, <1>2 DEF PromoteCandidateReady
  <2>2. \A b \in Ann : b[2] = a[2] => k[b] \notin Selected /\ k[b] # "ready"
    <3>1. ASSUME NEW b \in Ann, b[2] = a[2] PROVE k[b] \notin Selected
      <4>1. r[b] \notin Selected
        BY Zenon, <1>2, <3>1 DEF Of
      <4>2. k[a] \notin Selected
        BY Zenon DEF Selected
      <4> QED BY Zenon, <1>r, <4>1, <4>2
    <3>2. ASSUME NEW b \in Ann, b[2] = a[2], k[b] = "ready" PROVE FALSE
      <4>1. PICK c \in Ann : c[2] = b[2] /\ k[c] \in Selected
        BY Zenon, <3>2 DEF Sane
      <4> QED BY Zenon, <3>1, <3>2, <4>1
    <3> QED BY Zenon, <3>1, <3>2
  <2>3. /\ new \in [Ann -> State] /\ new[a] = "best"
        /\ \A b \in Ann : b # a => new[b] = k[b]
    BY Zenon, <1>r, <2>1 DEF Modify, State
  <2> HIDE DEF r, new
  <2> QED BY <2>2, <2>3 DEF Sane, Selected
<1>3. CASE /\ better = {} /\ Of(r, a[2], Selected) # {}
           /\ top # {} /\ \A b \in top : Priority[a] > Priority[b]
  <2>1. PICK c \in Ann : c # a /\ c[2] = a[2] /\ k[c] = "best" /\ Priority[a] > Priority[c]
    BY <1>3, <1>r DEF Of
  <2>2. \A b \in Ann : b \in top <=> b = c
    <3>1. c \in top
      BY Zenon, <1>r, <2>1 DEF Of
    <3>2. ASSUME NEW b \in Ann, b \in top PROVE b = c
      <4>1. b # a /\ b[2] = a[2] /\ k[b] = "best"
        BY <1>r, <3>2 DEF Of
      <4> QED BY <2>1, <4>1 DEF Sane, Selected
    <3> HIDE DEF top
    <3> QED BY Zenon, <3>1, <3>2
  <2>3. new = [b \in Ann |-> IF b = a THEN "best" ELSE IF b \in top THEN "ready" ELSE r[b]]
    BY Zenon, <1>3 DEF PromoteCandidateReady
  <2>4. /\ new \in [Ann -> State] /\ new[a] = "best" /\ new[c] = "ready"
        /\ \A b \in Ann : b # a /\ b # c => new[b] = k[b]
    BY <1>r, <2>1, <2>2, <2>3 DEF State
  <2> HIDE DEF r, new
  <2> QED BY <2>1, <2>4, Priorities DEF Sane, Selected
<1>4. CASE /\ better = {} /\ Of(r, a[2], Selected) # {}
           /\ ~(top # {} /\ \A b \in top : Priority[a] > Priority[b])
  <2>1. new = r
    BY Zenon, <1>4 DEF PromoteCandidateReady
  <2>2. PICK c \in Ann : c # a /\ c[2] = a[2] /\ k[c] \in Selected
    BY <1>4, <1>r DEF Of, Selected
  <2>3. k[c] = "best" => Priority[c] > Priority[a]
    <3>1. k[c] = "best" => c \in top /\ \A b \in top : b = c
      <4>1. k[c] = "best" => c \in top
        BY Zenon, <1>r, <2>2 DEF Of
      <4>2. ASSUME NEW b \in top, k[c] = "best" PROVE b = c
        <5>1. b \in Ann /\ b # a /\ b[2] = c[2] /\ k[b] = "best"
          BY <1>r, <2>2 DEF Of
        <5> QED BY Zenon, <4>2, <5>1 DEF Sane, Selected
      <4> HIDE DEF top
      <4> QED BY Zenon, <4>1, <4>2
    <3> HIDE DEF top, better, r
    <3> QED BY <1>4, <2>2, <3>1, Priorities
  <2> HIDE DEF r, new
  <2> QED BY <1>r, <2>1, <2>2, <2>3, Priorities DEF Sane, Selected
<1> QED BY Zenon, <1>1, <1>2, <1>3, <1>4

\* An announcement that is selected gives its turn to the best candidate.
LEMMA ReselectKeeps ==
  ASSUME NEW k, Sane(k), NEW a \in Ann, NEW s \in {"delayed", "completed"},
         s = "completed" =>
           \E b \in Ann : b # a /\ b[2] = a[2] /\ k[b] \notin {"none", "completed"}
  PROVE  /\ Sane(ChangeAndReselect(k, a, s))
         /\ ChangeAndReselect(k, a, s)[a] = s
         /\ \A b \in Ann : b # a /\ k[b] \notin {"none", "completed"} =>
              ChangeAndReselect(k, a, s)[b] \notin {"none", "completed"}
<1> DEFINE ready == Of(k, a[2], {"ready"})
           new == ChangeAndReselect(k, a, s)
<1> SUFFICES /\ Sane(new) /\ new[a] = s
             /\ \A b \in Ann : b # a /\ k[b] \notin {"none", "completed"} =>
                  new[b] \notin {"none", "completed"}
  BY Zenon
<1>1. CASE k[a] \in Selected /\ ready # {}
  <2> DEFINE c == Highest(ready)
  <2>1. c \in ready /\ \A b \in ready : Priority[b] <= Priority[c]
    BY <1>1, HighestFound DEF Of
  <2>2. c \in Ann /\ c[2] = a[2] /\ k[c] = "ready" /\ c # a
    BY Zenon, <1>1, <2>1 DEF Of, Selected
  <2>3. new = Modify(Modify(k, c, "best"), a, s)
    BY Zenon, <1>1 DEF ChangeAndReselect
  <2>4. /\ new \in [Ann -> State] /\ new[a] = s /\ new[c] = "best"
        /\ \A b \in Ann : b # a /\ b # c => new[b] = k[b]
    BY <2>2, <2>3 DEF Modify, Sane, State
  <2>5. \A b \in Ann : b[2] = a[2] /\ k[b] = "ready" /\ b # c => Priority[c] > Priority[b]
    <3>1. \A b \in Ann : b[2] = a[2] /\ k[b] = "ready" => Priority[b] <= Priority[c]
      BY Zenon, <2>1 DEF Of
    <3> HIDE DEF c
    <3> QED BY <2>2, <3>1, Priorities
  <2>6. \A b \in Ann : b[2] = a[2] /\ b # a => k[b] \notin Selected
    BY Zenon, <1>1 DEF Sane
  <2> HIDE DEF c, new, ready
  <2> QED BY <2>2, <2>4, <2>5, <2>6 DEF Sane, Selected
<1>2. CASE ~(k[a] \in Selected /\ ready # {})
  <2>1. new = Modify(k, a, s)
    BY Zenon, <1>2 DEF ChangeAndReselect
  <2>2. /\ new \in [Ann -> State] /\ new[a] = s
        /\ \A b \in Ann : b # a => new[b] = k[b]
    BY <2>1 DEF Modify, Sane, State
  <2>3. \A b \in Ann : b[2] = a[2] /\ k[b] = "ready" => k[a] \notin Selected
    BY Zenon, <1>2 DEF Of
  <2> HIDE DEF new, ready
  <2> QED BY <2>2, <2>3 DEF Sane, Selected
<1> QED BY Zenon, <1>1, <1>2

\* A transaction is forgotten with all its announcements.
LEMMA EraseKeeps ==
  ASSUME NEW k, Sane(k), NEW T
  PROVE  Sane(EraseAll(k, {a \in Ann : a[2] \in T}))
<1> DEFINE new == EraseAll(k, {a \in Ann : a[2] \in T})
<1>1. /\ new \in [Ann -> State]
      /\ \A a \in Ann : new[a] = IF a[2] \in T THEN "none" ELSE k[a]
  BY DEF EraseAll, Sane, State
<1> HIDE DEF new
<1>2. Sane(new)
  BY <1>1 DEF Sane, Selected
<1> QED BY Zenon, <1>2 DEF new

\* The announcements that the last open one takes with it are all of the transaction.
LEMMA EraseLast ==
  ASSUME NEW k, Sane(k), NEW t
  PROVE  Sane(EraseAll(k, Of(k, t, State \ {"none"})))
<1>1. EraseAll(k, Of(k, t, State \ {"none"})) = EraseAll(k, {a \in Ann : a[2] \in {t}})
  BY DEF EraseAll, Of, Sane
<1> QED BY Zenon, <1>1, EraseKeeps

\* There is another open announcement of the transaction, or this is the last one.
LEMMA LastOrNot ==
  ASSUME NEW k, Sane(k), NEW a \in Ann, ~IsOnlyNonCompleted(k, a),
         k[a] # "completed", k[a] # "none"
  PROVE  \E b \in Ann : b # a /\ b[2] = a[2] /\ k[b] \notin {"none", "completed"}
  BY DEF IsOnlyNonCompleted, Of, Sane

\* A request that was answered, or has expired.
LEMMA CompleteKeeps ==
  ASSUME NEW k, Sane(k), NEW a \in Ann, k[a] # "none"
  PROVE  Sane(MakeCompleted(k, a))
<1>1. CASE k[a] = "completed"
  BY Zenon, <1>1 DEF MakeCompleted
<1>2. CASE k[a] # "completed" /\ IsOnlyNonCompleted(k, a)
  BY Zenon, <1>2, EraseLast DEF MakeCompleted
<1>3. CASE k[a] # "completed" /\ ~IsOnlyNonCompleted(k, a)
  <2>1. \E b \in Ann : b # a /\ b[2] = a[2] /\ k[b] \notin {"none", "completed"}
    BY Zenon, <1>3, LastOrNot
  <2> QED BY Zenon, <1>3, <2>1, ReselectKeeps DEF MakeCompleted
<1> QED BY Zenon, <1>1, <1>2, <1>3

\* The delay of an announcement, or its request, ends (Pass).
LEMMA PassKeeps ==
  ASSUME NEW k, Sane(k), NEW a \in Ann
  PROVE  Sane(Pass(a, k))
<1>1. CASE k[a] = "delayed"
  BY Zenon, <1>1, PromoteKeeps DEF Pass
<1>2. CASE k[a] = "requested"
  BY Zenon, <1>2, CompleteKeeps DEF Pass
<1>3. CASE k[a] # "delayed" /\ k[a] # "requested"
  BY Zenon, <1>3 DEF Pass
<1> QED BY Zenon, <1>1, <1>2, <1>3

\* An announcement that is put off again.
LEMMA PutOffKeeps ==
  ASSUME NEW k, Sane(k), NEW a \in Ann
  PROVE  Sane(PutOff(a, k))
  BY Zenon, ReselectKeeps DEF PutOff

\* An announcement of a peer that leaves is completed, and then erased.
Leave(a, k) == Modify(MakeCompleted(k, a), a, "none")

\* DisconnectedPeer, for one announcement.
LEMMA LeaveKeeps ==
  ASSUME NEW k, Sane(k), NEW a \in Ann
  PROVE  Sane(Leave(a, k))
<1>1. ASSUME NEW j, Sane(j),
             j[a] \in {"none", "completed"}
      PROVE  Sane(Modify(j, a, "none"))
  <2> DEFINE new == Modify(j, a, "none")
  <2>1. /\ new \in [Ann -> State] /\ new[a] = "none"
        /\ \A b \in Ann : b # a => new[b] = j[b]
    BY <1>1 DEF Modify, Sane, State
  <2> HIDE DEF new
  <2>2. Sane(new)
    BY <1>1, <2>1 DEF Sane, Selected
  <2> QED BY Zenon, <2>2 DEF new
<1>2. CASE k[a] = "completed"
  BY Zenon, <1>1, <1>2 DEF MakeCompleted, Leave
<1>3. CASE k[a] # "completed" /\ IsOnlyNonCompleted(k, a)
  <2>1. MakeCompleted(k, a) = EraseAll(k, Of(k, a[2], State \ {"none"}))
    BY Zenon, <1>3 DEF MakeCompleted
  <2>2. EraseAll(k, Of(k, a[2], State \ {"none"}))[a] = "none"
    BY DEF EraseAll, Of, Sane
  <2> QED BY Zenon, <1>1, <2>1, <2>2, EraseLast DEF Leave
<1>4. CASE k[a] # "completed" /\ ~IsOnlyNonCompleted(k, a) /\ k[a] # "none"
  <2>1. MakeCompleted(k, a) = ChangeAndReselect(k, a, "completed")
    BY Zenon, <1>4 DEF MakeCompleted
  <2>2. \E b \in Ann : b # a /\ b[2] = a[2] /\ k[b] \notin {"none", "completed"}
    BY Zenon, <1>4, LastOrNot
  <2>3. /\ Sane(ChangeAndReselect(k, a, "completed"))
        /\ ChangeAndReselect(k, a, "completed")[a] = "completed"
    BY Zenon, <2>2, ReselectKeeps
  <2> QED BY Zenon, <1>1, <2>1, <2>3 DEF Leave
<1>5. CASE k[a] = "none" /\ ~IsOnlyNonCompleted(k, a)
  <2>1. MakeCompleted(k, a) = Modify(k, a, "completed")
    BY Zenon, <1>5 DEF MakeCompleted, ChangeAndReselect, Selected
  <2>2. Modify(MakeCompleted(k, a), a, "none") = k
    BY <1>5, <2>1 DEF Modify, Sane
  <2> QED BY Zenon, <2>2 DEF Leave
<1> QED BY Zenon, <1>2, <1>3, <1>4, <1>5

\* SetTimePoint's first loop.
LEMMA PassAll ==
  ASSUME NEW k, Sane(k), NEW A \in SUBSET Ann, IsFiniteSet(A)
  PROVE  Sane(FoldSet(Pass, k, A))
<1> DEFINE U == {j \in [Ann -> State] : Sane(j)}
           pick == [s \in SUBSET A |-> CHOOSE x \in s : TRUE]
           step == [z \in A \X U |-> Pass(z[1], z[2])]
           IsFold(g) == g = [s \in SUBSET A |-> IF s = {} THEN k
                               ELSE Pass(CHOOSE x \in s : TRUE, g[s \ {CHOOSE x \in s : TRUE}])]
<1>1. FoldSet(Pass, k, A) = (CHOOSE g : IsFold(g))[A]
  BY Zenon DEF FoldSet, MapThenFoldSet
<1>2. \A a \in A, j \in U : Pass(a, j) \in U
  BY Zenon, PassKeeps DEF Sane
<1>3. step \in [A \X U -> U] /\ k \in U
  BY <1>2 DEF Sane
<1>4. Picks(pick, A)
  <2>1. \A s \in (SUBSET A) \ {{}} : (CHOOSE x \in s : TRUE) \in s
    BY Zenon
  <2> QED BY Zenon, <2>1 DEF Picks
<1>5. PICK f : Folding(f, A, U, k, step, pick)
  <2> HIDE DEF U, pick, step
  <2> QED BY Zenon, <1>3, <1>4, RecursionOnSubsets
<1>6. IsFold(f)
  <2>1. f \in [SUBSET A -> U] /\ f[{}] = k
    BY Zenon, <1>5 DEF Folding
  <2>2. ASSUME NEW s \in SUBSET A, s # {}
        PROVE  f[s] = Pass(CHOOSE x \in s : TRUE, f[s \ {CHOOSE x \in s : TRUE}])
    <3> DEFINE x == CHOOSE x \in s : TRUE
    <3>1. x \in s /\ x \in A /\ pick[s] = x /\ f[s \ {x}] \in U
      BY Zenon, <2>1, <2>2
    <3>2. f[s] = step[<<x, f[s \ {x}]>>]
      <4>1. s \in (SUBSET A) \ {{}}
        BY <2>2
      <4>2. f[s] = step[<<pick[s], f[s \ {pick[s]}]>>]
        <5> HIDE DEF step, pick
        <5> QED BY Zenon, <1>5, <4>1 DEF Folding
      <4> QED BY Zenon, <3>1, <4>2
    <3> HIDE DEF x, U
    <3> QED BY <3>1, <3>2
  <2> HIDE DEF U
  <2> QED BY Zenon, <2>1, <2>2
<1>7. PICK g : IsFold(g) /\ g = CHOOSE h : IsFold(h)
  <2> HIDE DEF IsFold
  <2> QED BY Zenon, <1>6
<1>8. A \in {s \in SUBSET A : g[s] \in U}
  <2> DEFINE T == {s \in SUBSET A : g[s] \in U}
  <2>1. {} \in T
    BY Zenon, <1>3, <1>7
  <2>2. ASSUME NEW s \in (SUBSET A) \ {{}}, s \ {pick[s]} \in T
        PROVE  s \in T
    <3>1. g[s] = Pass(pick[s], g[s \ {pick[s]}]) /\ pick[s] \in A
      BY Zenon, <1>4, <1>7 DEF Picks
    <3> HIDE DEF pick, U
    <3> QED BY Zenon, <1>2, <2>2, <3>1
  <2>3. SUBSET A \subseteq T
    <3> HIDE DEF T, pick
    <3> QED BY <1>4, <2>1, <2>2, SubsetInduction
  <2> QED BY Zenon, <2>3
<1> QED BY Zenon, <1>1, <1>7, <1>8

\* SetTimePoint's second loop.
LEMMA PutOffAll ==
  ASSUME NEW k, Sane(k), NEW A \in SUBSET Ann, IsFiniteSet(A)
  PROVE  Sane(FoldSet(PutOff, k, A))
<1> DEFINE U == {j \in [Ann -> State] : Sane(j)}
           pick == [s \in SUBSET A |-> CHOOSE x \in s : TRUE]
           step == [z \in A \X U |-> PutOff(z[1], z[2])]
           IsFold(g) == g = [s \in SUBSET A |-> IF s = {} THEN k
                               ELSE PutOff(CHOOSE x \in s : TRUE, g[s \ {CHOOSE x \in s : TRUE}])]
<1>1. FoldSet(PutOff, k, A) = (CHOOSE g : IsFold(g))[A]
  BY Zenon DEF FoldSet, MapThenFoldSet
<1>2. \A a \in A, j \in U : PutOff(a, j) \in U
  BY Zenon, PutOffKeeps DEF Sane
<1>3. step \in [A \X U -> U] /\ k \in U
  BY <1>2 DEF Sane
<1>4. Picks(pick, A)
  <2>1. \A s \in (SUBSET A) \ {{}} : (CHOOSE x \in s : TRUE) \in s
    BY Zenon
  <2> QED BY Zenon, <2>1 DEF Picks
<1>5. PICK f : Folding(f, A, U, k, step, pick)
  <2> HIDE DEF U, pick, step
  <2> QED BY Zenon, <1>3, <1>4, RecursionOnSubsets
<1>6. IsFold(f)
  <2>1. f \in [SUBSET A -> U] /\ f[{}] = k
    BY Zenon, <1>5 DEF Folding
  <2>2. ASSUME NEW s \in SUBSET A, s # {}
        PROVE  f[s] = PutOff(CHOOSE x \in s : TRUE, f[s \ {CHOOSE x \in s : TRUE}])
    <3> DEFINE x == CHOOSE x \in s : TRUE
    <3>1. x \in s /\ x \in A /\ pick[s] = x /\ f[s \ {x}] \in U
      BY Zenon, <2>1, <2>2
    <3>2. f[s] = step[<<x, f[s \ {x}]>>]
      <4>1. s \in (SUBSET A) \ {{}}
        BY <2>2
      <4>2. f[s] = step[<<pick[s], f[s \ {pick[s]}]>>]
        <5> HIDE DEF step, pick
        <5> QED BY Zenon, <1>5, <4>1 DEF Folding
      <4> QED BY Zenon, <3>1, <4>2
    <3> HIDE DEF x, U
    <3> QED BY <3>1, <3>2
  <2> HIDE DEF U
  <2> QED BY Zenon, <2>1, <2>2
<1>7. PICK g : IsFold(g) /\ g = CHOOSE h : IsFold(h)
  <2> HIDE DEF IsFold
  <2> QED BY Zenon, <1>6
<1>8. A \in {s \in SUBSET A : g[s] \in U}
  <2> DEFINE T == {s \in SUBSET A : g[s] \in U}
  <2>1. {} \in T
    BY Zenon, <1>3, <1>7
  <2>2. ASSUME NEW s \in (SUBSET A) \ {{}}, s \ {pick[s]} \in T
        PROVE  s \in T
    <3>1. g[s] = PutOff(pick[s], g[s \ {pick[s]}]) /\ pick[s] \in A
      BY Zenon, <1>4, <1>7 DEF Picks
    <3> HIDE DEF pick, U
    <3> QED BY Zenon, <1>2, <2>2, <3>1
  <2>3. SUBSET A \subseteq T
    <3> HIDE DEF T, pick
    <3> QED BY <1>4, <2>1, <2>2, SubsetInduction
  <2> QED BY Zenon, <2>3
<1> QED BY Zenon, <1>1, <1>7, <1>8

\* DisconnectedPeer's loop.
LEMMA LeaveAll ==
  ASSUME NEW k, Sane(k), NEW A \in SUBSET Ann, IsFiniteSet(A)
  PROVE  Sane(FoldSet(LAMBDA a, j : Modify(MakeCompleted(j, a), a, "none"), k, A))
<1> DEFINE U == {j \in [Ann -> State] : Sane(j)}
           pick == [s \in SUBSET A |-> CHOOSE x \in s : TRUE]
           step == [z \in A \X U |-> Leave(z[1], z[2])]
           IsFold(g) == g = [s \in SUBSET A |-> IF s = {} THEN k
                               ELSE Leave(CHOOSE x \in s : TRUE, g[s \ {CHOOSE x \in s : TRUE}])]
<1>1. FoldSet(LAMBDA a, j : Modify(MakeCompleted(j, a), a, "none"), k, A) = (CHOOSE g : IsFold(g))[A]
  BY Zenon DEF FoldSet, MapThenFoldSet, Leave
<1>2. \A a \in A, j \in U : Leave(a, j) \in U
  BY Zenon, LeaveKeeps DEF Sane
<1>3. step \in [A \X U -> U] /\ k \in U
  BY <1>2 DEF Sane
<1>4. Picks(pick, A)
  <2>1. \A s \in (SUBSET A) \ {{}} : (CHOOSE x \in s : TRUE) \in s
    BY Zenon
  <2> QED BY Zenon, <2>1 DEF Picks
<1>5. PICK f : Folding(f, A, U, k, step, pick)
  <2> HIDE DEF U, pick, step
  <2> QED BY Zenon, <1>3, <1>4, RecursionOnSubsets
<1>6. IsFold(f)
  <2>1. f \in [SUBSET A -> U] /\ f[{}] = k
    BY Zenon, <1>5 DEF Folding
  <2>2. ASSUME NEW s \in SUBSET A, s # {}
        PROVE  f[s] = Leave(CHOOSE x \in s : TRUE, f[s \ {CHOOSE x \in s : TRUE}])
    <3> DEFINE x == CHOOSE x \in s : TRUE
    <3>1. x \in s /\ x \in A /\ pick[s] = x /\ f[s \ {x}] \in U
      BY Zenon, <2>1, <2>2
    <3>2. f[s] = step[<<x, f[s \ {x}]>>]
      <4>1. s \in (SUBSET A) \ {{}}
        BY <2>2
      <4>2. f[s] = step[<<pick[s], f[s \ {pick[s]}]>>]
        <5> HIDE DEF step, pick
        <5> QED BY Zenon, <1>5, <4>1 DEF Folding
      <4> QED BY Zenon, <3>1, <4>2
    <3> HIDE DEF x, U
    <3> QED BY <3>1, <3>2
  <2> HIDE DEF U
  <2> QED BY Zenon, <2>1, <2>2
<1>7. PICK g : IsFold(g) /\ g = CHOOSE h : IsFold(h)
  <2> HIDE DEF IsFold
  <2> QED BY Zenon, <1>6
<1>8. A \in {s \in SUBSET A : g[s] \in U}
  <2> DEFINE T == {s \in SUBSET A : g[s] \in U}
  <2>1. {} \in T
    BY Zenon, <1>3, <1>7
  <2>2. ASSUME NEW s \in (SUBSET A) \ {{}}, s \ {pick[s]} \in T
        PROVE  s \in T
    <3>1. g[s] = Leave(pick[s], g[s \ {pick[s]}]) /\ pick[s] \in A
      BY Zenon, <1>4, <1>7 DEF Picks
    <3> HIDE DEF pick, U
    <3> QED BY Zenon, <1>2, <2>2, <3>1
  <2>3. SUBSET A \subseteq T
    <3> HIDE DEF T, pick
    <3> QED BY <1>4, <2>1, <2>2, SubsetInduction
  <2> QED BY Zenon, <2>3
<1> QED BY Zenon, <1>1, <1>7, <1>8

\* Announcements that wait for a request, and the requests of one round.
LEMMA RequestKeeps ==
  ASSUME NEW k, Sane(k), NEW p \in TxPeer, NEW T \in SUBSET Tx,
         \A t \in T : k[<<p, t>>] = "best"
  PROVE  Sane(RequestedTx(k, p, T))
<1> DEFINE new == RequestedTx(k, p, T)
<1>1. /\ new \in [Ann -> State]
      /\ \A a \in Ann : new[a] = IF a[1] = p /\ a[2] \in T THEN "requested" ELSE k[a]
  BY DEF RequestedTx, Sane, State
<1>2. \A a \in Ann : a[1] = p /\ a[2] \in T => k[a] = "best"
  BY DEF Ann
<1>3. /\ new \in [Ann -> State]
      /\ \A a \in Ann : new[a] = k[a] \/ (k[a] = "best" /\ new[a] = "requested")
  BY Zenon, <1>1, <1>2
<1> HIDE DEF new
<1>4. Sane(new)
  BY <1>3 DEF Sane, Selected
<1> QED BY Zenon, <1>4 DEF new

\* A new announcement waits.
LEMMA AnnounceKeeps ==
  ASSUME NEW k, Sane(k), NEW p \in TxPeer, NEW t \in Tx
  PROVE  Sane(AddTxAnnouncement(k, p, t))
<1>1. CASE Ignored(k, p, t)
  BY Zenon, <1>1 DEF AddTxAnnouncement
<1>2. CASE ~Ignored(k, p, t)
  <2> DEFINE new == AddTxAnnouncement(k, p, t)
             a == <<p, t>>
  <2>1. new = [k EXCEPT ![a] = "delayed"] /\ k[a] = "none"
    BY Zenon, <1>2 DEF AddTxAnnouncement, Ignored
  <2>2. a \in Ann
    BY DEF Ann
  <2>3. /\ new \in [Ann -> State] /\ new[a] = "delayed"
        /\ \A b \in Ann : b # a => new[b] = k[b]
    BY <2>1, <2>2 DEF Sane, State
  <2> HIDE DEF new, a
  <2>4. Sane(new)
    BY <2>1, <2>2, <2>3 DEF Sane, Selected
  <2> QED BY Zenon, <2>4 DEF new
<1> QED BY Zenon, <1>1, <1>2

\* The answer of a peer, asked for or not.
LEMMA ResponseKeeps ==
  ASSUME NEW k, Sane(k), NEW p \in TxPeer, NEW t \in Tx
  PROVE  Sane(ReceivedResponse(k, p, t))
<1>1. <<p, t>> \in Ann
  BY DEF Ann
<1> QED BY Zenon, <1>1, CompleteKeeps DEF ReceivedResponse

\* The clock is read.
LEMMA TimeKeeps ==
  ASSUME NEW k, Sane(k)
  PROVE  Sane(SetTimePoint(k))
<1> DEFINE due == {a \in Ann : k[a] \in Waiting /\ left[a] = 0}
           early == {a \in Ann : k[a] \in {"ready", "best"} /\ left[a] > 0}
<1>1. IsFiniteSet(Ann)
  BY Zenon, TrackerAssumption, FS_Product DEF Ann
<1>2. due \in SUBSET Ann /\ early \in SUBSET Ann
  BY Zenon
<1>3. SetTimePoint(k) = FoldSet(PutOff, FoldSet(Pass, k, due), early)
  BY Zenon DEF SetTimePoint
<1> HIDE DEF due, early
<1>4. IsFiniteSet(due) /\ IsFiniteSet(early)
  BY Zenon, <1>1, <1>2, FS_Subset
<1>5. Sane(FoldSet(Pass, k, due))
  BY Zenon, <1>2, <1>4, PassAll
<1> QED BY Zenon, <1>2, <1>3, <1>4, <1>5, PutOffAll

\* A peer leaves.
LEMMA DisconnectKeeps ==
  ASSUME NEW k, Sane(k), NEW p
  PROVE  Sane(DisconnectedPeer(k, p))
<1> DEFINE A == {a \in Ann : a[1] = p /\ k[a] # "none"}
<1>1. IsFiniteSet(Ann)
  BY Zenon, TrackerAssumption, FS_Product DEF Ann
<1>2. A \in SUBSET Ann
  BY Zenon
<1>3. DisconnectedPeer(k, p)
        = FoldSet(LAMBDA a, j : Modify(MakeCompleted(j, a), a, "none"), k, A)
  BY Zenon DEF DisconnectedPeer
<1> HIDE DEF A
<1>4. IsFiniteSet(A)
  BY Zenon, <1>1, <1>2, FS_Subset
<1> QED BY Zenon, <1>2, <1>3, <1>4, LeaveAll

\* The requests of SendMessages.
LEMMA RequestsKeep ==
  ASSUME Sane(tracker), NEW p \in TxPeer, NEW Have, RequestTxs(p, Have)
  PROVE  Sane(tracker')
<1> DEFINE k == SetTimePoint(tracker)
           gone == Requestable(k, p) \cap Have
           asked == Requestable(k, p) \ Have
<1>1. tracker' = RequestedTx(ForgetTxHash(k, gone), p, asked)
  BY Zenon DEF RequestTxs
<1>2. Sane(k)
  BY Zenon, TimeKeeps
<1>3. asked \in SUBSET Tx /\ \A t \in asked : k[<<p, t>>] = "best" /\ t \notin gone
  BY Zenon DEF Requestable
<1> HIDE DEF k, gone, asked
<1>4. Sane(ForgetTxHash(k, gone))
  BY Zenon, <1>2, EraseKeeps DEF ForgetTxHash
<1>5. \A t \in asked : ForgetTxHash(k, gone)[<<p, t>>] = "best"
  BY <1>3 DEF ForgetTxHash, EraseAll, Ann
<1> QED BY Zenon, <1>1, <1>3, <1>4, <1>5, RequestKeeps

\* A sane tracker passes the code's SanityCheck.
LEMMA SaneChecks == Sane(tracker) => SanityCheck
<1> SUFFICES ASSUME Sane(tracker), NEW t \in Tx
    PROVE  /\ Cardinality(Of(tracker, t, Selected)) <= 1
           /\ Of(tracker, t, {"ready"}) # {} => Of(tracker, t, Selected) # {}
           /\ \A a \in Of(tracker, t, {"best"}), b \in Of(tracker, t, {"ready"}) :
                Priority[a] > Priority[b]
           /\ Of(tracker, t, {"completed"}) # {}
                => Of(tracker, t, State \ {"none", "completed"}) # {}
  BY Zenon DEF SanityCheck
<1>1. Cardinality(Of(tracker, t, Selected)) <= 1
  <2>1. \A a, b \in Of(tracker, t, Selected) : a = b
    BY Zenon DEF Of, Sane
  <2>2. CASE Of(tracker, t, Selected) = {}
    BY <2>2, FS_EmptySet
  <2>3. CASE Of(tracker, t, Selected) # {}
    <3>1. PICK a : Of(tracker, t, Selected) = {a}
      BY Zenon, <2>1, <2>3
    <3> QED BY <3>1, FS_Singleton
  <2> QED BY Zenon, <2>2, <2>3
<1>2. ASSUME Of(tracker, t, {"ready"}) # {} PROVE Of(tracker, t, Selected) # {}
  <2>1. PICK a \in Ann : a[2] = t /\ tracker[a] = "ready"
    BY <1>2 DEF Of
  <2>2. PICK b \in Ann : b[2] = a[2] /\ tracker[b] \in Selected
    BY Zenon, <2>1 DEF Sane
  <2> QED BY Zenon, <2>1, <2>2 DEF Of
<1>3. \A a \in Of(tracker, t, {"best"}), b \in Of(tracker, t, {"ready"}) :
        Priority[a] > Priority[b]
  BY Zenon DEF Of, Sane
<1>4. ASSUME Of(tracker, t, {"completed"}) # {}
      PROVE  Of(tracker, t, State \ {"none", "completed"}) # {}
  <2>1. PICK a \in Ann : a[2] = t /\ tracker[a] = "completed"
    BY <1>4 DEF Of
  <2>2. PICK b \in Ann : b[2] = a[2] /\ tracker[b] \notin {"none", "completed"}
    BY Zenon, <2>1 DEF Sane
  <2>3. b \in Of(tracker, t, State \ {"none", "completed"})
    BY <2>1, <2>2 DEF Of, Sane
  <2> QED BY Zenon, <2>3
<1> QED BY Zenon, <1>1, <1>2, <1>3, <1>4
=============================================================================
