---------------------------- MODULE RewriteProofs ----------------------------
(***************************************************************************)
(* What interceptors rewrite: container configurations, Dockerfiles with   *)
(* the output of their builds, and startup scripts of shells, for any      *)
(* ports, Dockerfiles, shells, calls and edits. Files, environments and    *)
(* outputs are sequences of any length: what the loops over them compute   *)
(* is shown by induction over sets of numbers.                             *)
(***************************************************************************)
EXTENDS ContainerConfig, DockerBuild, ShellScripts, Integers, FunctionTheorems, FiniteSetTheorems,
        SequenceTheorems, WellFoundedInduction, TLAPS

(***************************************************************************)
(* Induction, and what it shows of recursive functions.                    *)
(***************************************************************************)

\* Induction over the numbers, for a set: there is a least number outside of one that is not Nat.
LEMMA NatSetInduction ==
    ASSUME NEW T, 0 \in T, \A n \in Nat : n \in T => n + 1 \in T
    PROVE  Nat \subseteq T
<1> SUFFICES ASSUME ~(Nat \subseteq T) PROVE FALSE
  OBVIOUS
<1> DEFINE U == Nat \ T
           R == OpToRel(<, Nat)
<1>1. U \subseteq Nat /\ U # {}
  OBVIOUS
<1>2. PICK x \in U : \A y \in U : ~(<<y, x>> \in R)
  BY <1>1, NatLessThanWellFounded, WFMin
<1>3. x # 0 /\ x \in Nat
  OBVIOUS
<1>4. x - 1 \in Nat /\ (x - 1) + 1 = x
  BY <1>3
<1>5. x - 1 \in U
  BY <1>4
<1>6. <<x - 1, x>> \in R
  BY <1>3, <1>4 DEF OpToRel
<1> QED BY <1>2, <1>5, <1>6

\* A function can be defined by its first value and by what follows from the one before.
IsRecursion(n, V, base, next) ==
    /\ n \in Nat /\ base \in V
    /\ \A i \in 1..n, v \in V : next[<<i, v>>] \in V

Recurses(f, n, V, base, next) ==
    /\ f \in [0..n -> V]
    /\ f[0] = base /\ \A i \in 1..n : f[i] = next[<<i, f[i - 1]>>]

\* A recursive function exists: the sets of pairs that are closed under the recursion have a least
\* one, and induction shows that it is a function.
LEMMA RecursionDefines ==
    ASSUME NEW n, NEW V, NEW base, NEW next, IsRecursion(n, V, base, next)
    PROVE  \E f : Recurses(f, n, V, base, next)
<1>n. n \in Nat /\ base \in V /\ \A i \in 1..n, v \in V : next[<<i, v>>] \in V
  BY DEF IsRecursion
<1> DEFINE Defined(k) ==
               \E f \in [0..k -> V] : f[0] = base /\ \A i \in 1..k : f[i] = next[<<i, f[i - 1]>>]
           T == {k \in Nat : k <= n => Defined(k)}
<1>1. 0 \in T
  <2>1. [i \in 0..0 |-> base] \in [0..0 -> V]
    BY <1>n
  <2>2. Defined(0)
    <3> DEFINE z == [i \in 0..0 |-> base]
    <3>1. z[0] = base /\ 1..0 = {}
      OBVIOUS
    <3> HIDE DEF z
    <3> QED BY <3>1, <2>1 DEF z
  <2> QED BY <2>2
<1>2. ASSUME NEW k \in Nat, k \in T PROVE k + 1 \in T
  <2> SUFFICES ASSUME k + 1 <= n PROVE Defined(k + 1)
    OBVIOUS
  <2>1. PICK f \in [0..k -> V] : f[0] = base /\ \A i \in 1..k : f[i] = next[<<i, f[i - 1]>>]
    BY <1>2, <1>n
  <2> DEFINE g == [i \in 0..(k + 1) |-> IF i = k + 1 THEN next[<<k + 1, f[k]>>] ELSE f[i]]
  <2>2. f[k] \in V /\ k + 1 \in 1..n
    BY <2>1, <1>n
  <2>3. next[<<k + 1, f[k]>>] \in V
    BY <2>2, <1>n
  <2>4. g \in [0..(k + 1) -> V]
    BY <2>1, <2>3
  <2>5. g[0] = base
    BY <2>1
  <2>6. ASSUME NEW i \in 1..(k + 1) PROVE g[i] = next[<<i, g[i - 1]>>]
    <3>1. CASE i = k + 1
      <4>1. k + 1 \in 0..(k + 1) /\ k \in 0..(k + 1) /\ k # k + 1 /\ i - 1 = k
        BY <3>1
      <4>2. g[k + 1] = next[<<k + 1, f[k]>>] /\ g[k] = f[k]
        BY <4>1
      <4> QED BY <3>1, <4>1, <4>2
    <3>2. CASE i # k + 1
      <4>1. i \in 1..k /\ i - 1 \in 0..(k + 1) /\ i - 1 # k + 1 /\ i \in 0..(k + 1)
        BY <3>2
      <4>2. g[i] = f[i] /\ g[i - 1] = f[i - 1]
        BY <3>2, <4>1
      <4> QED BY <4>1, <4>2, <2>1
    <3> QED BY <3>1, <3>2
  <2> HIDE DEF g
  <2> QED BY <2>4, <2>5, <2>6
<1> HIDE DEF T
<1>3. Nat \subseteq T
  BY <1>1, <1>2, NatSetInduction
<1>4. n \in T
  BY <1>3, <1>n
<1>5. Defined(n)
  BY <1>4, <1>n DEF T
<1> QED BY <1>5 DEF Recurses

\* Induction up to a bound.
LEMMA BoundedInduction ==
    ASSUME NEW n \in Nat, NEW T, 0 \in T, \A i \in 1..n : i - 1 \in T => i \in T
    PROVE  0..n \subseteq T
<1> DEFINE U == {i \in Nat : i <= n => i \in T}
<1>1. 0 \in U
  OBVIOUS
<1>2. ASSUME NEW i \in Nat, i \in U PROVE i + 1 \in U
  <2> SUFFICES ASSUME i + 1 <= n PROVE i + 1 \in T
    OBVIOUS
  <2>1. i + 1 \in 1..n /\ (i + 1) - 1 = i /\ i \in T
    BY <1>2
  <2> QED BY <2>1
<1> HIDE DEF U
<1>3. Nat \subseteq U
  BY <1>1, <1>2, NatSetInduction
<1> QED BY <1>3 DEF U

\* The equations of Without.
WithoutSteps(s, x, f) ==
    /\ f[0] = <<>>
    /\ \A i \in 1..Len(s) : f[i] = IF s[i] # x THEN Append(f[i - 1], s[i]) ELSE f[i - 1]

\* Without is what its equations say.
LEMMA WithoutDefines ==
    ASSUME NEW S, NEW s \in Seq(S), NEW x
    PROVE  \E f \in [0..Len(s) -> Seq(S)] : WithoutSteps(s, x, f) /\ Without(s, x) = f[Len(s)]
<1> DEFINE n == Len(s)
           next == [p \in (1..n) \X Seq(S) |-> IF s[p[1]] # x THEN Append(p[2], s[p[1]]) ELSE p[2]]
           Def(g) == [m \in 0..n |-> CASE m = 0 -> <<>>
                                       [] m > 0 /\ s[m] # x -> Append(g[m - 1], s[m])
                                       [] OTHER -> g[m - 1]]
<1>1. n \in Nat /\ \A i \in 1..n : s[i] \in S
  BY LenProperties, ElementOfSeq
<1>2. \A i \in 1..n, v \in Seq(S) : next[<<i, v>>] = (IF s[i] # x THEN Append(v, s[i]) ELSE v) /\ next[<<i, v>>] \in Seq(S)
  BY <1>1
<1>3. <<>> \in Seq(S)
  OBVIOUS
<1>n. n = Len(s)
  OBVIOUS
<1> HIDE DEF next, n
<1>d. \E f : Recurses(f, n, Seq(S), <<>>, next)
  BY <1>1, <1>2, <1>3, RecursionDefines DEF IsRecursion
<1>4. PICK f \in [0..n -> Seq(S)] : f[0] = <<>> /\ \A i \in 1..n : f[i] = next[<<i, f[i - 1]>>]
  BY <1>d DEF Recurses
<1>5. ASSUME NEW i \in 1..n
      PROVE  f[i] = IF s[i] # x THEN Append(f[i - 1], s[i]) ELSE f[i - 1]
  <2>1. f[i - 1] \in Seq(S) /\ <<i, f[i - 1]>> \in (1..n) \X Seq(S)
    BY <1>1, <1>4
  <2> QED BY <2>1, <1>2, <1>4
<1>6. f = Def(f)
  <2>1. ASSUME NEW i \in 0..n PROVE f[i] = Def(f)[i]
    <3>1. CASE i = 0
      BY <3>1, <1>4
    <3>2. CASE i # 0
      <4>1. i \in 1..n
        BY <1>1, <3>2
      <4>2. f[i] = IF s[i] # x THEN Append(f[i - 1], s[i]) ELSE f[i - 1]
        BY <4>1, <1>5
      <4> QED BY <4>1, <4>2
    <3> QED BY <3>1, <3>2
  <2>2. f = [i \in 0..n |-> f[i]]
    BY <1>4
  <2> QED BY <2>1, <2>2
<1> DEFINE kept == CHOOSE g : g = Def(g)
<1>7. kept = Def(kept)
  BY <1>6
<1>8. Without(s, x) = kept[n]
  BY <1>n DEF Without, n
<1> HIDE DEF kept
<1>9. kept[0] = <<>> /\ \A i \in 1..n : kept[i] = IF s[i] # x THEN Append(kept[i - 1], s[i]) ELSE kept[i - 1]
  <2>1. \A m \in 0..n : kept[m] = CASE m = 0 -> <<>>
                                     [] m > 0 /\ s[m] # x -> Append(kept[m - 1], s[m])
                                     [] OTHER -> kept[m - 1]
    BY <1>7
  <2> QED BY <1>1, <2>1
<1>10. \A i \in 0..n : kept[i] \in Seq(S)
  <2> DEFINE T == {i \in 0..n : kept[i] \in Seq(S)}
  <2>1. 0 \in T
    <3>1. 0 \in 0..n
      BY <1>1
    <3> QED BY <3>1, <1>3, <1>9
  <2>2. ASSUME NEW i \in 1..n, i - 1 \in T PROVE i \in T
    <3>1. i \in 0..n /\ s[i] \in S /\ kept[i - 1] \in Seq(S)
      BY <1>1, <2>2
    <3>2. kept[i] = IF s[i] # x THEN Append(kept[i - 1], s[i]) ELSE kept[i - 1]
      BY <1>9
    <3> HIDE DEF Def
    <3>3. kept[i] \in Seq(S)
      BY <3>1, <3>2
    <3> QED BY <3>1, <3>3
  <2> HIDE DEF T
  <2>3. 0..n \subseteq T
    BY <1>1, <2>1, <2>2, BoundedInduction
  <2> QED BY <2>3 DEF T
<1>11. kept \in [0..n -> Seq(S)]
  <2>1. DOMAIN Def(kept) = 0..n
    OBVIOUS
  <2>2. kept = [i \in 0..n |-> kept[i]]
    BY <1>7, <2>1
  <2> QED BY <1>10, <2>2
<1> QED BY <1>8, <1>9, <1>11, <1>n DEF WithoutSteps
\* What is left over of a sequence has no x.
LEMMA WithoutLacks ==
    ASSUME NEW S, NEW s \in Seq(S), NEW x
    PROVE  Without(s, x) \in Seq(S) /\ \A i \in 1..Len(Without(s, x)) : Without(s, x)[i] # x
<1>1. PICK f \in [0..Len(s) -> Seq(S)] : WithoutSteps(s, x, f) /\ Without(s, x) = f[Len(s)]
  BY WithoutDefines
<1> DEFINE n == Len(s)
           T == {k \in 0..n : \A i \in 1..Len(f[k]) : f[k][i] # x}
<1>2. n \in Nat /\ \A i \in 1..n : s[i] \in S
  BY LenProperties, ElementOfSeq
<1>n. n = Len(s)
  OBVIOUS
<1> HIDE DEF n
<1>3. 0 \in T
  BY <1>1, <1>2 DEF WithoutSteps
<1>4. ASSUME NEW k \in 1..n, k - 1 \in T PROVE k \in T
  <2>1. f[k - 1] \in Seq(S) /\ k \in 0..n /\ s[k] \in S
    BY <1>1, <1>2, <1>n
  <2>2. f[k] = IF s[k] # x THEN Append(f[k - 1], s[k]) ELSE f[k - 1]
    BY <1>1, <1>n DEF WithoutSteps
  <2>3. \A i \in 1..Len(f[k - 1]) : f[k - 1][i] # x
    BY <1>4
  <2>4. \A i \in 1..Len(f[k]) : f[k][i] # x
    <3>1. CASE s[k] # x
      <4>1. f[k] = Append(f[k - 1], s[k])
        BY <3>1, <2>2
      <4> QED BY <4>1, <3>1, <2>1, <2>3
    <3>2. CASE s[k] = x
      BY <3>2, <2>2, <2>3
    <3> QED BY <3>1, <3>2
  <2> QED BY <2>1, <2>4
<1> HIDE DEF T
<1>5. 0..n \subseteq T
  BY <1>2, <1>3, <1>4, BoundedInduction
<1>6. n \in T /\ n \in 0..n
  BY <1>2, <1>5
<1> QED BY <1>1, <1>6, <1>n DEF T

\* The maximum of some of the first numbers.
LEMMA MaxOfSome ==
    ASSUME NEW n \in Nat, NEW S, S \subseteq 1..n, S # {}
    PROVE  Max(S) \in S /\ \A y \in S : y <= Max(S)
<1> DEFINE T == {k \in 0..n : \A U \in SUBSET (1..k) : U # {} => \E m \in U : \A y \in U : m >= y}
<1>1. 0 \in T
  <2>1. 1..0 = {} /\ 0 \in 0..n
    OBVIOUS
  <2> QED BY <2>1
<1>2. ASSUME NEW k \in 1..n, k - 1 \in T PROVE k \in T
  <2> SUFFICES ASSUME NEW U \in SUBSET (1..k), U # {} PROVE \E m \in U : \A y \in U : m >= y
    OBVIOUS
  <2>1. CASE k \in U
    BY <2>1
  <2>2. CASE k \notin U
    <3>1. U \in SUBSET (1..(k - 1))
      BY <2>2
    <3> QED BY <3>1, <1>2
  <2> QED BY <2>1, <2>2
<1> HIDE DEF T
<1>3. 0..n \subseteq T
  BY <1>1, <1>2, BoundedInduction
<1>4. n \in T
  BY <1>3
<1>5. \E m \in S : \A y \in S : m >= y
  BY <1>4 DEF T
<1>6. Max(S) \in S /\ \A y \in S : Max(S) >= y
  BY <1>5 DEF Max
<1> QED BY <1>6

\* SetToSeq lists every member of a finite set, and nothing else.
LEMMA SetToSeqListsIt ==
    ASSUME NEW S, IsFiniteSet(S)
    PROVE  /\ SetToSeq(S) \in Seq(S)
           /\ \A x \in S : \E i \in 1..Len(SetToSeq(S)) : SetToSeq(S)[i] = x
<1> DEFINE n == Cardinality(S)
<1>1. n \in Nat /\ ExistsBijection(1..n, S)
  BY FS_CardinalityType
<1>2. \E f \in [1..n -> S] : IsInjective(f)
  BY <1>1 DEF ExistsBijection, Bijection, Injection
<1>3. SetToSeq(S) \in [1..n -> S] /\ IsInjective(SetToSeq(S))
  BY <1>2 DEF SetToSeq
<1>4. SetToSeq(S) \in Injection(1..n, S)
  BY <1>3 DEF Injection
<1>5. IsFiniteSet(1..n) /\ Cardinality(1..n) = n
  BY <1>1, FS_Interval
<1>6. SetToSeq(S) \in Surjection(1..n, S)
  BY <1>4, <1>5, FS_Injection
<1>7. SetToSeq(S) \in Seq(S) /\ Len(SetToSeq(S)) = n
  BY <1>1, <1>3, SeqDef, LenProperties
<1> QED BY <1>6, <1>7 DEF Surjection

(***************************************************************************)
(* Containers: their configuration is that of the last port.               *)
(***************************************************************************)

Text == Port \cup {"overrides", "inherited", "prepend"}
Entry == [var : Variable, value : Seq(Text)]
Injected == Variable \ {"DOCKER_HOST"}

\* The last entry of a variable is the one that counts.
IsLast(env, v, k) ==
    /\ k \in 1..Len(env) /\ env[k].var = v
    /\ \A j \in 1..Len(env) : env[j].var = v => j <= k

\* Docker takes the last entry of a variable, or there is none.
LEMMA LookupIsLast ==
    ASSUME NEW env \in Seq(Entry), NEW v
    PROVE  \/ /\ \A j \in 1..Len(env) : env[j].var # v
              /\ Lookup(env, v) = <<>>
           \/ \E k : IsLast(env, v, k) /\ Lookup(env, v) = env[k].value
<1> DEFINE entries == {i \in DOMAIN env : env[i].var = v}
<1>1. Len(env) \in Nat /\ DOMAIN env = 1..Len(env)
  BY LenProperties
<1>2. CASE entries = {}
  BY <1>1, <1>2 DEF Lookup
<1>3. CASE entries # {}
  <2>1. entries \subseteq 1..Len(env)
    BY <1>1
  <2>2. Lookup(env, v) = env[Max(entries)].value
    BY <1>3 DEF Lookup
  <2> DEFINE k == Max(entries)
  <2>k. k = Max(entries)
    OBVIOUS
  <2> HIDE DEF entries, k
  <2>3. k \in entries /\ \A y \in entries : y <= k
    BY <2>k, <1>1, <1>3, <2>1, MaxOfSome
  <2>4. IsLast(env, v, k)
    BY <2>3, <1>1 DEF entries, IsLast
  <2> QED BY <2>2, <2>4 DEF k
<1> QED BY <1>2, <1>3

\* There is one last entry.
LEMMA LookupOfLast ==
    ASSUME NEW env \in Seq(Entry), NEW v, NEW k, IsLast(env, v, k)
    PROVE  Lookup(env, v) = env[k].value
<1>1. PICK l : IsLast(env, v, l) /\ Lookup(env, v) = env[l].value
  BY LookupIsLast DEF IsLast
<1>2. Len(env) \in Nat
  BY LenProperties
<1>3. k = l
  BY <1>1, <1>2 DEF IsLast
<1> QED BY <1>1, <1>3

\* Values are sequences of texts.
LEMMA LookupIsText ==
    ASSUME NEW env \in Seq(Entry), NEW v
    PROVE  Lookup(env, v) \in Seq(Text)
<1>1. ASSUME NEW k \in 1..Len(env) PROVE env[k].value \in Seq(Text)
  <2>1. env[k] \in Entry
    BY ElementOfSeq
  <2> QED BY <2>1 DEF Entry
<1>2. CASE Lookup(env, v) = <<>>
  BY <1>2
<1>3. ASSUME NEW k, IsLast(env, v, k), Lookup(env, v) = env[k].value PROVE Lookup(env, v) \in Seq(Text)
  <2>1. k \in 1..Len(env)
    BY <1>3 DEF IsLast
  <2> QED BY <2>1, <1>1, <1>3
<1> QED BY <1>2, <1>3, LookupIsLast

\* What is injected behind an environment wins.
LEMMA LookupOfBoth ==
    ASSUME NEW env \in Seq(Entry), NEW more \in Seq(Entry), NEW v
    PROVE  Lookup(env \o more, v) = IF \E j \in 1..Len(more) : more[j].var = v
                                    THEN Lookup(more, v) ELSE Lookup(env, v)
<1> DEFINE both == env \o more
<1>1. /\ both \in Seq(Entry) /\ Len(both) = Len(env) + Len(more)
      /\ Len(env) \in Nat /\ Len(more) \in Nat
      /\ \A i \in 1..Len(env) : both[i] = env[i]
      /\ \A i \in 1..Len(more) : both[Len(env) + i] = more[i]
      /\ \A i \in 1..Len(both) : i <= Len(env) \/ (i - Len(env) \in 1..Len(more) /\ both[i] = more[i - Len(env)])
  BY ConcatProperties, LenProperties
<1> HIDE DEF both
<1>2. CASE \E j \in 1..Len(more) : more[j].var = v
  <2>1. PICK k : IsLast(more, v, k) /\ Lookup(more, v) = more[k].value
    BY <1>2, LookupIsLast
  <2>2. k \in 1..Len(more) /\ more[k].var = v /\ \A j \in 1..Len(more) : more[j].var = v => j <= k
    BY <2>1 DEF IsLast
  <2>3. Len(env) + k \in 1..Len(both) /\ both[Len(env) + k] = more[k]
    BY <1>1, <2>2
  <2>4. ASSUME NEW i \in 1..Len(both), both[i].var = v PROVE i <= Len(env) + k
    <3>1. CASE i <= Len(env)
      BY <3>1, <1>1, <2>2
    <3>2. CASE i - Len(env) \in 1..Len(more) /\ both[i] = more[i - Len(env)]
      <4>1. i - Len(env) <= k
        BY <3>2, <2>2, <2>4
      <4> QED BY <4>1, <1>1, <2>2
    <3> QED BY <3>1, <3>2, <1>1
  <2>5. IsLast(both, v, Len(env) + k)
    BY <2>2, <2>3, <2>4 DEF IsLast
  <2>6. Lookup(both, v) = both[Len(env) + k].value
    BY <1>1, <2>5, LookupOfLast
  <2> QED BY <1>2, <2>1, <2>3, <2>6 DEF both
<1>3. CASE ~\E j \in 1..Len(more) : more[j].var = v
  <2>1. CASE \E k : IsLast(env, v, k) /\ Lookup(env, v) = env[k].value
    <3>1. PICK k : IsLast(env, v, k) /\ Lookup(env, v) = env[k].value
      BY <2>1
    <3>2. k \in 1..Len(env) /\ env[k].var = v /\ \A j \in 1..Len(env) : env[j].var = v => j <= k
      BY <3>1 DEF IsLast
    <3>3. k \in 1..Len(both) /\ both[k] = env[k]
      BY <1>1, <3>2
    <3>4. ASSUME NEW i \in 1..Len(both), both[i].var = v PROVE i <= k
      <4>1. i <= Len(env)
        BY <1>1, <1>3, <3>4
      <4>2. i \in 1..Len(env) /\ env[i].var = v
        BY <1>1, <3>4, <4>1
      <4> QED BY <4>2, <3>2
    <3>5. IsLast(both, v, k)
      BY <3>2, <3>3, <3>4 DEF IsLast
    <3>6. Lookup(both, v) = both[k].value
      BY <1>1, <3>5, LookupOfLast
    <3> QED BY <1>3, <3>1, <3>3, <3>6 DEF both
  <2>2. CASE /\ \A j \in 1..Len(env) : env[j].var # v
             /\ Lookup(env, v) = <<>>
    <3>1. \A j \in 1..Len(both) : both[j].var # v
      <4> SUFFICES ASSUME NEW j \in 1..Len(both), both[j].var = v PROVE FALSE
        OBVIOUS
      <4>1. j <= Len(env)
        BY <1>1, <1>3
      <4>2. j \in 1..Len(env) /\ env[j].var = v
        BY <1>1, <4>1
      <4> QED BY <4>2, <2>2
    <3>2. Lookup(both, v) = <<>>
      BY <1>1, <3>1, LookupIsLast DEF IsLast
    <3> QED BY <1>3, <2>2, <3>2 DEF both
  <2> QED BY <2>1, <2>2, LookupIsLast
<1> QED BY <1>2, <1>3

\* What is injected: an entry of every variable but DOCKER_HOST.
LEMMA VariablesAreInjected ==
    ASSUME NEW vars, DOMAIN vars = Injected, \A v \in Injected : vars[v] \in Seq(Text)
    PROVE  /\ EnvObjectToArray(vars) \in Seq(Entry)
           /\ \A i \in 1..Len(EnvObjectToArray(vars)) :
                  LET e == EnvObjectToArray(vars)[i] IN e.var \in Injected /\ e.value = vars[e.var]
           /\ \A v \in Injected : Lookup(EnvObjectToArray(vars), v) = vars[v]
<1> DEFINE entry == [v \in Injected |-> [var |-> v, value |-> vars[v]]]
           entries == {[var |-> v, value |-> vars[v]] : v \in Injected}
           array == EnvObjectToArray(vars)
<1>1. Injected = {"HTTP_PROXY", "PATH", "RUBYLIB", "NODE_OPTIONS", "JAVA_TOOL_OPTIONS"}
  BY DEF Injected, Variable
<1>2. IsFiniteSet(Injected)
  <2> DEFINE s0 == {}
             s1 == s0 \cup {"HTTP_PROXY"}
             s2 == s1 \cup {"PATH"}
             s3 == s2 \cup {"RUBYLIB"}
             s4 == s3 \cup {"NODE_OPTIONS"}
             s5 == s4 \cup {"JAVA_TOOL_OPTIONS"}
  <2>1. s5 = Injected
    BY <1>1
  <2> HIDE DEF s5
  <2>2. IsFiniteSet(s1)
    BY FS_EmptySet, FS_AddElement
  <2>3. IsFiniteSet(s2)
    BY <2>2, FS_AddElement
  <2>4. IsFiniteSet(s3)
    BY <2>3, FS_AddElement
  <2>5. IsFiniteSet(s4)
    BY <2>4, FS_AddElement
  <2>6. IsFiniteSet(s5)
    BY <2>5, FS_AddElement DEF s5
  <2> QED BY <2>1, <2>6
<1>3. entry \in Surjection(Injected, entries)
  BY DEF Surjection
<1>4. IsFiniteSet(entries)
  BY <1>2, <1>3, FS_Surjection
<1>5. array = SetToSeq(entries)
  BY DEF EnvObjectToArray
<1>6. entries \subseteq Entry
  BY <1>1 DEF Entry, Injected
<1> HIDE DEF array
<1>7. array \in Seq(entries) /\ \A e \in entries : \E i \in 1..Len(array) : array[i] = e
  BY <1>4, <1>5, SetToSeqListsIt
<1>8. array \in Seq(Entry)
  BY <1>6, <1>7, SeqMonotonic
<1>9. ASSUME NEW i \in 1..Len(array) PROVE array[i].var \in Injected /\ array[i].value = vars[array[i].var]
  <2>1. array[i] \in entries
    BY <1>7, ElementOfSeq
  <2> QED BY <2>1
<1>10. ASSUME NEW v \in Injected PROVE Lookup(array, v) = vars[v]
  <2>1. PICK i \in 1..Len(array) : array[i] = [var |-> v, value |-> vars[v]]
    BY <1>7
  <2>2. array[i].var = v
    BY <2>1
  <2>3. PICK k : IsLast(array, v, k) /\ Lookup(array, v) = array[k].value
    BY <1>8, <2>2, LookupIsLast
  <2>4. k \in 1..Len(array) /\ array[k].var = v
    BY <2>3 DEF IsLast
  <2> QED BY <1>9, <2>3, <2>4
<1> QED BY <1>8, <1>9, <1>10 DEF array

EnvOK(env) ==
    /\ env \in Seq(Entry)
    /\ \A i \in 1..Len(env) : env[i].var = "DOCKER_HOST" => env[i].value = <<"inherited">>
    /\ \A v \in {"PATH", "JAVA_TOOL_OPTIONS"} :
           (\E i \in 1..Len(env) : env[i].var = v /\ env[i].value = <<"inherited">>) =>
               \E i \in 1..Len(Lookup(env, v)) : Lookup(env, v)[i] = "inherited"

\* What is inherited.
LEMMA InheritedIsOK ==
    ASSUME NEW vs \in SUBSET Variable, IsFiniteSet(vs)
    PROVE  /\ Inherited(vs) \in Seq(Entry)
           /\ \A i \in 1..Len(Inherited(vs)) : Inherited(vs)[i].value = <<"inherited">>
<1> DEFINE entry == [v \in vs |-> [var |-> v, value |-> <<"inherited">>]]
           entries == {[var |-> v, value |-> <<"inherited">>] : v \in vs}
<1>1. entry \in Surjection(vs, entries)
  BY DEF Surjection
<1>2. IsFiniteSet(entries)
  BY <1>1, FS_Surjection
<1>3. Inherited(vs) = SetToSeq(entries)
  BY DEF Inherited
<1>4. <<"inherited">> \in Seq(Text)
  BY DEF Text
<1>5. entries \subseteq Entry
  <2> SUFFICES ASSUME NEW v \in vs PROVE [var |-> v, value |-> <<"inherited">>] \in Entry
    OBVIOUS
  <2>1. v \in Variable
    OBVIOUS
  <2> QED BY <1>4, <2>1 DEF Entry
<1>6. Inherited(vs) \in Seq(entries)
  BY <1>2, <1>3, SetToSeqListsIt
<1>7. ASSUME NEW i \in 1..Len(Inherited(vs)) PROVE Inherited(vs)[i].value = <<"inherited">>
  <2>1. Inherited(vs)[i] \in entries
    BY <1>6, ElementOfSeq
  <2> QED BY <2>1
<1> QED BY <1>5, <1>6, <1>7, SeqMonotonic

\* An environment of which everything is inherited is OK.
LEMMA AllInherited ==
    ASSUME NEW env \in Seq(Entry), \A i \in 1..Len(env) : env[i].value = <<"inherited">>
    PROVE  EnvOK(env)
<1>1. ASSUME NEW v, NEW i \in 1..Len(env), env[i].var = v
      PROVE  Lookup(env, v) = <<"inherited">>
  <2>1. PICK k : IsLast(env, v, k) /\ Lookup(env, v) = env[k].value
    BY <1>1, LookupIsLast
  <2> QED BY <2>1 DEF IsLast
<1>2. ASSUME NEW v \in {"PATH", "JAVA_TOOL_OPTIONS"}, NEW i \in 1..Len(env), env[i].var = v
      PROVE  \E j \in 1..Len(Lookup(env, v)) : Lookup(env, v)[j] = "inherited"
  <2>1. Lookup(env, v) = <<"inherited">>
    BY <1>1, <1>2
  <2> QED BY <2>1
<1> QED BY <1>2 DEF EnvOK

\* What a container is left with by an interception.
LEMMA EnvIsRewritten ==
    ASSUME NEW port \in Port, NEW env, EnvOK(env)
    PROVE  LET vars == GetTerminalEnvVars(port, env)
               new == env \o EnvObjectToArray(Restrict(vars, Variable \ {"DOCKER_HOST"}))
           IN  /\ EnvOK(new)
               /\ Lookup(new, "DOCKER_HOST") = Lookup(env, "DOCKER_HOST")
               /\ Lookup(new, "HTTP_PROXY") = <<port>>
               /\ Lookup(new, "PATH") = <<"overrides">> \o Lookup(env, "PATH")
               /\ Lookup(new, "JAVA_TOOL_OPTIONS") = Lookup(env, "JAVA_TOOL_OPTIONS") \o <<port>>
<1> DEFINE vars == GetTerminalEnvVars(port, env)
           some == Restrict(vars, Variable \ {"DOCKER_HOST"})
           array == EnvObjectToArray(some)
           new == env \o array
           path == Lookup(env, "PATH")
           java == Lookup(env, "JAVA_TOOL_OPTIONS")
<1>0. env \in Seq(Entry)
  BY DEF EnvOK
<1>1. Injected = {"HTTP_PROXY", "PATH", "RUBYLIB", "NODE_OPTIONS", "JAVA_TOOL_OPTIONS"}
  BY DEF Injected, Variable
<1>2. path \in Seq(Text) /\ java \in Seq(Text) /\ Lookup(env, "RUBYLIB") \in Seq(Text)
  BY <1>0, LookupIsText
<1>t. <<"overrides">> \in Seq(Text) /\ <<port>> \in Seq(Text) /\ <<"prepend">> \in Seq(Text)
  BY DEF Text
<1>3. DOMAIN some = Injected /\ \A v \in Injected : some[v] = vars[v]
  BY DEF Restrict, Injected
<1> HIDE DEF path, java
<1>4. /\ some["HTTP_PROXY"] = <<port>>
      /\ some["PATH"] = <<"overrides">> \o path
      /\ some["RUBYLIB"] = <<"overrides">> \o Lookup(env, "RUBYLIB")
      /\ some["NODE_OPTIONS"] = <<"prepend">>
      /\ some["JAVA_TOOL_OPTIONS"] = java \o <<port>>
  BY <1>1, <1>3 DEF GetTerminalEnvVars, Variable, path, java
<1>5. \A v \in Injected : some[v] \in Seq(Text)
  <2>1. \A s \in Seq(Text) : <<"overrides">> \o s \in Seq(Text) /\ s \o <<port>> \in Seq(Text)
    BY <1>t, ConcatProperties
  <2> QED BY <2>1, <1>1, <1>2, <1>4, <1>t
<1> HIDE DEF some
<1>6. /\ array \in Seq(Entry)
      /\ \A i \in 1..Len(array) : array[i].var \in Injected /\ array[i].value = some[array[i].var]
      /\ \A v \in Injected : Lookup(array, v) = some[v]
  BY <1>3, <1>5, VariablesAreInjected
<1>7. ASSUME NEW v \in Injected PROVE \E j \in 1..Len(array) : array[j].var = v
  <2>1. some[v] # <<>>
    <3>1. \A s \in Seq(Text) : <<"overrides">> \o s # <<>> /\ s \o <<port>> # <<>>
      <4> SUFFICES ASSUME NEW s \in Seq(Text) PROVE <<"overrides">> \o s # <<>> /\ s \o <<port>> # <<>>
        OBVIOUS
      <4>1. Len(<<"overrides">>) = 1 /\ Len(<<port>>) = 1 /\ Len(s) \in Nat
        OBVIOUS
      <4>2. Len(<<"overrides">> \o s) = 1 + Len(s) /\ Len(s \o <<port>>) = Len(s) + 1
        BY <4>1, <1>t, ConcatProperties
      <4> QED BY <4>1, <4>2
    <3>2. <<port>> # <<>> /\ <<"prepend">> # <<>>
      OBVIOUS
    <3> QED BY <3>1, <3>2, <1>1, <1>2, <1>4
  <2>2. Lookup(array, v) # <<>>
    BY <2>1, <1>6
  <2> QED BY <1>6, <2>2, LookupIsLast DEF IsLast
<1> HIDE DEF array
<1>8. \A v \in Injected : Lookup(new, v) = some[v]
  BY <1>0, <1>6, <1>7, LookupOfBoth
<1>9. Lookup(new, "DOCKER_HOST") = Lookup(env, "DOCKER_HOST")
  BY <1>0, <1>1, <1>6, LookupOfBoth
<1>10. /\ new \in Seq(Entry) /\ Len(new) = Len(env) + Len(array)
       /\ Len(env) \in Nat /\ Len(array) \in Nat
       /\ \A i \in 1..Len(env) : new[i] = env[i]
       /\ \A i \in 1..Len(new) : i <= Len(env) \/ (i - Len(env) \in 1..Len(array) /\ new[i] = array[i - Len(env)])
  BY <1>0, <1>6, ConcatProperties, LenProperties
<1> HIDE DEF new
<1>11. ASSUME NEW i \in 1..Len(new), new[i].var = "DOCKER_HOST" PROVE new[i].value = <<"inherited">>
  <2>1. i <= Len(env)
    BY <1>1, <1>6, <1>10, <1>11
  <2>2. i \in 1..Len(env) /\ env[i].var = "DOCKER_HOST" /\ new[i] = env[i]
    BY <1>10, <1>11, <2>1
  <2> QED BY <2>2 DEF EnvOK
<1>12. ASSUME NEW v \in {"PATH", "JAVA_TOOL_OPTIONS"},
              NEW i \in 1..Len(new), new[i].var = v, new[i].value = <<"inherited">>
       PROVE  \E j \in 1..Len(Lookup(new, v)) : Lookup(new, v)[j] = "inherited"
  <2> DEFINE old == Lookup(env, v)
  <2>o. old \in Seq(Text)
    BY <1>0, LookupIsText
  <2>1. CASE i <= Len(env)
    <3>1. i \in 1..Len(env) /\ env[i].var = v /\ env[i].value = <<"inherited">>
      BY <1>10, <1>12, <2>1
    <3>2. PICK j \in 1..Len(old) : old[j] = "inherited"
      BY <3>1 DEF EnvOK
    <3>3. Lookup(new, v) = IF v = "PATH" THEN <<"overrides">> \o old ELSE old \o <<port>>
      BY <1>1, <1>4, <1>8 DEF path, java
    <3> HIDE DEF old
    <3>4. CASE v = "PATH"
      <4>1. Lookup(new, v) = <<"overrides">> \o old
        BY <3>3, <3>4
      <4>2. j + 1 \in 1..Len(<<"overrides">> \o old) /\ (<<"overrides">> \o old)[j + 1] = "inherited"
        BY <2>o, <3>2
      <4> QED BY <4>1, <4>2
    <3>5. CASE v # "PATH"
      <4>1. Lookup(new, v) = old \o <<port>>
        BY <3>3, <3>5
      <4>2. j \in 1..Len(old \o <<port>>) /\ (old \o <<port>>)[j] = "inherited"
        BY <2>o, <3>2
      <4> QED BY <4>1, <4>2
    <3> QED BY <3>4, <3>5
  <2>2. CASE ~(i <= Len(env))
    <3>1. some[v] = <<"inherited">>
      BY <1>6, <1>10, <1>12, <2>2
    <3>2. Lookup(new, v) = <<"inherited">>
      BY <1>1, <1>8, <3>1
    <3> QED BY <3>2
  <2> QED BY <2>1, <2>2
<1>13. EnvOK(new)
  BY <1>10, <1>11, <1>12 DEF EnvOK
<1>14. /\ Lookup(new, "HTTP_PROXY") = <<port>>
       /\ Lookup(new, "PATH") = <<"overrides">> \o Lookup(env, "PATH")
       /\ Lookup(new, "JAVA_TOOL_OPTIONS") = Lookup(env, "JAVA_TOOL_OPTIONS") \o <<port>>
  BY <1>1, <1>4, <1>8 DEF path, java
<1> QED BY <1>9, <1>13, <1>14 DEF new, array, some

\* The configuration of a container, whoever has rewritten it.
ConfigInv ==
    /\ EnvOK(config.env)
    /\ rewrites \in Nat
    /\ rewrites = 0 => \A i \in 1..Len(config.env) : config.env[i].value = <<"inherited">>
    /\ \E S : config.binds \in Seq(S)
    /\ config.hash \in Seq(Port \cup {"hash"})

\* A container that nobody has intercepted is of no port.
LEMMA ConfigInitially == ConfigInit => ConfigInv /\ ConfigIsOfLastPort
<1> SUFFICES ASSUME ConfigInit PROVE ConfigInv
  BY DEF ConfigInit, ConfigIsOfLastPort
<1>1. IsFiniteSet({}) /\ IsFiniteSet({"PATH", "JAVA_TOOL_OPTIONS", "DOCKER_HOST"})
  <2> DEFINE s1 == {} \cup {"PATH"}
             s2 == s1 \cup {"JAVA_TOOL_OPTIONS"}
             s3 == s2 \cup {"DOCKER_HOST"}
  <2>1. IsFiniteSet(s1)
    BY FS_EmptySet, FS_AddElement
  <2>2. IsFiniteSet(s2)
    BY <2>1, FS_AddElement
  <2>3. IsFiniteSet(s3)
    BY <2>2, FS_AddElement
  <2>4. s3 = {"PATH", "JAVA_TOOL_OPTIONS", "DOCKER_HOST"}
    OBVIOUS
  <2> QED BY <2>3, <2>4, FS_EmptySet
<1>2. PICK vs \in SUBSET Variable : IsFiniteSet(vs) /\ config.env = Inherited(vs)
  BY <1>1 DEF ConfigInit, Variable
<1>3. /\ config.env \in Seq(Entry)
      /\ \A i \in 1..Len(config.env) : config.env[i].value = <<"inherited">>
  BY <1>2, InheritedIsOK
<1>4. EnvOK(config.env)
  BY <1>3, AllInherited
<1>5. config.binds \in Seq({"data"}) /\ config.hash \in Seq(Port \cup {"hash"}) /\ rewrites \in Nat
  <2>1. /\ config.binds \in {<<>>, <<"data">>} /\ config.hash \in {<<>>, <<"hash">>} /\ rewrites = 0
    BY DEF ConfigInit
  <2>2. <<>> \in Seq({"data"}) /\ <<"data">> \in Seq({"data"})
    OBVIOUS
  <2>3. <<>> \in Seq(Port \cup {"hash"}) /\ <<"hash">> \in Seq(Port \cup {"hash"})
    OBVIOUS
  <2> QED BY <2>1, <2>2, <2>3
<1> QED BY <1>3, <1>4, <1>5 DEF ConfigInv

\* Interceptions, of whatever port, keep the configuration what the last one has made of it
\* (docker-commands.ts:78-168).
LEMMA ConfigStays == ConfigInv /\ ConfigIsOfLastPort /\ [ConfigNext]_configVars
                         => ConfigInv' /\ ConfigIsOfLastPort'
<1> SUFFICES ASSUME ConfigInv, ConfigIsOfLastPort, [ConfigNext]_configVars
             PROVE  ConfigInv' /\ ConfigIsOfLastPort'
  OBVIOUS
<1>1. CASE UNCHANGED configVars
  BY <1>1 DEF configVars, ConfigInv, ConfigIsOfLastPort
<1>2. ASSUME NEW port \in Port, Rewrite(port) PROVE ConfigInv' /\ ConfigIsOfLastPort'
  <2>1. PICK vs \in SUBSET Variable :
            /\ IsFiniteSet(vs) /\ (rewrites # 0 => vs = {})
            /\ config' = TransformContainerCreationConfig(port, config, Inherited(vs))
    <3>1. IsFiniteSet({}) /\ IsFiniteSet({"PATH", "RUBYLIB"})
      <4> DEFINE s1 == {} \cup {"PATH"}
                 s2 == s1 \cup {"RUBYLIB"}
      <4>1. IsFiniteSet(s1)
        BY FS_EmptySet, FS_AddElement
      <4>2. IsFiniteSet(s2)
        BY <4>1, FS_AddElement
      <4>3. s2 = {"PATH", "RUBYLIB"}
        OBVIOUS
      <4> QED BY <4>2, <4>3, FS_EmptySet
    <3> QED BY <1>2, <3>1 DEF Rewrite, Variable
  <2> DEFINE image == Inherited(vs)
             env == image \o config.env
             vars == GetTerminalEnvVars(port, env)
             array == EnvObjectToArray(Restrict(vars, Variable \ {"DOCKER_HOST"}))
  <2>2. /\ config'.env = env \o array
        /\ config'.binds = Append(Without(config.binds, "injections"), "injections")
        /\ config'.label = port
        /\ config'.hash = TransformComposeCreationLabels(port, config.hash)
        /\ interceptor' = port /\ rewrites' = rewrites + 1
    BY <1>2, <2>1 DEF Rewrite, TransformContainerCreationConfig
  <2>3. image \in Seq(Entry) /\ \A i \in 1..Len(image) : image[i].value = <<"inherited">>
    BY <2>1, InheritedIsOK
  <2>4. config.env \in Seq(Entry)
    BY DEF ConfigInv, EnvOK
  <2>5. EnvOK(env)
    <3>1. CASE rewrites = 0
      <4>1. /\ env \in Seq(Entry) /\ Len(env) = Len(image) + Len(config.env)
            /\ Len(image) \in Nat /\ Len(config.env) \in Nat
            /\ \A i \in 1..Len(env) : env[i] = IF i <= Len(image) THEN image[i] ELSE config.env[i - Len(image)]
        BY <2>3, <2>4, ConcatProperties, LenProperties
      <4>2. \A i \in 1..Len(config.env) : config.env[i].value = <<"inherited">>
        BY <3>1 DEF ConfigInv
      <4> HIDE DEF env, image
      <4>3. ASSUME NEW i \in 1..Len(env) PROVE env[i].value = <<"inherited">>
        <5>1. CASE i <= Len(image)
          BY <5>1, <4>1, <2>3
        <5>2. CASE ~(i <= Len(image))
          <6>1. i - Len(image) \in 1..Len(config.env)
            BY <5>2, <4>1
          <6> QED BY <5>2, <6>1, <4>1, <4>2
        <5> QED BY <5>1, <5>2
      <4> QED BY <4>1, <4>3, AllInherited
    <3>2. CASE rewrites # 0
      <4>1. vs = {}
        BY <2>1, <3>2
      <4>2. Len(image) = 0
        <5>1. SetToSeq({}) \in Seq({})
          BY FS_EmptySet, SetToSeqListsIt
        <5>2. {[var |-> v, value |-> <<"inherited">>] : v \in vs} = {}
          BY <4>1
        <5>3. image = SetToSeq({})
          BY <5>2 DEF Inherited
        <5>4. image \in Seq({})
          BY <5>1, <5>3
        <5> HIDE DEF image
        <5> SUFFICES ASSUME Len(image) # 0 PROVE FALSE
          OBVIOUS
        <5>5. 1 \in 1..Len(image)
          BY <5>4, LenProperties
        <5>6. image[1] \in {}
          BY <5>4, <5>5, ElementOfSeq
        <5> QED BY <5>6
      <4>3. image = <<>>
        BY <2>3, <4>2, EmptySeq
      <4>4. env = config.env
        BY <2>4, <4>3, ConcatEmptySeq
      <4> QED BY <4>4 DEF ConfigInv
    <3> QED BY <3>1, <3>2
  <2>6. /\ EnvOK(config'.env)
        /\ Lookup(config'.env, "DOCKER_HOST") = Lookup(env, "DOCKER_HOST")
        /\ Lookup(config'.env, "HTTP_PROXY") = <<port>>
        /\ Lookup(config'.env, "PATH") = <<"overrides">> \o Lookup(env, "PATH")
        /\ Lookup(config'.env, "JAVA_TOOL_OPTIONS") = Lookup(env, "JAVA_TOOL_OPTIONS") \o <<port>>
    <3>1. PICK old : old = env
      OBVIOUS
    <3>2. PICK later : later = config'.env
      OBVIOUS
    <3> DEFINE new == old \o EnvObjectToArray(Restrict(GetTerminalEnvVars(port, old), Variable \ {"DOCKER_HOST"}))
    <3>3. later = new
      BY <2>2, <3>1, <3>2
    <3>4. /\ EnvOK(new)
          /\ Lookup(new, "DOCKER_HOST") = Lookup(old, "DOCKER_HOST")
          /\ Lookup(new, "HTTP_PROXY") = <<port>>
          /\ Lookup(new, "PATH") = <<"overrides">> \o Lookup(old, "PATH")
          /\ Lookup(new, "JAVA_TOOL_OPTIONS") = Lookup(old, "JAVA_TOOL_OPTIONS") \o <<port>>
      <4>1. EnvOK(old)
        BY <2>5, <3>1
      <4> HIDE DEF env
      <4> QED BY <4>1, EnvIsRewritten
    <3> HIDE DEF new, env
    <3> QED BY <3>1, <3>2, <3>3, <3>4
  <2>e. env \in Seq(Entry)
    BY <2>5 DEF EnvOK
  <2> HIDE DEF env, image
  <2>7. PICK S : config.binds \in Seq(S)
    BY DEF ConfigInv
  <2> DEFINE binds == Without(config.binds, "injections")
  <2>8. binds \in Seq(S) /\ \A i \in 1..Len(binds) : binds[i] # "injections"
    BY <2>7, WithoutLacks
  <2> HIDE DEF binds
  <2>9. /\ config'.binds \in Seq(S \cup {"injections"})
        /\ \E i \in DOMAIN config'.binds : \A j \in DOMAIN config'.binds : config'.binds[j] = "injections" <=> j = i
    <3>1. config'.binds = Append(binds, "injections")
      BY <2>2 DEF binds
    <3>2. binds \in Seq(S \cup {"injections"}) /\ Len(binds) \in Nat
      BY <2>8, SeqMonotonic, LenProperties
    <3>3. /\ Append(binds, "injections") \in Seq(S \cup {"injections"})
          /\ Len(Append(binds, "injections")) = Len(binds) + 1
          /\ \A i \in 1.. Len(binds) : Append(binds, "injections")[i] = binds[i]
          /\ Append(binds, "injections")[Len(binds) + 1] = "injections"
      BY <3>2, AppendProperties
    <3>4. DOMAIN config'.binds = 1..(Len(binds) + 1)
      BY <3>1, <3>3, LenProperties
    <3>5. \A j \in 1..(Len(binds) + 1) : config'.binds[j] = "injections" <=> j = Len(binds) + 1
      BY <2>8, <3>1, <3>2, <3>3
    <3>6. Len(binds) + 1 \in 1..(Len(binds) + 1)
      BY <3>2
    <3>7. config'.binds \in Seq(S \cup {"injections"})
      BY <3>1, <3>3
    <3>8. Len(binds) + 1 \in DOMAIN config'.binds
      BY <3>4, <3>6
    <3>9. \A j \in DOMAIN config'.binds : config'.binds[j] = "injections" <=> j = Len(binds) + 1
      BY <3>4, <3>5
    <3> QED BY <3>7, <3>8, <3>9
  <2>10. /\ config'.hash \in Seq(Port \cup {"hash"})
         /\ \A p \in Port : TransformComposeResponseLabels(p, config'.hash) = <<"hash">> => p = port
    <3>1. CASE config.hash = <<>>
      <4>1. config'.hash = <<>>
        BY <2>2, <3>1 DEF TransformComposeCreationLabels
      <4>2. <<>> # <<"hash">>
        OBVIOUS
      <4> QED BY <4>1, <4>2 DEF TransformComposeResponseLabels
    <3>2. CASE config.hash # <<>>
      <4> DEFINE old == config.hash
      <4>1. config'.hash = Append(old, port)
        BY <2>2, <3>2 DEF TransformComposeCreationLabels
      <4>2. old \in Seq(Port \cup {"hash"}) /\ old # <<>>
        BY <3>2 DEF ConfigInv
      <4> HIDE DEF old
      <4>3. /\ Append(old, port) \in Seq(Port \cup {"hash"})
            /\ Len(Append(old, port)) = Len(old) + 1 /\ Append(old, port)[Len(old) + 1] = port
            /\ Len(old) \in Nat /\ Len(old) >= 1
        BY <4>2
      <4> DEFINE new == Append(old, port)
      <4>4. Last(new) = port /\ new # <<>> /\ Len(new) >= 2 /\ Len(new) \in Nat
        BY <4>3 DEF Last
      <4>5. ASSUME NEW p \in Port, p # port PROVE TransformComposeResponseLabels(p, new) # <<"hash">>
        <5>1. new \in Seq(Port \cup {"hash"})
          BY <4>3
        <5> HIDE DEF new
        <5>2. TransformComposeResponseLabels(p, new) = Append(new, "unintercepted")
          BY <4>4, <4>5 DEF TransformComposeResponseLabels
        <5>3. Len(Append(new, "unintercepted")) = Len(new) + 1
          BY <5>1
        <5>4. Len(<<"hash">>) = 1
          OBVIOUS
        <5> QED BY <4>4, <5>2, <5>3, <5>4
      <4> QED BY <4>1, <4>3, <4>5
    <3> QED BY <3>1, <3>2
  <2>11. ConfigInv'
    BY <2>2, <2>6, <2>9, <2>10 DEF ConfigInv
  <2>12. Head(Lookup(config'.env, "PATH")) = "overrides"
    <3>1. Lookup(env, "PATH") \in Seq(Text)
      BY <2>e, LookupIsText
    <3>2. <<"overrides">> \in Seq(Text)
      BY DEF Text
    <3> HIDE DEF Text
    <3>3. \A s \in Seq(Text) : Head(<<"overrides">> \o s) = "overrides"
      BY <3>2
    <3> QED BY <2>6, <3>1, <3>3
  <2>13. Last(Lookup(config'.env, "JAVA_TOOL_OPTIONS")) = port
    <3>1. Lookup(env, "JAVA_TOOL_OPTIONS") \in Seq(Text)
      BY <2>e, LookupIsText
    <3>2. <<port>> \in Seq(Text)
      BY DEF Text
    <3>3. \A s \in Seq(Text) : Last(s \o <<port>>) = port
      BY <3>2 DEF Last
    <3> QED BY <2>6, <3>1, <3>3
  <2>14. ASSUME NEW v \in {"PATH", "JAVA_TOOL_OPTIONS"},
                NEW e \in ToSet(config'.env), e.var = v, e.value = <<"inherited">>
         PROVE  "inherited" \in ToSet(Lookup(config'.env, v))
    <3>1. config'.env \in Seq(Entry)
      BY <2>6 DEF EnvOK
    <3>2. DOMAIN config'.env = 1..Len(config'.env)
      BY <3>1, LenProperties
    <3>3. PICK i \in 1..Len(config'.env) : e = config'.env[i]
      BY <3>2 DEF ToSet
    <3>4. PICK j \in 1..Len(Lookup(config'.env, v)) : Lookup(config'.env, v)[j] = "inherited"
      BY <2>6, <2>14, <3>3 DEF EnvOK
    <3>5. Lookup(config'.env, v) \in Seq(Text)
      BY <3>1, LookupIsText
    <3>6. DOMAIN Lookup(config'.env, v) = 1..Len(Lookup(config'.env, v))
      BY <3>5, LenProperties
    <3> QED BY <3>4, <3>6 DEF ToSet
  <2>15. Lookup(config'.env, "DOCKER_HOST") \in {<<>>, <<"inherited">>}
    <3>1. PICK new : new = config'.env
      OBVIOUS
    <3>2. new \in Seq(Entry) /\ EnvOK(new)
      BY <2>6, <3>1 DEF EnvOK
    <3>3. Lookup(new, "DOCKER_HOST") \in {<<>>, <<"inherited">>}
      <4>1. CASE Lookup(new, "DOCKER_HOST") = <<>>
        BY <4>1
      <4>2. ASSUME NEW k, IsLast(new, "DOCKER_HOST", k), Lookup(new, "DOCKER_HOST") = new[k].value
            PROVE  Lookup(new, "DOCKER_HOST") = <<"inherited">>
        BY <3>2, <4>2 DEF EnvOK, IsLast
      <4> QED BY <3>2, <4>1, <4>2, LookupIsLast
    <3> QED BY <3>1, <3>3
  <2>16. config'.label = interceptor'
    BY <2>2
  <2>17. \A v \in {"PATH", "JAVA_TOOL_OPTIONS"} :
               (\E e \in ToSet(config'.env) : e.var = v /\ e.value = <<"inherited">>) =>
                   "inherited" \in ToSet(Lookup(config'.env, v))
    BY <2>14
  <2> QED BY <2>2, <2>6, <2>9, <2>10, <2>11, <2>12, <2>13, <2>15, <2>17 DEF ConfigIsOfLastPort
<1> QED BY <1>1, <1>2 DEF ConfigNext

\* A container is of the port that has intercepted it last, whichever have and however often
\* (docker-commands.ts:78-168, docker-compose.ts:1-35).
THEOREM ConfigOfLastPort == ConfigInit /\ [][ConfigNext]_configVars => []ConfigIsOfLastPort
<1> QED BY ConfigInitially, ConfigStays, PTL

(***************************************************************************)
(* Image builds: the output of an injected build.                          *)
(***************************************************************************)

\* An empty sequence has nothing to lose, and the first member of one is kept or not.
LEMMA WithoutOfEmpty == ASSUME NEW x PROVE Without(<<>>, x) = <<>>
<1>1. <<>> \in Seq({}) /\ Len(<<>>) = 0
  OBVIOUS
<1>2. PICK f \in [0..Len(<<>>) -> Seq({})] : WithoutSteps(<<>>, x, f) /\ Without(<<>>, x) = f[Len(<<>>)]
  BY <1>1, WithoutDefines
<1> QED BY <1>1, <1>2 DEF WithoutSteps

AppendsBehind(S) == \A u, v \in Seq(S), x \in S : Append(u \o v, x) = u \o Append(v, x)

\* Appending to the second of two sequences.
LEMMA AppendBehind == ASSUME NEW S PROVE AppendsBehind(S)
BY DEF AppendsBehind

\* The first member is kept or not, and the others do not depend on it.
LEMMA WithoutOfFirst ==
    ASSUME NEW S, NEW s \in Seq(S), NEW a \in S, NEW x
    PROVE  Without(<<a>> \o s, x) = IF a # x THEN <<a>> \o Without(s, x) ELSE Without(s, x)
<1> DEFINE n == Len(s)
           t == <<a>> \o s
           pre == IF a # x THEN <<a>> ELSE <<>>
<1>1. /\ n \in Nat /\ t \in Seq(S) /\ Len(t) = n + 1
      /\ t[1] = a /\ \A i \in 1..n : t[i + 1] = s[i] /\ s[i] \in S
  BY LenProperties, ElementOfSeq
<1>p. pre \in Seq(S)
  OBVIOUS
<1>2. PICK f \in [0..Len(s) -> Seq(S)] : WithoutSteps(s, x, f) /\ Without(s, x) = f[Len(s)]
  BY WithoutDefines
<1>t. t \in Seq(S)
  BY <1>1
<1> HIDE DEF t
<1>3. PICK g \in [0..Len(t) -> Seq(S)] : WithoutSteps(t, x, g) /\ Without(t, x) = g[Len(t)]
  BY <1>t, WithoutDefines
<1>n. n = Len(s)
  OBVIOUS
<1> HIDE DEF n, pre
<1>4. /\ f[0] = <<>> /\ f \in [0..n -> Seq(S)]
      /\ \A i \in 1..n : f[i] = IF s[i] # x THEN Append(f[i - 1], s[i]) ELSE f[i - 1]
  BY <1>2, <1>n DEF WithoutSteps
<1>5. /\ g[0] = <<>> /\ g \in [0..(n + 1) -> Seq(S)]
      /\ \A i \in 1..(n + 1) : g[i] = IF t[i] # x THEN Append(g[i - 1], t[i]) ELSE g[i - 1]
  BY <1>3, <1>1 DEF WithoutSteps
<1> DEFINE T == {k \in 0..n : g[k + 1] = pre \o f[k]}
<1>6. 0 \in T
  <2>1. 1 \in 1..(n + 1) /\ 0 \in 0..n /\ 1 - 1 = 0
    BY <1>1
  <2>2. g[1] = IF t[1] # x THEN Append(g[1 - 1], t[1]) ELSE g[1 - 1]
    BY <1>5, <2>1
  <2>3. g[1] = IF a # x THEN Append(<<>>, a) ELSE <<>>
    BY <1>1, <1>5, <2>1, <2>2
  <2>4. Append(<<>>, a) = <<a>> /\ <<a>> \o <<>> = <<a>> /\ <<>> \o <<>> = <<>>
    OBVIOUS
  <2>5. g[1] = pre \o <<>>
    BY <2>3, <2>4 DEF pre
  <2>6. g[0 + 1] = pre \o f[0]
    BY <1>4, <2>5
  <2> QED BY <2>1, <2>6
<1>7. ASSUME NEW k \in 1..n, k - 1 \in T PROVE k \in T
  <2>1. k + 1 \in 1..(n + 1) /\ (k + 1) - 1 = k /\ (k - 1) + 1 = k /\ k \in 0..n
    BY <1>1
  <2>2. g[k + 1] = IF s[k] # x THEN Append(g[k], s[k]) ELSE g[k]
    BY <1>1, <1>5, <2>1
  <2>3. g[k] = pre \o f[k - 1] /\ f[k - 1] \in Seq(S) /\ s[k] \in S
    BY <1>1, <1>4, <1>7, <2>1
  <2>4. f[k] = IF s[k] # x THEN Append(f[k - 1], s[k]) ELSE f[k - 1]
    BY <1>4
  <2>5. Append(pre \o f[k - 1], s[k]) = pre \o Append(f[k - 1], s[k])
    <3>1. AppendsBehind(S)
      BY AppendBehind
    <3>2. \A u, v \in Seq(S), y \in S : Append(u \o v, y) = u \o Append(v, y)
      BY <3>1 DEF AppendsBehind
    <3> QED BY <1>p, <2>3, <3>2
  <2> QED BY <2>1, <2>2, <2>3, <2>4, <2>5
<1> HIDE DEF T
<1>8. 0..n \subseteq T
  BY <1>1, <1>6, <1>7, BoundedInduction
<1>9. n \in T
  BY <1>1, <1>8
<1>10. Without(t, x) = pre \o Without(s, x)
  BY <1>1, <1>2, <1>3, <1>9, <1>n DEF T
<1>11. Without(s, x) \in Seq(S)
  BY <1>2, <1>1, <1>n
<1>12. <<>> \o Without(s, x) = Without(s, x)
  BY <1>11, ConcatEmptySeq
<1> QED BY <1>10, <1>12 DEF pre, t

BuildCommand == {"FROM", "RUN", "COMMENT", "started", "COPY", "ENV", "ended"}

\* The equations of InjectIntoDockerfile.
InjectSteps(f, g) ==
    /\ g[0] = f
    /\ \A n \in 1..Len(f) :
           g[n] = IF f[Len(f) - n + 1] = "FROM" THEN Splice(g[n - 1], Len(f) - n + 1) ELSE g[n - 1]

\* Four commands are spliced in, behind any line (docker-build-injection.ts:137-139).
LEMMA SpliceInserts ==
    ASSUME NEW cmds \in Seq(BuildCommand), NEW i \in 1..Len(cmds)
    PROVE  /\ Splice(cmds, i) \in Seq(BuildCommand)
           /\ Len(Splice(cmds, i)) = Len(cmds) + 4
<1>1. InjectedCommands \in Seq(BuildCommand) /\ Len(InjectedCommands) = 4
  BY DEF InjectedCommands, BuildCommand
<1>2. Len(cmds) \in Nat /\ \A j \in 1..Len(cmds) : cmds[j] \in BuildCommand
  BY LenProperties, ElementOfSeq
<1> DEFINE a == SubSeq(cmds, 1, i)
           b == SubSeq(cmds, i + 1, Len(cmds))
           all == (a \o InjectedCommands) \o b
<1>3. a \in Seq(BuildCommand) /\ Len(a) = i
  BY <1>2, SubSeqProperties
<1>4. b \in Seq(BuildCommand) /\ Len(b) = Len(cmds) - i
  BY <1>2, SubSeqProperties
<1> HIDE DEF a, b
<1>5. \A u, v \in Seq(BuildCommand) : u \o v \in Seq(BuildCommand) /\ Len(u \o v) = Len(u) + Len(v)
  BY ConcatProperties
<1>6. a \o InjectedCommands \in Seq(BuildCommand) /\ Len(a \o InjectedCommands) = i + 4
  BY <1>1, <1>3, <1>5
<1>7. all \in Seq(BuildCommand) /\ Len(all) = (i + 4) + (Len(cmds) - i)
  BY <1>4, <1>5, <1>6
<1>8. Splice(cmds, i) = all
  BY DEF Splice, a, b
<1> HIDE DEF all
<1>9. (i + 4) + (Len(cmds) - i) = Len(cmds) + 4
  BY <1>2
<1> QED BY <1>7, <1>8, <1>9

\* InjectIntoDockerfile is what its equations say.
LEMMA InjectDefines ==
    ASSUME NEW f \in Seq(BuildCommand)
    PROVE  \E g \in [0..Len(f) -> Seq(BuildCommand)] : InjectSteps(f, g) /\ InjectIntoDockerfile(f) = g[Len(f)]
<1> DEFINE n == Len(f)
           V == {v \in Seq(BuildCommand) : Len(v) >= n}
           next == [p \in (1..n) \X V |-> IF f[n - p[1] + 1] = "FROM" THEN Splice(p[2], n - p[1] + 1) ELSE p[2]]
           Def(g) == [m \in 0..n |-> LET i == n - m + 1
                                     IN  CASE m = 0 -> f
                                           [] m > 0 /\ f[i] = "FROM" -> Splice(g[m - 1], i)
                                           [] OTHER -> g[m - 1]]
<1>1. n \in Nat
  BY LenProperties
<1>n. n = Len(f)
  OBVIOUS
<1> HIDE DEF next, n
<1>2. ASSUME NEW i \in 1..n, NEW v \in V
      PROVE  /\ next[<<i, v>>] = IF f[n - i + 1] = "FROM" THEN Splice(v, n - i + 1) ELSE v
             /\ next[<<i, v>>] \in V
  <2>1. next[<<i, v>>] = IF f[n - i + 1] = "FROM" THEN Splice(v, n - i + 1) ELSE v
    BY DEF next
  <2>2. Len(v) \in Nat /\ n - i + 1 \in 1..Len(v)
    BY <1>1, LenProperties
  <2>3. Splice(v, n - i + 1) \in V
    BY <2>2, <1>1, SpliceInserts
  <2> QED BY <2>1, <2>3
<1>3. f \in V
  BY <1>1, <1>n
<1> HIDE DEF V
<1>4. PICK g : Recurses(g, n, V, f, next)
  BY <1>1, <1>2, <1>3, RecursionDefines DEF IsRecursion
<1>5. /\ g \in [0..n -> V] /\ g[0] = f
      /\ \A i \in 1..n : g[i] = next[<<i, g[i - 1]>>]
  BY <1>4 DEF Recurses
<1>6. ASSUME NEW i \in 1..n
      PROVE  g[i] = IF f[n - i + 1] = "FROM" THEN Splice(g[i - 1], n - i + 1) ELSE g[i - 1]
  <2>1. g[i - 1] \in V
    BY <1>1, <1>5
  <2> QED BY <2>1, <1>2, <1>5
<1>7. g = Def(g)
  <2>1. ASSUME NEW i \in 0..n PROVE g[i] = Def(g)[i]
    <3>1. CASE i = 0
      BY <3>1, <1>5
    <3>2. CASE i # 0
      <4>1. i \in 1..n
        BY <1>1, <3>2
      <4>2. g[i] = IF f[n - i + 1] = "FROM" THEN Splice(g[i - 1], n - i + 1) ELSE g[i - 1]
        BY <4>1, <1>6
      <4> QED BY <4>1, <4>2
    <3> QED BY <3>1, <3>2
  <2>2. g = [i \in 0..n |-> g[i]]
    BY <1>5
  <2> QED BY <2>1, <2>2
<1> DEFINE injected == CHOOSE h : h = Def(h)
<1>8. injected = Def(injected)
  BY <1>7
<1>9. InjectIntoDockerfile(f) = injected[n]
  BY <1>n DEF InjectIntoDockerfile, n
<1> HIDE DEF injected
<1>10. /\ injected[0] = f
       /\ \A i \in 1..n : injected[i] = IF f[n - i + 1] = "FROM" THEN Splice(injected[i - 1], n - i + 1) ELSE injected[i - 1]
  <2>1. \A m \in 0..n : injected[m] = LET i == n - m + 1
                                      IN  CASE m = 0 -> f
                                            [] m > 0 /\ f[i] = "FROM" -> Splice(injected[m - 1], i)
                                            [] OTHER -> injected[m - 1]
    BY <1>8
  <2> QED BY <1>1, <2>1
<1>11. \A i \in 0..n : injected[i] = g[i]
  <2> DEFINE T == {i \in 0..n : injected[i] = g[i]}
  <2>1. 0 \in T
    BY <1>1, <1>5, <1>10
  <2>2. ASSUME NEW i \in 1..n, i - 1 \in T PROVE i \in T
    <3>1. injected[i] = g[i]
      BY <1>6, <1>10, <2>2
    <3> QED BY <3>1, <1>1
  <2> HIDE DEF T
  <2>3. 0..n \subseteq T
    BY <1>1, <2>1, <2>2, BoundedInduction
  <2> QED BY <2>3 DEF T
<1>12. InjectIntoDockerfile(f) = g[n]
  BY <1>1, <1>9, <1>11
<1>13. g \in [0..n -> Seq(BuildCommand)]
  BY <1>5 DEF V
<1> QED BY <1>5, <1>6, <1>12, <1>13, <1>n DEF InjectSteps

Step == BuildCommand \ {"COMMENT"}

\* Which steps of the injected Dockerfile are those of the original: c[j] of them are among the
\* first j.
Counts(c, s, e) ==
    /\ c \in [0..Len(e) -> 0..Len(s)]
    /\ c[0] = 0 /\ c[Len(e)] = Len(s)
    /\ \A j \in 1..Len(e) :
           IF e[j] \in {"FROM", "RUN"}
           THEN c[j] \in 1..Len(s) /\ c[j] = c[j - 1] + 1 /\ e[j] = s[c[j]]
           ELSE c[j] = c[j - 1]

\* The others are the injected sections: each follows a FROM, as a whole.
Sections4(e) ==
    \A j \in 1..Len(e) :
        /\ e[j] = "started" => j > 1 /\ e[j - 1] = "FROM"
        /\ e[j] = "COPY" <=> (j > 1 /\ e[j - 1] = "started")
        /\ e[j] = "ENV" <=> (j > 1 /\ e[j - 1] = "COPY")
        /\ e[j] = "ended" <=> (j > 1 /\ e[j - 1] = "ENV")

Expands(s, e, m) ==
    /\ s \in Seq(Step) /\ e \in Seq(Step) /\ m \in Nat
    /\ Len(e) = Len(s) + 4 * m
    /\ \E c : Counts(c, s, e)
    /\ Sections4(e)

\* Nothing expands to nothing.
LEMMA EmptyExpands == Expands(<<>>, <<>>, 0)
<1> DEFINE c == [j \in 0..0 |-> 0]
<1>1. Len(<<>>) = 0 /\ 1..0 = {} /\ <<>> \in Seq(Step)
  OBVIOUS
<1>2. c \in [0..0 -> 0..0] /\ c[0] = 0
  OBVIOUS
<1> HIDE DEF c
<1>3. Counts(c, <<>>, <<>>)
  BY <1>1, <1>2 DEF Counts
<1>4. Sections4(<<>>)
  BY <1>1 DEF Sections4
<1> QED BY <1>1, <1>3, <1>4 DEF Expands

\* A sequence behind another one.
Behind(t, p, s) ==
    /\ t \in Seq(Step) /\ Len(s) \in Nat /\ Len(t) = Len(p) + Len(s)
    /\ \A j \in 1..Len(p) : t[j] = p[j]
    /\ \A j \in 1..Len(s) : t[Len(p) + j] = s[j]

\* What is concatenated is behind.
LEMMA ConcatIsBehind ==
    ASSUME NEW p \in Seq(Step), NEW s \in Seq(Step)
    PROVE  Behind(p \o s, p, s)
<1>1. /\ p \o s \in Seq(Step) /\ Len(p \o s) = Len(p) + Len(s)
      /\ \A i \in 1 .. Len(p) + Len(s) : (p \o s)[i] = IF i <= Len(p) THEN p[i] ELSE s[i - Len(p)]
  BY ConcatProperties
<1>2. Len(p) \in Nat /\ Len(s) \in Nat
  BY LenProperties
<1>3. ASSUME NEW j \in 1..Len(s) PROVE (p \o s)[Len(p) + j] = s[j]
  BY <1>1, <1>2
<1> QED BY <1>1, <1>2, <1>3 DEF Behind

\* A RUN in front stays as it is.
LEMMA RunExpands ==
    ASSUME NEW s, NEW e, NEW m, Expands(s, e, m)
    PROVE  Expands(<<"RUN">> \o s, <<"RUN">> \o e, m)
<1> DEFINE s1 == <<"RUN">> \o s
           e1 == <<"RUN">> \o e
<1>0. s \in Seq(Step) /\ e \in Seq(Step) /\ m \in Nat /\ Len(e) = Len(s) + 4 * m /\ Sections4(e)
  BY DEF Expands
<1>1. <<"RUN">> \in Seq(Step) /\ Len(<<"RUN">>) = 1 /\ <<"RUN">>[1] = "RUN"
  BY DEF Step, BuildCommand
<1>2. Behind(s1, <<"RUN">>, s) /\ Behind(e1, <<"RUN">>, e)
  BY <1>0, <1>1, ConcatIsBehind
<1> HIDE DEF s1, e1
<1>3. /\ s1 \in Seq(Step) /\ Len(s) \in Nat /\ Len(s1) = 1 + Len(s)
      /\ s1[1] = "RUN" /\ \A j \in 1..Len(s) : s1[1 + j] = s[j]
  BY <1>1, <1>2 DEF Behind
<1>4. /\ e1 \in Seq(Step) /\ Len(e) \in Nat /\ Len(e1) = 1 + Len(e)
      /\ e1[1] = "RUN" /\ \A j \in 1..Len(e) : e1[1 + j] = e[j]
  BY <1>1, <1>2 DEF Behind
<1>5. PICK c : Counts(c, s, e)
  BY DEF Expands
<1> DEFINE d == [j \in 0..Len(e1) |-> IF j = 0 THEN 0 ELSE c[j - 1] + 1]
<1>6. Counts(d, s1, e1)
  <2>1. /\ c \in [0..Len(e) -> 0..Len(s)] /\ c[0] = 0 /\ c[Len(e)] = Len(s)
        /\ \A j \in 1..Len(e) : IF e[j] \in {"FROM", "RUN"}
                               THEN c[j] \in 1..Len(s) /\ c[j] = c[j - 1] + 1 /\ e[j] = s[c[j]]
                               ELSE c[j] = c[j - 1]
    BY <1>5 DEF Counts
  <2>2. d[0] = 0 /\ DOMAIN d = 0..Len(e1) /\ \A j \in 0..Len(e) : d[j + 1] = c[j] + 1
    BY <1>4
  <2>3. d \in [0..Len(e1) -> 0..Len(s1)]
    BY <1>3, <1>4, <2>1
  <2> HIDE DEF d
  <2>4. d[Len(e1)] = Len(s1)
    BY <1>3, <1>4, <2>1, <2>2
  <2>5. ASSUME NEW j \in 1..Len(e1)
        PROVE  IF e1[j] \in {"FROM", "RUN"}
               THEN d[j] \in 1..Len(s1) /\ d[j] = d[j - 1] + 1 /\ e1[j] = s1[d[j]]
               ELSE d[j] = d[j - 1]
    <3>1. CASE j = 1
      <4>1. d[1] = 1
        BY <2>1, <2>2, <1>4
      <4> QED BY <3>1, <4>1, <2>2, <1>3, <1>4
    <3>2. CASE j # 1
      <4>1. PICK i \in 1..Len(e) : j = i + 1
        BY <3>2, <1>4
      <4>2. d[j] = c[i] + 1 /\ d[j - 1] = c[i - 1] + 1 /\ e1[j] = e[i]
        BY <4>1, <2>2, <1>4
      <4>3. c[i] \in 0..Len(s) /\ c[i - 1] \in 0..Len(s)
        <5>1. i \in 0..Len(e) /\ i - 1 \in 0..Len(e)
          BY <1>4, <4>1
        <5>2. c \in [0..Len(e) -> 0..Len(s)]
          BY <2>1
        <5> QED BY <5>1, <5>2
      <4>4. c[i] \in 1..Len(s) => s1[c[i] + 1] = s[c[i]]
        BY <1>3
      <4>5. CASE e[i] \in {"FROM", "RUN"}
        <5>1. c[i] \in 1..Len(s) /\ c[i] = c[i - 1] + 1 /\ e[i] = s[c[i]]
          BY <2>1, <4>5
        <5>2. c[i] + 1 \in 1..Len(s1)
          BY <5>1, <1>3
        <5>3. d[j] = d[j - 1] + 1 /\ e1[j] = s1[d[j]]
          BY <4>2, <4>3, <4>4, <5>1
        <5> QED BY <4>2, <4>5, <5>2, <5>3
      <4>6. CASE e[i] \notin {"FROM", "RUN"}
        <5>1. c[i] = c[i - 1]
          BY <2>1, <4>6
        <5> QED BY <4>2, <4>6, <5>1
      <4> QED BY <4>5, <4>6
    <3> QED BY <3>1, <3>2
  <2> QED BY <2>2, <2>3, <2>4, <2>5 DEF Counts
<1>7. Sections4(e1)
  <2> SUFFICES ASSUME NEW j \in 1..Len(e1)
               PROVE  /\ e1[j] = "started" => j > 1 /\ e1[j - 1] = "FROM"
                      /\ e1[j] = "COPY" <=> (j > 1 /\ e1[j - 1] = "started")
                      /\ e1[j] = "ENV" <=> (j > 1 /\ e1[j - 1] = "COPY")
                      /\ e1[j] = "ended" <=> (j > 1 /\ e1[j - 1] = "ENV")
    BY DEF Sections4
  <2>1. CASE j = 1
    BY <2>1, <1>4
  <2>2. CASE j = 2
    <3>1. e1[2] = e[1] /\ e1[2 - 1] = "RUN" /\ 1 \in 1..Len(e)
      BY <2>2, <1>4
    <3>2. e[1] \notin {"started", "COPY", "ENV", "ended"}
      BY <1>0, <3>1 DEF Sections4
    <3> QED BY <2>2, <3>1, <3>2
  <2>3. CASE j # 1 /\ j # 2
    <3>1. PICK i \in 2..Len(e) : j = i + 1
      BY <2>3, <1>4
    <3>2. e1[j] = e[i] /\ e1[j - 1] = e[i - 1] /\ i \in 1..Len(e) /\ i > 1 /\ j > 1
      BY <3>1, <1>4
    <3> QED BY <1>0, <3>2 DEF Sections4
  <2> QED BY <2>1, <2>2, <2>3
<1>8. Len(e1) = Len(s1) + 4 * m
  BY <1>0, <1>3, <1>4
<1> QED BY <1>0, <1>3, <1>4, <1>6, <1>7, <1>8 DEF Expands, s1, e1

Section == <<"FROM", "started", "COPY", "ENV", "ended">>

\* A FROM in front gets its section.
LEMMA FromExpands ==
    ASSUME NEW s, NEW e, NEW m, Expands(s, e, m)
    PROVE  Expands(<<"FROM">> \o s, Section \o e, m + 1)
<1> DEFINE s1 == <<"FROM">> \o s
           e1 == Section \o e
<1>0. s \in Seq(Step) /\ e \in Seq(Step) /\ m \in Nat /\ Len(e) = Len(s) + 4 * m /\ Sections4(e)
  BY DEF Expands
<1>1. /\ <<"FROM">> \in Seq(Step) /\ Len(<<"FROM">>) = 1 /\ <<"FROM">>[1] = "FROM"
      /\ Section \in Seq(Step) /\ Len(Section) = 5
      /\ Section[1] = "FROM" /\ Section[2] = "started" /\ Section[3] = "COPY" /\ Section[4] = "ENV" /\ Section[5] = "ended"
  BY DEF Step, BuildCommand, Section
<1>2. Behind(s1, <<"FROM">>, s) /\ Behind(e1, Section, e)
  BY <1>0, <1>1, ConcatIsBehind
<1> HIDE DEF s1, e1
<1>3. /\ s1 \in Seq(Step) /\ Len(s) \in Nat /\ Len(s1) = 1 + Len(s)
      /\ s1[1] = "FROM" /\ \A j \in 1..Len(s) : s1[1 + j] = s[j]
  BY <1>1, <1>2 DEF Behind
<1>4. /\ e1 \in Seq(Step) /\ Len(e) \in Nat /\ Len(e1) = 5 + Len(e)
      /\ e1[1] = "FROM" /\ e1[2] = "started" /\ e1[3] = "COPY" /\ e1[4] = "ENV" /\ e1[5] = "ended"
      /\ \A j \in 1..Len(e) : e1[5 + j] = e[j]
  <2>1. \A j \in 1..5 : e1[j] = Section[j]
    BY <1>1, <1>2 DEF Behind
  <2>2. /\ e1 \in Seq(Step) /\ Len(e) \in Nat /\ Len(e1) = 5 + Len(e)
        /\ \A j \in 1..Len(e) : e1[5 + j] = e[j]
    BY <1>1, <1>2 DEF Behind
  <2> QED BY <1>1, <2>1, <2>2
<1>5. PICK c : Counts(c, s, e)
  BY DEF Expands
<1> DEFINE d == [j \in 0..Len(e1) |-> IF j = 0 THEN 0 ELSE IF j <= 5 THEN 1 ELSE c[j - 5] + 1]
<1>6. Counts(d, s1, e1)
  <2>1. /\ c \in [0..Len(e) -> 0..Len(s)] /\ c[0] = 0 /\ c[Len(e)] = Len(s)
        /\ \A j \in 1..Len(e) : IF e[j] \in {"FROM", "RUN"}
                               THEN c[j] \in 1..Len(s) /\ c[j] = c[j - 1] + 1 /\ e[j] = s[c[j]]
                               ELSE c[j] = c[j - 1]
    BY <1>5 DEF Counts
  <2>2. d[0] = 0 /\ DOMAIN d = 0..Len(e1) /\ \A j \in 1..5 : d[j] = 1
    BY <1>4
  <2>6. ASSUME NEW j \in 0..Len(e) PROVE d[j + 5] = c[j] + 1
    <3>1. CASE j = 0
      BY <3>1, <2>1, <2>2
    <3>2. CASE j # 0
      <4>1. j + 5 \in 0..Len(e1) /\ j + 5 # 0 /\ ~(j + 5 <= 5) /\ (j + 5) - 5 = j
        BY <3>2, <1>4
      <4> QED BY <4>1
    <3> QED BY <3>1, <3>2
  <2>3. d \in [0..Len(e1) -> 0..Len(s1)]
    BY <1>3, <1>4, <2>1
  <2> HIDE DEF d
  <2>4. d[Len(e1)] = Len(s1)
    <3>1. Len(e) \in 0..Len(e) /\ Len(e1) = Len(e) + 5
      BY <1>4
    <3> QED BY <3>1, <1>3, <2>1, <2>6
  <2>5. ASSUME NEW j \in 1..Len(e1)
        PROVE  IF e1[j] \in {"FROM", "RUN"}
               THEN d[j] \in 1..Len(s1) /\ d[j] = d[j - 1] + 1 /\ e1[j] = s1[d[j]]
               ELSE d[j] = d[j - 1]
    <3>1. CASE j = 1
      BY <3>1, <2>2, <1>3, <1>4
    <3>2. CASE j \in 2..5
      <4>1. e1[j] \notin {"FROM", "RUN"}
        BY <3>2, <1>4
      <4>2. j \in 1..5 /\ j - 1 \in 1..5
        BY <3>2
      <4> QED BY <4>1, <4>2, <2>2
    <3>3. CASE j > 5
      <4>1. PICK i \in 1..Len(e) : j = i + 5
        BY <3>3, <1>4
      <4>2. d[j] = c[i] + 1 /\ d[j - 1] = c[i - 1] + 1 /\ e1[j] = e[i]
        <5>1. i \in 0..Len(e) /\ i - 1 \in 0..Len(e) /\ j - 1 = (i - 1) + 5 /\ j = 5 + i
          BY <4>1, <1>4
        <5> QED BY <4>1, <5>1, <2>6, <1>4
      <4>3. c[i] \in 0..Len(s) /\ c[i - 1] \in 0..Len(s)
        <5>1. i \in 0..Len(e) /\ i - 1 \in 0..Len(e)
          BY <1>4, <4>1
        <5>2. c \in [0..Len(e) -> 0..Len(s)]
          BY <2>1
        <5> QED BY <5>1, <5>2
      <4>4. c[i] \in 1..Len(s) => s1[c[i] + 1] = s[c[i]]
        BY <1>3
      <4>5. IF e[i] \in {"FROM", "RUN"}
            THEN c[i] \in 1..Len(s) /\ c[i] = c[i - 1] + 1 /\ e[i] = s[c[i]]
            ELSE c[i] = c[i - 1]
        BY <2>1
      <4>6. CASE e[i] \in {"FROM", "RUN"}
        <5>1. c[i] \in 1..Len(s) /\ c[i] = c[i - 1] + 1 /\ e[i] = s[c[i]]
          BY <4>5, <4>6
        <5>2. c[i] + 1 \in 1..Len(s1)
          BY <5>1, <1>3
        <5>3. d[j] = d[j - 1] + 1 /\ e1[j] = s1[d[j]]
          BY <4>2, <4>3, <4>4, <5>1
        <5> QED BY <4>2, <4>6, <5>2, <5>3
      <4>7. CASE e[i] \notin {"FROM", "RUN"}
        <5>1. c[i] = c[i - 1]
          BY <4>5, <4>7
        <5> QED BY <4>2, <4>7, <5>1
      <4> QED BY <4>6, <4>7
    <3>4. j = 1 \/ j \in 2..5 \/ j > 5
      BY <1>4
    <3> QED BY <3>1, <3>2, <3>3, <3>4
  <2> QED BY <2>2, <2>3, <2>4, <2>5 DEF Counts
<1>7. Sections4(e1)
  <2> SUFFICES ASSUME NEW j \in 1..Len(e1)
               PROVE  /\ e1[j] = "started" => j > 1 /\ e1[j - 1] = "FROM"
                      /\ e1[j] = "COPY" <=> (j > 1 /\ e1[j - 1] = "started")
                      /\ e1[j] = "ENV" <=> (j > 1 /\ e1[j - 1] = "COPY")
                      /\ e1[j] = "ended" <=> (j > 1 /\ e1[j - 1] = "ENV")
    BY DEF Sections4
  <2>1. CASE j \in 1..5
    BY <2>1, <1>4
  <2>2. CASE j = 6
    <3>1. e1[6] = e[1] /\ e1[6 - 1] = "ended" /\ 1 \in 1..Len(e)
      BY <2>2, <1>4
    <3>2. e[1] \notin {"started", "COPY", "ENV", "ended"}
      BY <1>0, <3>1 DEF Sections4
    <3> QED BY <2>2, <3>1, <3>2
  <2>3. CASE j \notin 1..5 /\ j # 6
    <3>1. PICK i \in 2..Len(e) : j = i + 5
      BY <2>3, <1>4
    <3>2. e1[j] = e[i] /\ e1[j - 1] = e[i - 1] /\ i \in 1..Len(e) /\ i > 1 /\ j > 1
      BY <3>1, <1>4
    <3> QED BY <1>0, <3>2 DEF Sections4
  <2> QED BY <2>1, <2>2, <2>3
<1>8. Len(e1) = Len(s1) + 4 * (m + 1) /\ m + 1 \in Nat
  BY <1>0, <1>3, <1>4
<1> QED BY <1>3, <1>4, <1>6, <1>7, <1>8 DEF Expands, s1, e1

ConcatsAssociate(S) == \A u, v, w \in Seq(S) : (u \o v) \o w = u \o (v \o w)

\* Concatenation is associative.
LEMMA ConcatAssociates == ASSUME NEW S PROVE ConcatsAssociate(S)
BY DEF ConcatsAssociate

\* The commands that are spliced in behind the first ones.
LEMMA SplicedBehind ==
    ASSUME NEW p \in Seq(BuildCommand), NEW t \in Seq(BuildCommand)
    PROVE  Splice(p \o t, Len(p)) = p \o (InjectedCommands \o t)
<1> DEFINE all == p \o t
           i == Len(p)
<1>1. /\ all \in Seq(BuildCommand) /\ Len(all) = i + Len(t) /\ i \in Nat /\ Len(t) \in Nat
      /\ \A j \in 1 .. i + Len(t) : all[j] = IF j <= i THEN p[j] ELSE t[j - i]
  BY ConcatProperties, LenProperties
<1>i. i = Len(p)
  OBVIOUS
<1> HIDE DEF all, i
<1>2. SubSeq(all, 1, i) = p
  <2>1. \A j \in 1..i : all[j] \in BuildCommand
    BY <1>1, ElementOfSeq
  <2>2. /\ SubSeq(all, 1, i) \in Seq(BuildCommand)
        /\ Len(SubSeq(all, 1, i)) = IF 1 <= i THEN i - 1 + 1 ELSE 0
        /\ \A j \in 1 .. i - 1 + 1 : SubSeq(all, 1, i)[j] = all[1 + j - 1]
    BY <1>1, <2>1, SubSeqProperties
  <2>3. Len(SubSeq(all, 1, i)) = Len(p)
    BY <1>1, <1>i, <2>2
  <2>4. \A j \in 1..Len(p) : SubSeq(all, 1, i)[j] = p[j]
    BY <1>1, <1>i, <2>2
  <2> QED BY <2>2, <2>3, <2>4, SeqEqual
<1>3. SubSeq(all, i + 1, Len(all)) = t
  <2>1. \A j \in (i + 1)..Len(all) : all[j] \in BuildCommand
    BY <1>1, ElementOfSeq
  <2>2. /\ SubSeq(all, i + 1, Len(all)) \in Seq(BuildCommand)
        /\ Len(SubSeq(all, i + 1, Len(all))) = IF i + 1 <= Len(all) THEN Len(all) - (i + 1) + 1 ELSE 0
        /\ \A j \in 1 .. Len(all) - (i + 1) + 1 : SubSeq(all, i + 1, Len(all))[j] = all[(i + 1) + j - 1]
    BY <1>1, <2>1, SubSeqProperties
  <2>3. Len(SubSeq(all, i + 1, Len(all))) = Len(t)
    BY <1>1, <2>2
  <2>4. ASSUME NEW j \in 1..Len(t) PROVE SubSeq(all, i + 1, Len(all))[j] = t[j]
    <3>1. j \in 1 .. Len(all) - (i + 1) + 1 /\ (i + 1) + j - 1 = i + j
      BY <1>1
    <3>2. SubSeq(all, i + 1, Len(all))[j] = all[i + j]
      BY <2>2, <3>1
    <3>3. all[i + j] = t[j]
      BY <1>1
    <3> QED BY <3>2, <3>3
  <2> QED BY <2>2, <2>3, <2>4, SeqEqual
<1>4. Splice(all, i) = (p \o InjectedCommands) \o t
  BY <1>2, <1>3 DEF Splice
<1>5. InjectedCommands \in Seq(BuildCommand)
  BY DEF InjectedCommands, BuildCommand
<1>6. (p \o InjectedCommands) \o t = p \o (InjectedCommands \o t)
  BY <1>5, ConcatAssociates DEF ConcatsAssociate
<1> QED BY <1>4, <1>6 DEF all, i

\* Tuples are concatenations.
LEMMA TwoAre ==
    ASSUME NEW a, NEW b
    PROVE  <<a, b>> = <<a>> \o <<b>>
<1> DEFINE S == {a, b}
           l == <<a, b>>
           p == <<a>>
           q == <<b>>
           r == p \o q
<1>1. l \in Seq(S) /\ Len(l) = 2 /\ l[1] = a /\ l[2] = b
  OBVIOUS
<1>2. p \in Seq(S) /\ Len(p) = 1 /\ p[1] = a
  OBVIOUS
<1>3. q \in Seq(S) /\ Len(q) = 1 /\ q[1] = b
  OBVIOUS
<1> HIDE DEF S, l, p, q
<1>4. /\ r \in Seq(S) /\ Len(r) = Len(p) + Len(q)
      /\ \A i \in 1 .. Len(p) + Len(q) : r[i] = IF i <= Len(p) THEN p[i] ELSE q[i - Len(p)]
  BY <1>2, <1>3, ConcatProperties
<1> HIDE DEF r
<1>5. Len(r) = 2 /\ \A i \in 1..2 : r[i] = IF i <= 1 THEN p[i] ELSE q[i - 1]
  BY <1>2, <1>3, <1>4
<1>6. r[1] = a /\ r[2] = b
  BY <1>2, <1>3, <1>5
<1>7. Len(l) = Len(r) /\ \A i \in 1..Len(l) : l[i] = r[i]
  BY <1>1, <1>5, <1>6
<1>8. l = r
  BY <1>1, <1>4, <1>7, SeqEqual
<1> QED BY <1>8 DEF l, r, p, q

\* Of three.
LEMMA ThreeAre ==
    ASSUME NEW a, NEW b, NEW c
    PROVE  <<a, b, c>> = <<a, b>> \o <<c>>
<1> DEFINE S == {a, b, c}
           l == <<a, b, c>>
           p == <<a, b>>
           q == <<c>>
           r == p \o q
<1>1. l \in Seq(S) /\ Len(l) = 3 /\ l[1] = a /\ l[2] = b /\ l[3] = c
  OBVIOUS
<1>2. p \in Seq(S) /\ Len(p) = 2 /\ p[1] = a /\ p[2] = b
  OBVIOUS
<1>3. q \in Seq(S) /\ Len(q) = 1 /\ q[1] = c
  OBVIOUS
<1> HIDE DEF S, l, p, q
<1>4. /\ r \in Seq(S) /\ Len(r) = Len(p) + Len(q)
      /\ \A i \in 1 .. Len(p) + Len(q) : r[i] = IF i <= Len(p) THEN p[i] ELSE q[i - Len(p)]
  BY <1>2, <1>3, ConcatProperties
<1> HIDE DEF r
<1>5. Len(r) = 3 /\ \A i \in 1..3 : r[i] = IF i <= 2 THEN p[i] ELSE q[i - 2]
  BY <1>2, <1>3, <1>4
<1>6. r[1] = a /\ r[2] = b /\ r[3] = c
  BY <1>2, <1>3, <1>5
<1>7. Len(l) = Len(r) /\ \A i \in 1..Len(l) : l[i] = r[i]
  BY <1>1, <1>5, <1>6
<1>8. l = r
  BY <1>1, <1>4, <1>7, SeqEqual
<1> QED BY <1>8 DEF l, r, p, q

\* Of four.
LEMMA FourAre ==
    ASSUME NEW a, NEW b, NEW c, NEW d
    PROVE  <<a, b, c, d>> = <<a, b, c>> \o <<d>>
<1> DEFINE S == {a, b, c, d}
           l == <<a, b, c, d>>
           p == <<a, b, c>>
           q == <<d>>
           r == p \o q
<1>1. l \in Seq(S) /\ Len(l) = 4 /\ l[1] = a /\ l[2] = b /\ l[3] = c /\ l[4] = d
  OBVIOUS
<1>2. p \in Seq(S) /\ Len(p) = 3 /\ p[1] = a /\ p[2] = b /\ p[3] = c
  OBVIOUS
<1>3. q \in Seq(S) /\ Len(q) = 1 /\ q[1] = d
  OBVIOUS
<1> HIDE DEF S, l, p, q
<1>4. /\ r \in Seq(S) /\ Len(r) = Len(p) + Len(q)
      /\ \A i \in 1 .. Len(p) + Len(q) : r[i] = IF i <= Len(p) THEN p[i] ELSE q[i - Len(p)]
  BY <1>2, <1>3, ConcatProperties
<1> HIDE DEF r
<1>5. Len(r) = 4 /\ \A i \in 1..4 : r[i] = IF i <= 3 THEN p[i] ELSE q[i - 3]
  BY <1>2, <1>3, <1>4
<1>6. r[1] = a /\ r[2] = b /\ r[3] = c /\ r[4] = d
  BY <1>2, <1>3, <1>5
<1>7. Len(l) = Len(r) /\ \A i \in 1..Len(l) : l[i] = r[i]
  BY <1>1, <1>5, <1>6
<1>8. l = r
  BY <1>1, <1>4, <1>7, SeqEqual
<1> QED BY <1>8 DEF l, r, p, q

\* Of five, the first one apart.
LEMMA FiveAre ==
    ASSUME NEW a, NEW b, NEW c, NEW d, NEW e
    PROVE  <<a, b, c, d, e>> = <<a>> \o <<b, c, d, e>>
<1> DEFINE S == {a, b, c, d, e}
           l == <<a, b, c, d, e>>
           p == <<a>>
           q == <<b, c, d, e>>
           r == p \o q
<1>1. l \in Seq(S) /\ Len(l) = 5 /\ l[1] = a /\ l[2] = b /\ l[3] = c /\ l[4] = d /\ l[5] = e
  OBVIOUS
<1>2. p \in Seq(S) /\ Len(p) = 1 /\ p[1] = a
  OBVIOUS
<1>3. q \in Seq(S) /\ Len(q) = 4 /\ q[1] = b /\ q[2] = c /\ q[3] = d /\ q[4] = e
  OBVIOUS
<1> HIDE DEF S, l, p, q
<1>4. /\ r \in Seq(S) /\ Len(r) = Len(p) + Len(q)
      /\ \A i \in 1 .. Len(p) + Len(q) : r[i] = IF i <= Len(p) THEN p[i] ELSE q[i - Len(p)]
  BY <1>2, <1>3, ConcatProperties
<1> HIDE DEF r
<1>5. Len(r) = 5 /\ \A i \in 1..5 : r[i] = IF i <= 1 THEN p[i] ELSE q[i - 1]
  BY <1>2, <1>3, <1>4
<1>6. r[1] = a /\ r[2] = b /\ r[3] = c /\ r[4] = d /\ r[5] = e
  BY <1>2, <1>3, <1>5
<1>7. Len(l) = Len(r) /\ \A i \in 1..Len(l) : l[i] = r[i]
  BY <1>1, <1>5, <1>6
<1>8. l = r
  BY <1>1, <1>4, <1>7, SeqEqual
<1> QED BY <1>8 DEF l, r, p, q

\* The injected commands in front of others, one by one.
InFront(S) == \A u \in Seq(S) : InjectedCommands \o u = <<"started">> \o (<<"COPY">> \o (<<"ENV">> \o (<<"ended">> \o u)))

\* The injected commands in front of others, one by one.
LEMMA InjectedInFront ==
    ASSUME NEW S, "started" \in S, "COPY" \in S, "ENV" \in S, "ended" \in S
    PROVE  InFront(S)
<1> SUFFICES ASSUME NEW u \in Seq(S)
             PROVE  InjectedCommands \o u = <<"started">> \o (<<"COPY">> \o (<<"ENV">> \o (<<"ended">> \o u)))
  BY DEF InFront
<1> DEFINE a == "started"
           b == "COPY"
           c == "ENV"
           d == "ended"
<1>0. a \in S /\ b \in S /\ c \in S /\ d \in S /\ InjectedCommands = <<a, b, c, d>>
  BY DEF InjectedCommands
<1> HIDE DEF a, b, c, d
<1>1. /\ <<a>> \in Seq(S) /\ <<b>> \in Seq(S) /\ <<c>> \in Seq(S) /\ <<d>> \in Seq(S)
      /\ <<a, b>> \in Seq(S) /\ <<a, b, c>> \in Seq(S)
  BY <1>0
<1>2. <<a, b>> = <<a>> \o <<b>> /\ <<a, b, c>> = <<a, b>> \o <<c>> /\ <<a, b, c, d>> = <<a, b, c>> \o <<d>>
  <2>1. <<a, b>> = <<a>> \o <<b>>
    BY TwoAre
  <2>2. <<a, b, c>> = <<a, b>> \o <<c>>
    BY ThreeAre
  <2>3. <<a, b, c, d>> = <<a, b, c>> \o <<d>>
    BY FourAre
  <2> QED BY <2>1, <2>2, <2>3
<1>a. ConcatsAssociate(S)
  BY ConcatAssociates
<1>3. /\ <<d>> \o u \in Seq(S) /\ <<c>> \o (<<d>> \o u) \in Seq(S)
  BY <1>1, ConcatProperties
<1>4. <<a, b, c, d>> \o u = <<a, b, c>> \o (<<d>> \o u)
  BY <1>1, <1>2, <1>a DEF ConcatsAssociate
<1>5. <<a, b, c>> \o (<<d>> \o u) = <<a, b>> \o (<<c>> \o (<<d>> \o u))
  BY <1>1, <1>2, <1>3, <1>a DEF ConcatsAssociate
<1>6. <<a, b>> \o (<<c>> \o (<<d>> \o u)) = <<a>> \o (<<b>> \o (<<c>> \o (<<d>> \o u)))
  BY <1>1, <1>2, <1>3, <1>a DEF ConcatsAssociate
<1> QED BY <1>0, <1>4, <1>5, <1>6 DEF a, b, c, d

\* A FROM and the commands that are injected behind it.
LEMMA FromThenSection ==
    ASSUME NEW u \in Seq(Step)
    PROVE  <<"FROM">> \o (InjectedCommands \o u) = Section \o u
<1>1. <<"FROM">> \in Seq(Step) /\ InjectedCommands \in Seq(Step)
  BY DEF InjectedCommands, Step, BuildCommand
<1>2. <<"FROM">> \o InjectedCommands = Section
  BY FiveAre DEF InjectedCommands, Section
<1>3. ConcatsAssociate(Step)
  BY ConcatAssociates
<1>4. <<"FROM">> \o (InjectedCommands \o u) = (<<"FROM">> \o InjectedCommands) \o u
  BY <1>1, <1>3 DEF ConcatsAssociate
<1> QED BY <1>2, <1>4

\* A comment in front is no step.
LEMMA StepsOfFirst ==
    ASSUME NEW t \in Seq(BuildCommand), NEW a \in BuildCommand
    PROVE  Steps(<<a>> \o t) = IF a = "COMMENT" THEN Steps(t) ELSE <<a>> \o Steps(t)
<1>1. Without(<<a>> \o t, "COMMENT") = IF a # "COMMENT" THEN <<a>> \o Without(t, "COMMENT") ELSE Without(t, "COMMENT")
  BY WithoutOfFirst
<1> QED BY <1>1 DEF Steps

\* Only steps are left over.
LEMMA StepsAreSteps == ASSUME NEW t \in Seq(BuildCommand) PROVE Steps(t) \in Seq(Step)
<1>1. Steps(t) \in Seq(BuildCommand) /\ \A i \in 1..Len(Steps(t)) : Steps(t)[i] # "COMMENT"
  BY WithoutLacks DEF Steps
<1>2. \A i \in 1..Len(Steps(t)) : Steps(t)[i] \in Step
  BY <1>1, ElementOfSeq DEF Step
<1> QED BY <1>1, <1>2

\* The steps of an injected section.
LEMMA StepsOfSection ==
    ASSUME NEW t \in Seq(BuildCommand)
    PROVE  Steps(<<"FROM">> \o (InjectedCommands \o t)) = Section \o Steps(t)
<1> DEFINE t4 == <<"ended">> \o t
           t3 == <<"ENV">> \o t4
           t2 == <<"COPY">> \o t3
           t1 == <<"started">> \o t2
<1>1. {"FROM", "started", "COPY", "ENV", "ended"} \subseteq BuildCommand
  BY DEF BuildCommand
<1>2. \A a \in BuildCommand, v \in Seq(BuildCommand) : <<a>> \o v \in Seq(BuildCommand)
  BY ConcatProperties
<1>3. t4 \in Seq(BuildCommand)
  BY <1>1, <1>2
<1>i. InjectedCommands \o t = t1
  <2>1. InFront(BuildCommand)
    BY <1>1, InjectedInFront
  <2> QED BY <2>1 DEF InFront
<1>s4. Steps(t4) = <<"ended">> \o Steps(t)
  BY <1>1, StepsOfFirst
<1> HIDE DEF t4
<1>4. t3 \in Seq(BuildCommand)
  BY <1>1, <1>2, <1>3
<1>s3. Steps(t3) = <<"ENV">> \o Steps(t4)
  BY <1>1, <1>3, StepsOfFirst
<1> HIDE DEF t3
<1>5. t2 \in Seq(BuildCommand)
  BY <1>1, <1>2, <1>4
<1>s2. Steps(t2) = <<"COPY">> \o Steps(t3)
  BY <1>1, <1>4, StepsOfFirst
<1> HIDE DEF t2
<1>6. t1 \in Seq(BuildCommand)
  BY <1>1, <1>2, <1>5
<1>s1. Steps(t1) = <<"started">> \o Steps(t2)
  BY <1>1, <1>5, StepsOfFirst
<1> HIDE DEF t1
<1>s0. Steps(<<"FROM">> \o t1) = <<"FROM">> \o Steps(t1)
  BY <1>1, <1>6, StepsOfFirst
<1>7. Steps(t) \in Seq(Step) /\ {"started", "COPY", "ENV", "ended"} \subseteq Step
  BY StepsAreSteps DEF Step, BuildCommand
<1>8. InjectedCommands \o Steps(t)
        = <<"started">> \o (<<"COPY">> \o (<<"ENV">> \o (<<"ended">> \o Steps(t))))
  <2>1. InFront(Step)
    BY <1>7, InjectedInFront
  <2> QED BY <1>7, <2>1 DEF InFront
<1>9. Steps(t1) = InjectedCommands \o Steps(t)
  BY <1>s1, <1>s2, <1>s3, <1>s4, <1>8
<1> QED BY <1>i, <1>s0, <1>7, <1>9, FromThenSection

\* Whatever the Dockerfile, what Docker executes is its steps, with a section behind each FROM
\* (docker-build-injection.ts:121-141).
LEMMA InjectionExpands ==
    ASSUME NEW f \in Seq({"FROM", "RUN", "COMMENT"})
    PROVE  Expands(Steps(f), Steps(InjectIntoDockerfile(f)), Cardinality(Froms(f)))
<1>1. f \in Seq(BuildCommand)
  BY SeqMonotonic DEF BuildCommand
<1> DEFINE n == Len(f)
           Behind0(k) == SubSeq(f, n - k + 1, n)
           Front0(k) == SubSeq(f, 1, n - k)
           Fr(k) == {i \in 1..n : i > n - k /\ f[i] = "FROM"}
<1>2. n \in Nat /\ DOMAIN f = 1..n /\ \A i \in 1..n : f[i] \in {"FROM", "RUN", "COMMENT"} /\ f[i] \in BuildCommand
  BY LenProperties, ElementOfSeq DEF BuildCommand
<1>3. PICK g \in [0..Len(f) -> Seq(BuildCommand)] : InjectSteps(f, g) /\ InjectIntoDockerfile(f) = g[Len(f)]
  BY <1>1, InjectDefines
<1>4. /\ g[0] = f
      /\ \A k \in 1..n : g[k] = IF f[n - k + 1] = "FROM" THEN Splice(g[k - 1], n - k + 1) ELSE g[k - 1]
  BY <1>3 DEF InjectSteps
<1> DEFINE Done(k) == \E t \in Seq(BuildCommand) :
                          /\ g[k] = Front0(k) \o t
                          /\ Expands(Steps(Behind0(k)), Steps(t), Cardinality(Fr(k)))
           T == {k \in 0..n : Done(k)}
<1>n. n = Len(f)
  OBVIOUS
<1> HIDE DEF n
<1>5. 0 \in T
  <2>1. Front0(0) = f
    BY <1>1, <1>2, <1>n, SubSeqFull
  <2>2. Behind0(0) = <<>>
    BY <1>2, SubSeqEmpty
  <2>3. Fr(0) = {}
    BY <1>2
  <2>4. f \o <<>> = f /\ <<>> \in Seq(BuildCommand)
    BY <1>1, ConcatEmptySeq
  <2>5. Steps(<<>>) = <<>> /\ Cardinality({}) = 0
    BY WithoutOfEmpty, FS_EmptySet DEF Steps
  <2>6. g[0] = Front0(0) \o <<>>
    BY <1>4, <2>1, <2>4
  <2>7. Expands(Steps(Behind0(0)), Steps(<<>>), Cardinality(Fr(0)))
    BY <2>2, <2>3, <2>5, EmptyExpands
  <2> QED BY <1>2, <2>4, <2>6, <2>7
<1>6. ASSUME NEW k \in 1..n, k - 1 \in T PROVE k \in T
  <2> DEFINE i == n - k + 1
  <2>1. i \in 1..n /\ n - (k - 1) = i /\ n - k = i - 1 /\ n - (k - 1) + 1 = i + 1 /\ n - k + 1 = i
    BY <1>2
  <2>i. i = n - k + 1
    OBVIOUS
  <2> HIDE DEF i
  <2>2. PICK t \in Seq(BuildCommand) :
            /\ g[k - 1] = SubSeq(f, 1, i) \o t
            /\ Expands(Steps(SubSeq(f, i + 1, n)), Steps(t), Cardinality(Fr(k - 1)))
    BY <1>6, <2>1
  <2> DEFINE rest == SubSeq(f, i + 1, n)
             q == SubSeq(f, 1, i - 1)
             m == Cardinality(Fr(k - 1))
  <2>3. SubSeq(f, i, n) = <<f[i]>> \o rest
    <3>1. n \in i..Len(f) /\ i \in 1..Len(f)
      BY <1>2, <1>n, <2>1
    <3> QED BY <1>1, <3>1, SubSeqRecursiveFirst
  <2>4. SubSeq(f, 1, i) = q \o <<f[i]>>
    <3>1. 1 \in 1..Len(f) /\ i \in 1..Len(f)
      BY <1>2, <1>n, <2>1
    <3> QED BY <1>1, <3>1, SubSeqRecursiveSecond
  <2>5. rest \in Seq(BuildCommand) /\ q \in Seq(BuildCommand) /\ SubSeq(f, 1, i) \in Seq(BuildCommand) /\ Len(SubSeq(f, 1, i)) = i
    BY <1>2, <2>1, SubSeqProperties
  <2>6. Behind0(k) = <<f[i]>> \o rest /\ Front0(k) = q
    BY <2>1, <2>3
  <2>f. f[i] \in BuildCommand /\ f[i] \in {"FROM", "RUN", "COMMENT"}
    BY <1>2, <2>1
  <2> DEFINE p == SubSeq(f, 1, i)
  <2>7. g[k] = IF f[i] = "FROM" THEN Splice(p \o t, i) ELSE p \o t
    BY <1>4, <2>1, <2>2
  <2> HIDE DEF rest, q, p
  <2>8. p \in Seq(BuildCommand) /\ Len(p) = i /\ p = q \o <<f[i]>> /\ q \in Seq(BuildCommand)
    BY <2>4, <2>5 DEF p
  <2>e. Expands(Steps(rest), Steps(t), m)
    BY <2>2 DEF rest
  <2>fr. IsFiniteSet(Fr(k - 1))
    <3>1. IsFiniteSet(1..n)
      BY <1>2, FS_Interval
    <3> QED BY <3>1, FS_Subset
  <2>9. CASE f[i] = "FROM"
    <3> DEFINE u == <<"FROM">> \o (InjectedCommands \o t)
    <3>1. InjectedCommands \o t \in Seq(BuildCommand) /\ <<"FROM">> \in Seq(BuildCommand)
      <4>1. InjectedCommands \in Seq(BuildCommand) /\ <<"FROM">> \in Seq(BuildCommand)
        BY DEF InjectedCommands, BuildCommand
      <4> QED BY <4>1, ConcatProperties
    <3>2. u \in Seq(BuildCommand)
      BY <3>1, ConcatProperties
    <3>3. g[k] = p \o (InjectedCommands \o t)
      BY <2>7, <2>8, <2>9, SplicedBehind
    <3>a. ConcatsAssociate(BuildCommand)
      BY ConcatAssociates
    <3>c. \A v \in Seq(BuildCommand) : (q \o <<"FROM">>) \o v = q \o (<<"FROM">> \o v)
      BY <2>8, <3>1, <3>a DEF ConcatsAssociate
    <3>d. p = q \o <<"FROM">>
      BY <2>8, <2>9
    <3>4. g[k] = q \o u
      BY <3>1, <3>3, <3>c, <3>d
    <3>5. Steps(u) = Section \o Steps(t)
      BY StepsOfSection
    <3>6. Steps(Behind0(k)) = <<"FROM">> \o Steps(rest)
      BY <2>5, <2>6, <2>9, <2>f, StepsOfFirst DEF rest
    <3>7. Cardinality(Fr(k)) = m + 1
      <4>1. Fr(k) = Fr(k - 1) \cup {i} /\ i \notin Fr(k - 1)
        BY <1>2, <2>1, <2>9
      <4> QED BY <2>fr, <4>1, FS_AddElement
    <3>8. Expands(Steps(Behind0(k)), Steps(u), Cardinality(Fr(k)))
      BY <2>e, <3>5, <3>6, <3>7, FromExpands
    <3>9. g[k] = Front0(k) \o u
      BY <2>6, <3>4
    <3>10. Done(k)
      BY <3>2, <3>8, <3>9
    <3> HIDE DEF Done
    <3> QED BY <3>10, <1>2
  <2>10. CASE f[i] # "FROM"
    <3> DEFINE u == <<f[i]>> \o t
    <3>1. u \in Seq(BuildCommand) /\ <<f[i]>> \in Seq(BuildCommand)
      <4>1. <<f[i]>> \in Seq(BuildCommand)
        BY <2>f
      <4> QED BY <4>1, ConcatProperties
    <3>a. ConcatsAssociate(BuildCommand)
      BY ConcatAssociates
    <3>4. g[k] = q \o u
      <4>1. g[k] = (q \o <<f[i]>>) \o t
        BY <2>7, <2>8, <2>10
      <4> QED BY <4>1, <2>8, <3>1, <3>a DEF ConcatsAssociate
    <3>6. /\ Steps(u) = IF f[i] = "COMMENT" THEN Steps(t) ELSE <<f[i]>> \o Steps(t)
          /\ Steps(Behind0(k)) = IF f[i] = "COMMENT" THEN Steps(rest) ELSE <<f[i]>> \o Steps(rest)
      BY <2>5, <2>6, <2>f, StepsOfFirst DEF rest
    <3>7. Cardinality(Fr(k)) = m
      <4>1. Fr(k) = Fr(k - 1)
        BY <1>2, <2>1, <2>10
      <4> QED BY <4>1
    <3>8. Expands(Steps(Behind0(k)), Steps(u), Cardinality(Fr(k)))
      <4>1. CASE f[i] = "COMMENT"
        BY <4>1, <2>e, <3>6, <3>7
      <4>2. CASE f[i] # "COMMENT"
        <5>1. f[i] = "RUN"
          BY <2>f, <2>10, <4>2
        <5> QED BY <5>1, <2>e, <3>6, <3>7, RunExpands
      <4> QED BY <4>1, <4>2
    <3>9. g[k] = Front0(k) \o u
      BY <2>6, <3>4
    <3>10. Done(k)
      BY <3>1, <3>8, <3>9
    <3> HIDE DEF Done
    <3> QED BY <3>10, <1>2
  <2> QED BY <2>9, <2>10
<1> HIDE DEF T
<1>7. 0..n \subseteq T
  BY <1>2, <1>5, <1>6, BoundedInduction
<1>8. PICK t \in Seq(BuildCommand) :
          /\ g[n] = Front0(n) \o t
          /\ Expands(Steps(Behind0(n)), Steps(t), Cardinality(Fr(n)))
  <2>1. n \in 0..n
    BY <1>2
  <2>2. Done(n)
    BY <1>7, <2>1 DEF T
  <2> QED BY <2>2
<1>9. Front0(n) = <<>> /\ Behind0(n) = f /\ Fr(n) = Froms(f)
  <2>1. n - n = 0 /\ n - n + 1 = 1
    BY <1>2
  <2>2. SubSeq(f, 1, 0) = <<>>
    BY SubSeqEmpty
  <2>3. SubSeq(f, 1, n) = f
    BY <1>1, <1>n, SubSeqFull
  <2>4. Fr(n) = Froms(f)
    BY <1>2 DEF Froms
  <2> QED BY <2>1, <2>2, <2>3, <2>4
<1>10. g[n] = t
  BY <1>8, <1>9, ConcatEmptySeq
<1> QED BY <1>3, <1>8, <1>9, <1>10, <1>n

\* The steps among the first n lines that were shown.
VisibleOf(lines, n) == Cardinality({i \in 1..n : lines[i].kind = "step"})

Line == {[kind |-> "enabling"]} \cup [kind : {"step"}, cmd : Step, k : Nat, n : Nat]

ShownRight(s, k, lines) ==
    /\ lines \in Seq(Line)
    /\ VisibleOf(lines, Len(lines)) = k
    /\ \A i \in 1..Len(lines) :
           /\ lines[i].kind = "step" =>
                  /\ VisibleOf(lines, i) \in 1..Len(s)
                  /\ lines[i] = [kind |-> "step", cmd |-> s[VisibleOf(lines, i)],
                                 k |-> VisibleOf(lines, i), n |-> Len(s)]
           /\ lines[i].kind = "enabling" =>
                  i > 1 /\ lines[i - 1].kind = "step" /\ lines[i - 1].cmd = "FROM"

EndsWithFrom(lines) == Len(lines) > 0 /\ lines[Len(lines)].kind = "step" /\ lines[Len(lines)].cmd = "FROM"

\* One more line.
LEMMA LineIsAdded ==
    ASSUME NEW lines \in Seq(Line), NEW x \in Line
    PROVE  LET more == lines \o <<x>>
           IN  /\ more \in Seq(Line) /\ Len(more) = Len(lines) + 1 /\ Len(lines) \in Nat
               /\ more[Len(lines) + 1] = x
               /\ \A i \in 1..Len(lines) : more[i] = lines[i] /\ VisibleOf(more, i) = VisibleOf(lines, i)
               /\ VisibleOf(more, Len(lines) + 1)
                      = IF x.kind = "step" THEN VisibleOf(lines, Len(lines)) + 1 ELSE VisibleOf(lines, Len(lines))
               /\ VisibleOf(lines, Len(lines)) \in Nat
<1> DEFINE more == lines \o <<x>>
           n == Len(lines)
           V(l, i) == {j \in 1..i : l[j].kind = "step"}
<1>1. n \in Nat /\ more \in Seq(Line) /\ Len(more) = n + 1 /\ more[n + 1] = x /\ \A i \in 1..n : more[i] = lines[i]
  <2>1. <<x>> \in Seq(Line) /\ Len(<<x>>) = 1 /\ <<x>>[1] = x
    OBVIOUS
  <2> QED BY <2>1, ConcatProperties, LenProperties
<1> HIDE DEF more, n
<1>2. \A i \in 1..n : V(more, i) = V(lines, i)
  BY <1>1
<1>3. V(more, n + 1) = IF x.kind = "step" THEN V(lines, n) \cup {n + 1} ELSE V(lines, n)
  BY <1>1
<1>4. IsFiniteSet(V(lines, n)) /\ n + 1 \notin V(lines, n) /\ Cardinality(V(lines, n)) \in Nat
  <2>1. IsFiniteSet(1..n)
    BY <1>1, FS_Interval
  <2>2. IsFiniteSet(V(lines, n))
    BY <2>1, FS_Subset
  <2>3. Cardinality(V(lines, n)) \in Nat
    BY <2>2, FS_CardinalityType
  <2> QED BY <1>1, <2>2, <2>3
<1> HIDE DEF V
<1>5. Cardinality(V(lines, n) \cup {n + 1}) = Cardinality(V(lines, n)) + 1
  BY <1>4, FS_AddElement
<1>6. Cardinality(V(more, n + 1)) = IF x.kind = "step" THEN Cardinality(V(lines, n)) + 1 ELSE Cardinality(V(lines, n))
  BY <1>3, <1>5
<1>7. \A l, i : VisibleOf(l, i) = Cardinality(V(l, i))
  BY DEF VisibleOf, V
<1> QED BY <1>1, <1>2, <1>4, <1>6, <1>7 DEF more, n

\* The next step of the original is shown.
LEMMA StepIsShown ==
    ASSUME NEW s \in Seq(Step), NEW k, NEW lines, ShownRight(s, k, lines), k + 1 \in 1..Len(s)
    PROVE  LET x == [kind |-> "step", cmd |-> s[k + 1], k |-> k + 1, n |-> Len(s)]
           IN  /\ ShownRight(s, k + 1, lines \o <<x>>)
               /\ s[k + 1] = "FROM" => EndsWithFrom(lines \o <<x>>)
<1> DEFINE x == [kind |-> "step", cmd |-> s[k + 1], k |-> k + 1, n |-> Len(s)]
           more == lines \o <<x>>
<1>1. Len(s) \in Nat /\ s[k + 1] \in Step
  BY ElementOfSeq, LenProperties
<1>k. k + 1 \in Nat
  BY <1>1
<1>2. x \in Line /\ x.kind = "step" /\ x.cmd = s[k + 1]
  BY <1>1, <1>k DEF Line
<1> DEFINE y == x
<1>x. y = x /\ y = [kind |-> "step", cmd |-> s[k + 1], k |-> k + 1, n |-> Len(s)]
  OBVIOUS
<1> HIDE DEF x
<1>3. lines \in Seq(Line) /\ VisibleOf(lines, Len(lines)) = k
  BY DEF ShownRight
<1>4. /\ more \in Seq(Line) /\ Len(more) = Len(lines) + 1 /\ Len(lines) \in Nat
      /\ more[Len(lines) + 1] = x
      /\ \A i \in 1..Len(lines) : more[i] = lines[i] /\ VisibleOf(more, i) = VisibleOf(lines, i)
      /\ VisibleOf(more, Len(lines) + 1) = k + 1
  BY <1>2, <1>3, LineIsAdded
<1> HIDE DEF more
<1>5. ASSUME NEW i \in 1..Len(more)
      PROVE  /\ more[i].kind = "step" =>
                    /\ VisibleOf(more, i) \in 1..Len(s)
                    /\ more[i] = [kind |-> "step", cmd |-> s[VisibleOf(more, i)],
                                  k |-> VisibleOf(more, i), n |-> Len(s)]
             /\ more[i].kind = "enabling" =>
                    i > 1 /\ more[i - 1].kind = "step" /\ more[i - 1].cmd = "FROM"
  <2>1. CASE i \in 1..Len(lines)
    <3>1. more[i] = lines[i] /\ VisibleOf(more, i) = VisibleOf(lines, i)
      BY <2>1, <1>4
    <3>2. i > 1 => more[i - 1] = lines[i - 1]
      BY <2>1, <1>4
    <3>3. /\ lines[i].kind = "step" =>
                  /\ VisibleOf(lines, i) \in 1..Len(s)
                  /\ lines[i] = [kind |-> "step", cmd |-> s[VisibleOf(lines, i)],
                                 k |-> VisibleOf(lines, i), n |-> Len(s)]
          /\ lines[i].kind = "enabling" =>
                  i > 1 /\ lines[i - 1].kind = "step" /\ lines[i - 1].cmd = "FROM"
      BY <2>1 DEF ShownRight
    <3> QED BY <3>1, <3>2, <3>3
  <2>2. CASE i = Len(lines) + 1
    <3>1. more[i] = x /\ VisibleOf(more, i) = k + 1
      BY <2>2, <1>4
    <3>2. more[i].kind = "step"
      BY <3>1, <1>2
    <3> QED BY <3>1, <3>2, <1>x
  <2> QED BY <1>4, <2>1, <2>2
<1>6. ShownRight(s, k + 1, more)
  BY <1>4, <1>5 DEF ShownRight
<1>7. s[k + 1] = "FROM" => EndsWithFrom(more)
  BY <1>2, <1>4 DEF EndsWithFrom
<1> QED BY <1>6, <1>7 DEF more, x

\* The message that takes the place of an injected section.
LEMMA EnablingIsShown ==
    ASSUME NEW s, NEW k, NEW lines, ShownRight(s, k, lines), EndsWithFrom(lines)
    PROVE  ShownRight(s, k, lines \o <<[kind |-> "enabling"]>>)
<1> DEFINE x == [kind |-> "enabling"]
           more == lines \o <<x>>
<1>2. x \in Line /\ x.kind = "enabling"
  BY DEF Line
<1> HIDE DEF x
<1>3. lines \in Seq(Line) /\ VisibleOf(lines, Len(lines)) = k
  BY DEF ShownRight
<1>4. /\ more \in Seq(Line) /\ Len(more) = Len(lines) + 1 /\ Len(lines) \in Nat
      /\ more[Len(lines) + 1] = x
      /\ \A i \in 1..Len(lines) : more[i] = lines[i] /\ VisibleOf(more, i) = VisibleOf(lines, i)
      /\ VisibleOf(more, Len(lines) + 1) = k
  BY <1>2, <1>3, LineIsAdded
<1> HIDE DEF more
<1>5. ASSUME NEW i \in 1..Len(more)
      PROVE  /\ more[i].kind = "step" =>
                    /\ VisibleOf(more, i) \in 1..Len(s)
                    /\ more[i] = [kind |-> "step", cmd |-> s[VisibleOf(more, i)],
                                  k |-> VisibleOf(more, i), n |-> Len(s)]
             /\ more[i].kind = "enabling" =>
                    i > 1 /\ more[i - 1].kind = "step" /\ more[i - 1].cmd = "FROM"
  <2>1. CASE i \in 1..Len(lines)
    <3>1. more[i] = lines[i] /\ VisibleOf(more, i) = VisibleOf(lines, i)
      BY <2>1, <1>4
    <3>2. i > 1 => more[i - 1] = lines[i - 1]
      BY <2>1, <1>4
    <3>3. /\ lines[i].kind = "step" =>
                  /\ VisibleOf(lines, i) \in 1..Len(s)
                  /\ lines[i] = [kind |-> "step", cmd |-> s[VisibleOf(lines, i)],
                                 k |-> VisibleOf(lines, i), n |-> Len(s)]
          /\ lines[i].kind = "enabling" =>
                  i > 1 /\ lines[i - 1].kind = "step" /\ lines[i - 1].cmd = "FROM"
      BY <2>1 DEF ShownRight
    <3> QED BY <3>1, <3>2, <3>3
  <2>2. CASE i = Len(lines) + 1
    <3>1. more[i].kind = "enabling" /\ i > 1
      BY <2>2, <1>2, <1>4 DEF EndsWithFrom
    <3>2. more[i - 1] = lines[Len(lines)]
      BY <2>2, <1>4 DEF EndsWithFrom
    <3> QED BY <3>1, <3>2 DEF EndsWithFrom
  <2> QED BY <1>4, <2>1, <2>2
<1>6. ShownRight(s, k, more)
  BY <1>4, <1>5 DEF ShownRight
<1> QED BY <1>6 DEF more, x

\* Where Docker and the pipeline are while they execute e, which s was expanded to.
BuildShape(s, e, c, a, i, h, t, k, lines) ==
    /\ Counts(c, s, e)
    /\ a \in 0..Len(e) /\ i \in BOOLEAN /\ (i => a > 0)
    /\ h = CASE a > 0 /\ e[a] \in {"started", "COPY", "ENV"} -> "all"
             [] a > 0 /\ e[a] = "ended" /\ i -> "until-next"
             [] OTHER -> "none"
    /\ t \in {0, Len(s)}
    /\ k = c[a]
    /\ ShownRight(s, k, lines)
    /\ a > 0 /\ e[a] = "FROM" => EndsWithFrom(lines)

BuildInv ==
    /\ dockerfile \in Dockerfile
    /\ ~faked => /\ ~leaked
                 /\ \E c : BuildShape(Steps(dockerfile), Executed, c, at, inStep, hide, total, step, shown)

\* The Dockerfile of the build expands, and the number of added commands is that of its sections.
LEMMA DockerfileExpands ==
    ASSUME dockerfile \in Dockerfile
    PROVE  /\ Expands(Steps(dockerfile), Executed, Cardinality(Froms(dockerfile)))
           /\ CommandsAdded(dockerfile) = Cardinality(Froms(dockerfile)) * 4
<1>1. dockerfile \in Seq({"FROM", "RUN", "COMMENT"})
  BY DockerBuildAssumption
<1>2. Len(InjectedCommands) = 4
  BY DEF InjectedCommands
<1> QED BY <1>1, <1>2, InjectionExpands DEF Executed, CommandsAdded

\* Nothing is executed and nothing shown.
LEMMA BuildInitially == BuildInit => BuildInv
<1> SUFFICES ASSUME BuildInit PROVE BuildInv
  OBVIOUS
<1>1. dockerfile \in Dockerfile
  BY DEF BuildInit
<1>2. Expands(Steps(dockerfile), Executed, Cardinality(Froms(dockerfile)))
  BY <1>1, DockerfileExpands
<1>3. PICK c : Counts(c, Steps(dockerfile), Executed)
  BY <1>2 DEF Expands
<1>4. Len(Executed) \in Nat /\ c[0] = 0
  BY <1>2, <1>3, LenProperties DEF Expands, Counts
<1>5. ShownRight(Steps(dockerfile), 0, <<>>)
  <2>1. <<>> \in Seq(Line) /\ Len(<<>>) = 0 /\ 1..0 = {}
    OBVIOUS
  <2>2. VisibleOf(<<>>, 0) = 0
    BY <2>1, FS_EmptySet DEF VisibleOf
  <2> QED BY <2>1, <2>2 DEF ShownRight
<1>6. BuildShape(Steps(dockerfile), Executed, c, at, inStep, hide, total, step, shown)
  <2>1. at = 0 /\ inStep = FALSE /\ hide = "none" /\ total = 0 /\ step = 0 /\ shown = <<>>
    BY DEF BuildInit
  <2>2. BuildShape(Steps(dockerfile), Executed, c, 0, FALSE, "none", 0, 0, <<>>)
    BY <1>3, <1>4, <1>5 DEF BuildShape
  <2> QED BY <2>1, <2>2
<1> QED BY <1>1, <1>6 DEF BuildInv, BuildInit

\* What the pipeline does with a line, in the values that it has read.
PipelineOf(line, added, h, t, k, lines, h1, t1, k1, lines1) ==
    LET isStep == line.kind = "step"
        counted == IF isStep /\ t = 0 THEN line.count - added ELSE t
        starts == isStep /\ line.cmd = "started"
        skipped == h = "all" \/ (h = "until-next" /\ line.kind \in {"step", "text"})
        out == CASE starts -> <<[kind |-> "enabling"]>>
                 [] isStep /\ ~starts -> <<[kind |-> "step", cmd |-> line.cmd, k |-> k + 1, n |-> counted]>>
                 [] OTHER -> <<>>
    IN  /\ t1 = counted
        /\ h1 = CASE starts -> "all"
                  [] h = "all" /\ isStep /\ line.cmd = "ended" -> "until-next"
                  [] h = "until-next" /\ line.kind = "end" -> "none"
                  [] OTHER -> h
        /\ k1 = IF isStep /\ ~starts /\ ~skipped THEN k + 1 ELSE k
        /\ lines1 = IF starts \/ ~skipped THEN lines \o out ELSE lines

\* The next step begins.
LEMMA StartKeepsShape ==
    ASSUME NEW s, NEW e, NEW m, Expands(s, e, m),
           NEW c, NEW a, NEW h, NEW t, NEW k, NEW lines,
           BuildShape(s, e, c, a, FALSE, h, t, k, lines), a < Len(e),
           NEW h1, NEW t1, NEW k1, NEW lines1,
           PipelineOf([kind |-> "step", cmd |-> e[a + 1], count |-> Len(e)], m * 4, h, t, k, lines, h1, t1, k1, lines1)
    PROVE  BuildShape(s, e, c, a + 1, TRUE, h1, t1, k1, lines1)
<1>1. /\ s \in Seq(Step) /\ e \in Seq(Step) /\ m \in Nat /\ Len(e) = Len(s) + 4 * m
      /\ Len(s) \in Nat /\ Len(e) \in Nat /\ Sections4(e)
  BY LenProperties DEF Expands
<1>2. /\ Counts(c, s, e) /\ a \in 0..Len(e)
      /\ h = CASE a > 0 /\ e[a] \in {"started", "COPY", "ENV"} -> "all"
               [] OTHER -> "none"
      /\ t \in {0, Len(s)} /\ k = c[a] /\ ShownRight(s, k, lines)
      /\ a > 0 /\ e[a] = "FROM" => EndsWithFrom(lines)
  BY DEF BuildShape
<1> DEFINE b == a + 1
           cmd == e[b]
<1>3. b \in 1..Len(e) /\ b > 0 /\ b - 1 = a /\ (b > 1 <=> a > 0) /\ b \in 0..Len(e)
  BY <1>1, <1>2
<1>4. cmd \in Step
  BY <1>1, <1>3, ElementOfSeq
<1>5. /\ cmd = "started" => a > 0 /\ e[a] = "FROM"
      /\ cmd = "COPY" <=> (a > 0 /\ e[a] = "started")
      /\ cmd = "ENV" <=> (a > 0 /\ e[a] = "COPY")
      /\ cmd = "ended" <=> (a > 0 /\ e[a] = "ENV")
  BY <1>1, <1>3 DEF Sections4
<1>6. IF cmd \in {"FROM", "RUN"}
      THEN c[b] \in 1..Len(s) /\ c[b] = k + 1 /\ cmd = s[c[b]]
      ELSE c[b] = k
  BY <1>2, <1>3 DEF Counts
<1>b. b = a + 1 /\ cmd = e[a + 1]
  OBVIOUS
<1> HIDE DEF b, cmd
<1>7. PipelineOf([kind |-> "step", cmd |-> cmd, count |-> Len(e)], m * 4, h, t, k, lines, h1, t1, k1, lines1)
  BY <1>b
<1>8. /\ t1 = IF t = 0 THEN Len(e) - m * 4 ELSE t
      /\ h1 = CASE cmd = "started" -> "all"
                [] h = "all" /\ cmd = "ended" -> "until-next"
                [] OTHER -> h
      /\ k1 = IF cmd # "started" /\ h = "none" THEN k + 1 ELSE k
      /\ lines1 = CASE cmd = "started" -> lines \o <<[kind |-> "enabling"]>>
                    [] cmd # "started" /\ h = "none" -> lines \o <<[kind |-> "step", cmd |-> cmd, k |-> k + 1, n |-> t1]>>
                    [] OTHER -> lines
  <2> DEFINE line == [kind |-> "step", cmd |-> cmd, count |-> Len(e)]
  <2>1. line.kind = "step" /\ line.cmd = cmd /\ line.count = Len(e)
    OBVIOUS
  <2>2. h \in {"all", "none"}
    BY <1>2
  <2>3. PipelineOf(line, m * 4, h, t, k, lines, h1, t1, k1, lines1)
    BY <1>7
  <2> HIDE DEF line
  <2>4. t1 = IF t = 0 THEN Len(e) - m * 4 ELSE t
    BY <2>1, <2>3 DEF PipelineOf
  <2>5. h1 = CASE cmd = "started" -> "all"
               [] h = "all" /\ cmd = "ended" -> "until-next"
               [] OTHER -> h
    BY <2>1, <2>2, <2>3 DEF PipelineOf
  <2>6. k1 = IF cmd # "started" /\ h = "none" THEN k + 1 ELSE k
    BY <2>1, <2>2, <2>3 DEF PipelineOf
  <2>7. CASE cmd = "started"
    <3>1. lines1 = lines \o <<[kind |-> "enabling"]>>
      BY <2>1, <2>2, <2>3, <2>7 DEF PipelineOf
    <3> QED BY <2>4, <2>5, <2>6, <2>7, <3>1
  <2>8. CASE cmd # "started" /\ h = "none"
    <3>1. t1 = (IF t = 0 THEN line.count - m * 4 ELSE t)
      BY <2>1, <2>3 DEF PipelineOf
    <3>2. lines1 = lines \o <<[kind |-> "step", cmd |-> line.cmd, k |-> k + 1, n |-> IF line.kind = "step" /\ t = 0 THEN line.count - m * 4 ELSE t]>>
      BY <2>1, <2>3, <2>8 DEF PipelineOf
    <3>3. lines1 = lines \o <<[kind |-> "step", cmd |-> cmd, k |-> k + 1, n |-> t1]>>
      BY <2>1, <3>1, <3>2
    <3> QED BY <2>4, <2>5, <2>6, <2>8, <3>3
  <2>9. CASE cmd # "started" /\ h = "all"
    <3>1. lines1 = lines
      BY <2>1, <2>3, <2>9 DEF PipelineOf
    <3> QED BY <2>4, <2>5, <2>6, <2>9, <3>1
  <2> QED BY <2>2, <2>7, <2>8, <2>9
<1>9. t1 = Len(s)
  BY <1>1, <1>2, <1>8
<1>10. CASE cmd = "started"
  <2>1. ShownRight(s, k, lines1)
    BY <1>2, <1>5, <1>8, <1>10, EnablingIsShown
  <2>2. h1 = "all" /\ k1 = k /\ c[b] = k
    BY <1>6, <1>8, <1>10
  <2> QED BY <1>2, <1>3, <1>9, <1>10, <1>b, <2>1, <2>2 DEF BuildShape
<1>11. CASE cmd \in {"COPY", "ENV", "ended"}
  <2>1. h = "all"
    BY <1>2, <1>5, <1>11
  <2>2. lines1 = lines /\ k1 = k /\ c[b] = k /\ h1 = IF cmd = "ended" THEN "until-next" ELSE "all"
    BY <1>6, <1>8, <1>11, <2>1
  <2> QED BY <1>2, <1>3, <1>9, <1>11, <1>b, <2>2 DEF BuildShape
<1>12. CASE cmd \in {"FROM", "RUN"}
  <2>1. h = "none"
    BY <1>2, <1>5, <1>12
  <2>2. lines1 = lines \o <<[kind |-> "step", cmd |-> cmd, k |-> k + 1, n |-> Len(s)]>> /\ k1 = k + 1 /\ h1 = "none"
    BY <1>8, <1>9, <1>12, <2>1
  <2>3. k + 1 \in 1..Len(s) /\ cmd = s[k + 1] /\ c[b] = k + 1
    BY <1>6, <1>12
  <2>4. ShownRight(s, k + 1, lines1) /\ (cmd = "FROM" => EndsWithFrom(lines1))
    BY <1>1, <1>2, <2>2, <2>3, StepIsShown
  <2> QED BY <1>2, <1>3, <1>9, <1>12, <1>b, <2>2, <2>3, <2>4 DEF BuildShape
<1> QED BY <1>4, <1>10, <1>11, <1>12 DEF Step, BuildCommand

\* Its output, which is no output of an injected command unless it is hidden.
LEMMA PrintKeepsShape ==
    ASSUME NEW s, NEW e, NEW m, Expands(s, e, m),
           NEW c, NEW a, NEW h, NEW t, NEW k, NEW lines,
           BuildShape(s, e, c, a, TRUE, h, t, k, lines),
           NEW h1, NEW t1, NEW k1, NEW lines1, NEW kind \in {"text", "aux"},
           PipelineOf([kind |-> kind, cmd |-> e[a]], m * 4, h, t, k, lines, h1, t1, k1, lines1)
    PROVE  /\ BuildShape(s, e, c, a, TRUE, h1, t1, k1, lines1)
           /\ h = "none" => e[a] \notin {"started", "COPY", "ENV", "ended"}
<1>1. lines \in Seq(Line) /\ h \in {"all", "until-next", "none"} /\ a > 0
  BY DEF BuildShape, ShownRight
<1>2. lines \o <<>> = lines
  BY <1>1, ConcatEmptySeq
<1>3. h1 = h /\ t1 = t /\ k1 = k /\ lines1 = lines
  BY <1>1, <1>2 DEF PipelineOf
<1>4. h = "none" => e[a] \notin {"started", "COPY", "ENV", "ended"}
  BY <1>1 DEF BuildShape
<1> QED BY <1>3, <1>4

\* It ends.
LEMMA EndKeepsShape ==
    ASSUME NEW s, NEW e, NEW m, Expands(s, e, m),
           NEW c, NEW a, NEW h, NEW t, NEW k, NEW lines,
           BuildShape(s, e, c, a, TRUE, h, t, k, lines),
           NEW h1, NEW t1, NEW k1, NEW lines1,
           PipelineOf([kind |-> "end", cmd |-> e[a]], m * 4, h, t, k, lines, h1, t1, k1, lines1)
    PROVE  BuildShape(s, e, c, a, FALSE, h1, t1, k1, lines1)
<1>1. /\ lines \in Seq(Line)
      /\ h = CASE e[a] \in {"started", "COPY", "ENV"} -> "all"
               [] e[a] = "ended" -> "until-next"
               [] OTHER -> "none"
      /\ a > 0
  BY DEF BuildShape, ShownRight
<1>2. lines \o <<>> = lines
  BY <1>1, ConcatEmptySeq
<1>3. t1 = t /\ k1 = k /\ lines1 = lines /\ h1 = IF h = "until-next" THEN "none" ELSE h
  BY <1>1, <1>2 DEF PipelineOf
<1>4. h1 = IF e[a] \in {"started", "COPY", "ENV"} THEN "all" ELSE "none"
  BY <1>1, <1>3
<1> QED BY <1>1, <1>3, <1>4 DEF BuildShape

\* The pipeline, in the values before and after a line.
LEMMA PipelineReads ==
    ASSUME NEW line, Pipeline(line)
    PROVE  /\ PipelineOf(line, CommandsAdded(dockerfile), hide, total, step, shown, hide', total', step', shown')
           /\ leaked' = (leaked \/ (/\ ~(hide = "all" \/ (hide = "until-next" /\ line.kind \in {"step", "text"}))
                                    /\ line.kind = "text" /\ line.cmd \in ToSet(InjectedCommands)))
BY DEF Pipeline, PipelineOf

\* The injected commands, as a set.
LEMMA InjectedAre == ToSet(InjectedCommands) = {"started", "COPY", "ENV", "ended"}
<1>1. DOMAIN InjectedCommands = {1, 2, 3, 4}
  BY DEF InjectedCommands
<1>2. /\ InjectedCommands[1] = "started" /\ InjectedCommands[2] = "COPY"
      /\ InjectedCommands[3] = "ENV" /\ InjectedCommands[4] = "ended"
  BY DEF InjectedCommands
<1> QED BY <1>1, <1>2 DEF ToSet

\* Docker and the pipeline of its output keep the shape, line by line
\* (docker-build-injection.ts:31-119).
LEMMA BuildStays == BuildInv /\ [BuildNext]_buildVars => BuildInv'
<1> SUFFICES ASSUME BuildInv, [BuildNext]_buildVars PROVE BuildInv'
  OBVIOUS
<1>1. dockerfile \in Dockerfile /\ dockerfile' = dockerfile
  BY DEF BuildInv, BuildNext, StepStarts, StepPrints, StepEnds, buildVars
<1>2. Executed' = Executed /\ Steps(dockerfile)' = Steps(dockerfile)
  BY <1>1 DEF Executed
<1>3. PICK s, e, m : /\ s = Steps(dockerfile) /\ e = Executed /\ m = Cardinality(Froms(dockerfile))
  OBVIOUS
<1>4. Expands(s, e, m) /\ CommandsAdded(dockerfile) = m * 4
  BY <1>1, <1>3, DockerfileExpands
<1> SUFFICES ASSUME ~faked'
             PROVE  /\ ~leaked'
                    /\ \E c : BuildShape(s, e, c, at', inStep', hide', total', step', shown')
  BY <1>1, <1>2, <1>3 DEF BuildInv
<1>5. ~faked
  BY DEF BuildNext, StepStarts, StepPrints, StepEnds, buildVars
<1>6. ~leaked
  BY <1>5 DEF BuildInv
<1>7. PICK c : BuildShape(s, e, c, at, inStep, hide, total, step, shown)
  BY <1>3, <1>5 DEF BuildInv
<1>8. CASE StepStarts
  <2>1. inStep = FALSE /\ at < Len(e) /\ at' = at + 1 /\ inStep' = TRUE
    BY <1>3, <1>7, <1>8 DEF StepStarts, BuildShape
  <2>2. Pipeline([kind |-> "step", cmd |-> e[at + 1], count |-> Len(e)])
    BY <1>3, <1>8 DEF StepStarts
  <2>3. PipelineOf([kind |-> "step", cmd |-> e[at + 1], count |-> Len(e)], m * 4,
                   hide, total, step, shown, hide', total', step', shown')
    BY <1>4, <2>2, PipelineReads
  <2>4. BuildShape(s, e, c, at + 1, TRUE, hide', total', step', shown')
    BY <1>4, <1>7, <2>1, <2>3, StartKeepsShape
  <2>5. ~leaked'
    BY <1>6, <2>2 DEF Pipeline
  <2> QED BY <2>1, <2>4, <2>5
<1>9. CASE StepPrints
  <2>1. inStep = TRUE /\ at' = at /\ inStep' = inStep
    BY <1>7, <1>9 DEF StepPrints, BuildShape
  <2>2. PICK kind \in {"text", "aux"} : Pipeline([kind |-> kind, cmd |-> e[at]])
    BY <1>3, <1>9 DEF StepPrints
  <2> DEFINE line == [kind |-> kind, cmd |-> e[at]]
  <2>3. PipelineOf(line, m * 4, hide, total, step, shown, hide', total', step', shown')
    BY <1>4, <2>2, PipelineReads
  <2>4. /\ BuildShape(s, e, c, at, TRUE, hide', total', step', shown')
        /\ hide = "none" => e[at] \notin {"started", "COPY", "ENV", "ended"}
    BY <1>4, <1>7, <2>1, <2>3, PrintKeepsShape
  <2>5. hide \in {"all", "until-next", "none"}
    BY <1>7 DEF BuildShape
  <2>6. line.kind = kind /\ line.cmd = e[at]
    OBVIOUS
  <2>7. leaked' = (leaked \/ (/\ ~(hide = "all" \/ (hide = "until-next" /\ line.kind \in {"step", "text"}))
                              /\ line.kind = "text" /\ line.cmd \in ToSet(InjectedCommands)))
    BY <2>2, PipelineReads
  <2> HIDE DEF line
  <2>8. ~leaked'
    BY <1>6, <2>4, <2>5, <2>6, <2>7, InjectedAre
  <2> QED BY <2>1, <2>4, <2>8
<1>10. CASE StepEnds
  <2>1. inStep = TRUE /\ at' = at /\ inStep' = FALSE
    BY <1>7, <1>10 DEF StepEnds, BuildShape
  <2>2. Pipeline([kind |-> "end", cmd |-> e[at]])
    BY <1>3, <1>10 DEF StepEnds
  <2>3. PipelineOf([kind |-> "end", cmd |-> e[at]], m * 4, hide, total, step, shown, hide', total', step', shown')
    BY <1>4, <2>2, PipelineReads
  <2>4. BuildShape(s, e, c, at, FALSE, hide', total', step', shown')
    BY <1>4, <1>7, <2>1, <2>3, EndKeepsShape
  <2>5. ~leaked'
    BY <1>6, <2>2 DEF Pipeline
  <2> QED BY <2>1, <2>4, <2>5
<1>11. CASE UNCHANGED buildVars
  BY <1>6, <1>7, <1>11 DEF buildVars
<1> QED BY <1>8, <1>9, <1>10, <1>11 DEF BuildNext

\* With that shape the output looks like that of the original.
LEMMA BuildInvMeans == BuildInv => BuildLooksOriginal
<1> SUFFICES ASSUME BuildInv, ~faked PROVE BuildLooksOriginal
  BY DEF BuildLooksOriginal
<1>1. PICK s, e : s = Steps(dockerfile) /\ e = Executed
  OBVIOUS
<1>2. ~leaked
  BY DEF BuildInv
<1>3. PICK c : BuildShape(s, e, c, at, inStep, hide, total, step, shown)
  BY <1>1 DEF BuildInv
<1>4. ShownRight(s, c[at], shown) /\ at \in 0..Len(e) /\ c[Len(e)] = Len(s)
  BY <1>3 DEF BuildShape, Counts
<1>5. shown \in Seq(Line) /\ DOMAIN shown = 1..Len(shown) /\ Len(shown) \in Nat
  BY <1>4, LenProperties DEF ShownRight
<1>6. s \in Seq(Step) /\ DOMAIN s = 1..Len(s)
  BY <1>1, DockerfileExpands, LenProperties DEF BuildInv, Expands
<1> DEFINE visible(n) == Cardinality({i \in 1..n : shown[i].kind = "step"})
<1>7. \A n : visible(n) = VisibleOf(shown, n)
  BY DEF VisibleOf
<1> HIDE DEF visible
<1>8. at = Len(Executed) /\ ~inStep => visible(Len(shown)) = Len(Steps(dockerfile))
  BY <1>1, <1>4, <1>7 DEF ShownRight
<1>9. ASSUME NEW i \in DOMAIN shown
      PROVE  /\ shown[i].kind = "step" =>
                    /\ visible(i) \in DOMAIN Steps(dockerfile)
                    /\ shown[i] = [kind |-> "step", cmd |-> Steps(dockerfile)[visible(i)],
                                   k |-> visible(i), n |-> Len(Steps(dockerfile))]
             /\ shown[i].kind = "enabling" => i > 1 /\ shown[i - 1].kind = "step" /\ shown[i - 1].cmd = "FROM"
  BY <1>1, <1>4, <1>5, <1>6, <1>7 DEF ShownRight
<1> QED BY <1>2, <1>8, <1>9 DEF BuildLooksOriginal, visible

\* For a Dockerfile of FROM, RUN and comments, unless a command prints something that looks like a
\* step: the steps that are shown are those of the original, numbered as there, and nothing of
\* what is injected is shown (docker-build-injection.ts:31-141).
THEOREM BuildLooksRight == BuildInit /\ [][BuildNext]_buildVars => []BuildLooksOriginal
<1>1. BuildInit => BuildInv
  BY BuildInitially
<1>2. BuildInv /\ [BuildNext]_buildVars => BuildInv'
  BY BuildStays
<1>3. BuildInv => BuildLooksOriginal
  BY BuildInvMeans
<1> QED BY <1>1, <1>2, <1>3, PTL

(***************************************************************************)
(* Terminals: the sections of startup scripts.                             *)
(***************************************************************************)

\* What scripts are made of.
Word == {"start", "end", "profile"} \cup UNION {s.lines : s \in ShellScenario}

\* A file in which every start marker is followed by an end marker, and every end marker follows one.
IsText(lines) ==
    /\ lines \in Seq(Seq(Word))
    /\ \A i \in 1..Len(lines) :
           /\ StartsWith(lines[i], Start) =>
                  i > 1 /\ i + 1 \in 1..Len(lines) /\ StartsWith(lines[i + 1], End)
           /\ StartsWith(lines[i], End) => i > 1 /\ StartsWith(lines[i - 1], Start)

IsClean(lines) ==
    /\ lines # <<>> /\ lines \in Seq(Seq(Word))
    /\ \A i \in 1..Len(lines) : ~StartsWith(lines[i], Start) /\ ~StartsWith(lines[i], End)

\* The words of the lines that are no markers.
Words(lines) == {w \in Word : \E i \in 1..Len(lines) : /\ ~StartsWith(lines[i], Start) /\ ~StartsWith(lines[i], End)
                                                        /\ w \in ToSet(lines[i])}

Marked(lines) == \E i \in 1..Len(lines) : StartsWith(lines[i], Start)

ResetFile == [phase : {"none", "read", "write", "move", "done"}, lines : Seq(Seq(Word)), stamp : scene.stamps \cup {1}]

ShellTypes ==
    /\ scene \in ShellScenario /\ command \in {"none", "plain", "scripted"}
    /\ script \in [Used -> Seq(Seq(Word))]
    /\ temp \in [Used \X scene.stamps -> Seq(Seq(Word))]
    /\ reset \in [Reset -> [Used -> ResetFile]]
    /\ activation \in [Activation -> {"new", "command", "edit", "spawn", "started", "failed"}]
    /\ append \in [Activation -> SUBSET scene.shells]
    /\ terminal \in [Activation -> {"none", "open", "closed"}]
    /\ timer \subseteq Activation
    /\ mine \in [Used -> SUBSET Word]

\* Files are texts, and what a reset writes has no section.
ShellTexts ==
    /\ \A f \in Used : IsText(script[f])
    /\ \A r \in Reset, f \in Used :
           /\ reset[r][f].phase \in {"write", "move"} => IsClean(reset[r][f].lines)
           /\ reset[r][f].phase = "move" => reset[r][f].stamp \in scene.stamps
    /\ \A f \in Used, t \in scene.stamps : temp[<<f, t>>] # NoFile => IsClean(temp[<<f, t>>])

Alive(a) == activation[a] = "spawn" \/ terminal[a] = "open" \/ a \in timer

Cleans(r, f) == \/ reset[r][f].phase \in {"read", "write"}
                \/ reset[r][f].phase = "move" /\ temp[<<f, reset[r][f].stamp>>] # NoFile

\* A section is that of a terminal, or a reset takes it away.
ShellOwed ==
    /\ \A f \in Used : Marked(script[f]) => (\E a \in Activation : Alive(a)) \/ \E r \in Reset : Cleans(r, f)
    /\ \A a \in Activation : append[a] # {} => Alive(a)

ShellPhases ==
    /\ \A a \in Activation : terminal[a] # "none" => activation[a] \in {"started", "failed"}
    /\ \A a \in Activation, f \in Used :
           reset[<<a, "edit">>][f].phase \in {"read", "write", "move"} => activation[a] = "edit"

Late(r) == r[2] # "edit"
ShellRaces ==
    ~raced /\ (\E r \in Reset, f \in Used : Late(r) /\ reset[r][f].phase \in {"read", "write", "move"}) =>
        \A a \in Activation : terminal[a] # "open" /\ activation[a] \notin {"edit", "spawn"}

ShellConfigures ==
    ~raced /\ command = "scripted" /\ (\E a \in Activation : terminal[a] = "open" \/ activation[a] = "spawn") =>
        \A g \in scene.shells :
            g \in Forced \/ (\E f \in ToSet(g) : script[f] # NoFile) =>
                \/ \E b \in Activation : activation[b] = "edit" \/ g \in append[b]
                \/ \E f \in ToSet(g) : Marked(script[f])

Kept(f) == mine[f] \ (excused \cup behind)
ShellKeeps ==
    \A f \in Used :
        /\ Kept(f) \subseteq Words(script[f])
        /\ \A r \in Reset : reset[r][f].phase \in {"write", "move"} => Kept(f) \subseteq Words(reset[r][f].lines)
        /\ \A r \in Reset : reset[r][f].phase = "move" /\ temp[<<f, reset[r][f].stamp>>] # NoFile =>
                                Kept(f) \subseteq Words(temp[<<f, reset[r][f].stamp>>])

ShellInv == /\ ShellTypes /\ ShellTexts /\ ShellOwed /\ ShellPhases /\ ShellRaces /\ ShellConfigures /\ ShellKeeps

\* A line has no two markers, and an empty line has none.
LEMMA MarkersDiffer ==
    /\ \A line : ~(StartsWith(line, Start) /\ StartsWith(line, End))
    /\ StartsWith(Start, Start) /\ StartsWith(End, End)
    /\ ~StartsWith(<<>>, Start) /\ ~StartsWith(<<>>, End)
<1>1. Head(Start) = "start" /\ Head(End) = "end" /\ Start # <<>> /\ End # <<>>
  BY DEF Start, End
<1> QED BY <1>1 DEF StartsWith

\* The minimum of some of the first numbers.
LEMMA LeastOfSome ==
    ASSUME NEW n \in Nat, NEW S, S \subseteq 1..n, S # {}
    PROVE  Min(S) \in S /\ \A y \in S : Min(S) <= y
<1> DEFINE T == {k \in 0..n : \A U \in SUBSET ((n - k + 1)..n) : U # {} => \E m \in U : \A y \in U : m <= y}
<1>1. 0 \in T
  <2>1. (n - 0 + 1)..n = {} /\ 0 \in 0..n
    OBVIOUS
  <2>2. \A U \in SUBSET ((n - 0 + 1)..n) : U # {} => \E m \in U : \A y \in U : m <= y
    BY <2>1
  <2> QED BY <2>1, <2>2
<1>2. ASSUME NEW k \in 1..n, k - 1 \in T PROVE k \in T
  <2> SUFFICES ASSUME NEW U \in SUBSET ((n - k + 1)..n), U # {} PROVE \E m \in U : \A y \in U : m <= y
    OBVIOUS
  <2>1. CASE n - k + 1 \in U
    BY <2>1
  <2>2. CASE n - k + 1 \notin U
    <3>1. U \in SUBSET ((n - (k - 1) + 1)..n)
      BY <2>2
    <3> QED BY <3>1, <1>2
  <2> QED BY <2>1, <2>2
<1> HIDE DEF T
<1>3. 0..n \subseteq T
  BY <1>1, <1>2, BoundedInduction
<1>4. n \in T
  BY <1>3
<1>5. n - n + 1 = 1
  OBVIOUS
<1>6. \E m \in S : \A y \in S : m <= y
  BY <1>4, <1>5 DEF T
<1>7. Min(S) \in S /\ \A y \in S : Min(S) <= y
  BY <1>6 DEF Min
<1> QED BY <1>7

\* findIndex: the first line with a marker, if any.
LEMMA FirstIsFound ==
    ASSUME NEW lines \in Seq(Seq(Word)), NEW marker
    PROVE  IF \E i \in 1..Len(lines) : StartsWith(lines[i], marker)
           THEN /\ FirstIndex(lines, marker) \in 1..Len(lines)
                /\ StartsWith(lines[FirstIndex(lines, marker)], marker)
                /\ \A i \in 1..Len(lines) : StartsWith(lines[i], marker) => FirstIndex(lines, marker) <= i
           ELSE FirstIndex(lines, marker) = 0
<1> DEFINE is == {i \in DOMAIN lines : StartsWith(lines[i], marker)}
<1>1. Len(lines) \in Nat /\ DOMAIN lines = 1..Len(lines)
  BY LenProperties
<1>2. FirstIndex(lines, marker) = IF is = {} THEN 0 ELSE Min(is)
  BY DEF FirstIndex
<1>3. is \subseteq 1..Len(lines)
  BY <1>1
<1>4. is # {} => Min(is) \in is /\ \A i \in is : Min(is) <= i
  BY <1>1, <1>3, LeastOfSome
<1>5. \A i \in 1..Len(lines) : i \in is <=> StartsWith(lines[i], marker)
  BY <1>1
<1> HIDE DEF is
<1> QED BY <1>2, <1>3, <1>4, <1>5

\* A round of the loop: of a file without a section it leaves everything.
LEMMA NothingToRemove ==
    ASSUME NEW lines, IsText(lines), ~Marked(lines)
    PROVE  RemoveSection(lines) = lines
<1>1. FirstIndex(lines, Start) = 0
  BY FirstIsFound DEF IsText, Marked
<1> QED BY <1>1 DEF RemoveSection

\* Of a text with a section it takes one away, and leaves the other lines.
LEMMA SectionIsRemoved ==
    ASSUME NEW lines, IsText(lines), Marked(lines)
    PROVE  /\ IsText(RemoveSection(lines)) /\ RemoveSection(lines) # <<>>
           /\ Len(RemoveSection(lines)) + 2 = Len(lines)
           /\ Words(lines) \subseteq Words(RemoveSection(lines))
<1> DEFINE n == Len(lines)
           s == FirstIndex(lines, Start)
           e == FirstIndex(lines, End)
           r == RemoveSection(lines)
<1>1. lines \in Seq(Seq(Word)) /\ n \in Nat /\ \A i \in 1..n : lines[i] \in Seq(Word)
  BY LenProperties, ElementOfSeq DEF IsText
<1>n. n = Len(lines)
  OBVIOUS
<1> HIDE DEF n
<1>t. \A i \in 1..n :
           /\ StartsWith(lines[i], Start) => i > 1 /\ i + 1 \in 1..n /\ StartsWith(lines[i + 1], End)
           /\ StartsWith(lines[i], End) => i > 1 /\ StartsWith(lines[i - 1], Start)
  BY <1>n DEF IsText
<1>2. /\ s \in 1..n /\ StartsWith(lines[s], Start)
      /\ \A i \in 1..n : StartsWith(lines[i], Start) => s <= i
  BY <1>1, <1>n, FirstIsFound DEF Marked
<1>3. s > 1 /\ s + 1 \in 1..n /\ StartsWith(lines[s + 1], End)
  BY <1>2, <1>t
<1>4. /\ e \in 1..n /\ StartsWith(lines[e], End)
      /\ \A i \in 1..n : StartsWith(lines[i], End) => e <= i
  BY <1>1, <1>3, <1>n, FirstIsFound
<1>s. s \in Nat /\ e \in Nat
  BY <1>2, <1>4
<1> HIDE DEF s, e
<1>5. e = s + 1
  <2>1. e > 1 /\ StartsWith(lines[e - 1], Start)
    BY <1>4, <1>t
  <2>2. e - 1 \in 1..n
    BY <1>1, <1>4, <2>1
  <2>3. s <= e - 1
    BY <1>2, <2>1, <2>2
  <2>4. e <= s + 1
    BY <1>3, <1>4
  <2> QED BY <1>2, <1>4, <2>3, <2>4
<1> DEFINE a == SubSeq(lines, 1, s - 1)
           b == SubSeq(lines, s + 2, n)
<1>6. r = a \o b
  <2>1. s # 0 /\ ~(e <= s) /\ e + 1 = s + 2
    BY <1>2, <1>5
  <2> QED BY <2>1, <1>n DEF RemoveSection, s, e
<1>7. a \in Seq(Seq(Word)) /\ Len(a) = s - 1 /\ \A i \in 1..(s - 1) : a[i] = lines[i]
  <2>1. /\ a \in Seq(Seq(Word)) /\ Len(a) = IF 1 <= s - 1 THEN (s - 1) - 1 + 1 ELSE 0
        /\ \A i \in 1 .. (s - 1) - 1 + 1 : a[i] = lines[1 + i - 1]
    <3>1. \A i \in 1..(s - 1) : lines[i] \in Seq(Word)
      BY <1>1, <1>2
    <3> QED BY <1>2, <3>1, SubSeqProperties
  <2> QED BY <1>2, <1>3, <2>1
<1>8. b \in Seq(Seq(Word)) /\ Len(b) = n - s - 1 /\ \A i \in 1..(n - s - 1) : b[i] = lines[s + 1 + i]
  <2>1. /\ b \in Seq(Seq(Word)) /\ Len(b) = IF s + 2 <= n THEN n - (s + 2) + 1 ELSE 0
        /\ \A i \in 1 .. n - (s + 2) + 1 : b[i] = lines[(s + 2) + i - 1]
    <3>1. \A i \in (s + 2)..n : lines[i] \in Seq(Word)
      BY <1>1, <1>2
    <3> QED BY <1>1, <1>2, <3>1, SubSeqProperties
  <2>2. n - (s + 2) + 1 = n - s - 1 /\ (s + 2 <= n \/ n - s - 1 = 0)
    BY <1>1, <1>2, <1>3
  <2>3. \A i \in 1..(n - s - 1) : (s + 2) + i - 1 = s + 1 + i
    BY <1>1, <1>2
  <2> QED BY <2>1, <2>2, <2>3
<1> HIDE DEF a, b
<1>9. r \in Seq(Seq(Word)) /\ Len(r) = n - 2 /\ \A i \in 1..(n - 2) : r[i] = IF i < s THEN lines[i] ELSE lines[i + 2]
  <2>0. /\ a \o b \in Seq(Seq(Word)) /\ Len(a \o b) = Len(a) + Len(b)
        /\ \A i \in 1 .. Len(a) + Len(b) : (a \o b)[i] = IF i <= Len(a) THEN a[i] ELSE b[i - Len(a)]
    BY <1>7, <1>8, ConcatProperties
  <2> HIDE DEF r
  <2>1. /\ r \in Seq(Seq(Word)) /\ Len(r) = Len(a) + Len(b)
        /\ \A i \in 1 .. Len(a) + Len(b) : r[i] = IF i <= Len(a) THEN a[i] ELSE b[i - Len(a)]
    BY <1>6, <2>0
  <2>2. Len(a) + Len(b) = n - 2
    BY <1>1, <1>2, <1>7, <1>8
  <2>3. ASSUME NEW i \in 1..(n - 2) PROVE r[i] = IF i < s THEN lines[i] ELSE lines[i + 2]
    <3>1. r[i] = IF i <= s - 1 THEN a[i] ELSE b[i - (s - 1)]
      BY <1>7, <2>1, <2>2
    <3>2. i < s => a[i] = lines[i]
      BY <1>1, <1>2, <1>7
    <3>3. ~(i < s) => b[i - (s - 1)] = lines[i + 2]
      <4>1. ~(i < s) => i - (s - 1) \in 1..(n - s - 1) /\ s + 1 + (i - (s - 1)) = i + 2
        BY <1>1, <1>2
      <4> QED BY <4>1, <1>8
    <3> QED BY <1>2, <3>1, <3>2, <3>3
  <2> QED BY <2>1, <2>2, <2>3
<1> HIDE DEF r
<1>10. n >= 3
  BY <1>1, <1>3, <1>s
<1>11. ASSUME NEW i \in 1..(n - 2)
       PROVE  /\ StartsWith(r[i], Start) => i > 1 /\ i + 1 \in 1..(n - 2) /\ StartsWith(r[i + 1], End)
              /\ StartsWith(r[i], End) => i > 1 /\ StartsWith(r[i - 1], Start)
  <2>1. CASE i < s
    <3>1. r[i] = lines[i] /\ i \in 1..n
      BY <1>1, <1>9, <2>1
    <3>2. ~StartsWith(lines[i], Start)
      BY <1>2, <2>1, <3>1
    <3>3. ~StartsWith(lines[i], End)
      BY <1>2, <1>4, <1>5, <2>1, <3>1
    <3> QED BY <3>1, <3>2, <3>3
  <2>2. CASE i >= s
    <3>1. r[i] = lines[i + 2] /\ i + 2 \in 1..n /\ i > 1
      BY <1>1, <1>2, <1>3, <1>s, <1>9, <2>2
    <3>2. StartsWith(lines[i + 2], Start) => i + 1 \in 1..(n - 2) /\ StartsWith(r[i + 1], End)
      <4>1. SUFFICES ASSUME StartsWith(lines[i + 2], Start) PROVE i + 1 \in 1..(n - 2) /\ StartsWith(r[i + 1], End)
        OBVIOUS
      <4>2. (i + 2) + 1 \in 1..n /\ StartsWith(lines[(i + 2) + 1], End)
        BY <1>t, <3>1, <4>1
      <4>3. i + 1 \in 1..(n - 2) /\ (i + 2) + 1 = (i + 1) + 2 /\ ~(i + 1 < s)
        BY <1>1, <1>2, <2>2, <4>2
      <4> QED BY <1>9, <4>2, <4>3
    <3>3. StartsWith(lines[i + 2], End) => StartsWith(r[i - 1], Start)
      <4>1. SUFFICES ASSUME StartsWith(lines[i + 2], End) PROVE StartsWith(r[i - 1], Start)
        OBVIOUS
      <4>2. StartsWith(lines[i + 1], Start)
        <5>1. (i + 2) - 1 = i + 1
          OBVIOUS
        <5> QED BY <1>t, <3>1, <4>1, <5>1
      <4>3. i # s
        BY <1>3, <4>2, MarkersDiffer
      <4>4. i - 1 \in 1..(n - 2) /\ (i - 1) + 2 = i + 1 /\ ~(i - 1 < s)
        BY <1>1, <1>2, <2>2, <3>1, <4>3
      <4> QED BY <1>9, <4>2, <4>4
    <3> QED BY <3>1, <3>2, <3>3
  <2> QED BY <1>2, <2>1, <2>2
<1>12. IsText(r) /\ r # <<>>
  <2>1. r # <<>>
    <3>1. Len(r) # 0
      BY <1>1, <1>9, <1>10
    <3> QED BY <3>1, EmptySeq
  <2> QED BY <1>9, <1>11, <2>1 DEF IsText
<1>13. Words(lines) \subseteq Words(r)
  <2> SUFFICES ASSUME NEW w \in Word, NEW i \in 1..n, ~StartsWith(lines[i], Start), ~StartsWith(lines[i], End),
                      w \in ToSet(lines[i])
               PROVE  \E j \in 1..Len(r) : ~StartsWith(r[j], Start) /\ ~StartsWith(r[j], End) /\ w \in ToSet(r[j])
    BY <1>n DEF Words
  <2>1. i # s /\ i # s + 1
    BY <1>2, <1>3
  <2>2. CASE i < s
    <3>1. i \in 1..Len(r) /\ r[i] = lines[i]
      BY <1>1, <1>3, <1>s, <1>9, <2>2
    <3> QED BY <3>1
  <2>3. CASE i > s + 1
    <3>1. i - 2 \in 1..Len(r) /\ (i - 2) + 2 = i /\ ~(i - 2 < s)
      BY <1>1, <1>3, <1>s, <1>9, <2>3
    <3>2. r[i - 2] = lines[i]
      BY <1>9, <3>1
    <3> QED BY <3>1, <3>2
  <2>4. i < s \/ i > s + 1
    <3>1. i \in Nat
      BY <1>1
    <3> QED BY <1>s, <2>1, <3>1
  <2> QED BY <2>2, <2>3, <2>4
<1>14. Len(r) + 2 = n
  BY <1>1, <1>9
<1> QED BY <1>12, <1>13, <1>14, <1>n DEF r

\* After at most as many rounds as the file has lines nothing is left of its sections, and the
\* other lines are all there.
LEMMA StripCleans ==
    ASSUME NEW lines, IsText(lines), lines # <<>>
    PROVE  IsClean(Strip(lines)) /\ Words(lines) \subseteq Words(Strip(lines))
<1> DEFINE n == Len(lines)
           V == {v \in Seq(Seq(Word)) : IsText(v) /\ v # <<>>}
           next == [p \in (1..n) \X V |-> RemoveSection(p[2])]
           Def(g) == [k \in 0..n |-> IF k = 0 THEN lines ELSE RemoveSection(g[k - 1])]
<1>1. n \in Nat /\ lines \in V
  BY LenProperties DEF IsText
<1>n. n = Len(lines)
  OBVIOUS
<1> HIDE DEF n, next
<1>2. ASSUME NEW i \in 1..n, NEW v \in V
      PROVE  next[<<i, v>>] = RemoveSection(v) /\ next[<<i, v>>] \in V
  <2>1. next[<<i, v>>] = RemoveSection(v)
    BY DEF next
  <2>2. CASE Marked(v)
    <3>1. IsText(RemoveSection(v)) /\ RemoveSection(v) # <<>>
      BY <2>2, SectionIsRemoved
    <3> QED BY <2>1, <3>1 DEF IsText
  <2>3. CASE ~Marked(v)
    BY <2>1, <2>3, NothingToRemove
  <2> QED BY <2>2, <2>3
<1>v. \A v \in V : IsText(v) /\ v # <<>> /\ v \in Seq(Seq(Word))
  OBVIOUS
<1> HIDE DEF V
<1>4. PICK g : Recurses(g, n, V, lines, next)
  BY <1>1, <1>2, RecursionDefines DEF IsRecursion
<1>5. /\ g \in [0..n -> V] /\ g[0] = lines
      /\ \A i \in 1..n : g[i] = next[<<i, g[i - 1]>>]
  BY <1>4 DEF Recurses
<1>6. ASSUME NEW i \in 1..n PROVE g[i] = RemoveSection(g[i - 1]) /\ g[i - 1] \in V /\ g[i] \in V
  <2>1. g[i - 1] \in V /\ g[i] \in V
    BY <1>1, <1>5
  <2> QED BY <2>1, <1>2, <1>5
<1>7. g = Def(g)
  <2>1. ASSUME NEW i \in 0..n PROVE g[i] = Def(g)[i]
    <3>1. CASE i = 0
      BY <3>1, <1>5
    <3>2. CASE i # 0
      <4>1. i \in 1..n
        BY <1>1, <3>2
      <4> QED BY <4>1, <1>6
    <3> QED BY <3>1, <3>2
  <2>2. g = [i \in 0..n |-> g[i]]
    BY <1>5
  <2> QED BY <2>1, <2>2
<1> DEFINE left == CHOOSE h : h = Def(h)
<1>8. left = Def(left)
  BY <1>7
<1>9. Strip(lines) = left[n]
  BY <1>n DEF Strip, n
<1> HIDE DEF left
<1>10. left[0] = lines /\ \A i \in 1..n : left[i] = RemoveSection(left[i - 1])
  <2>1. \A k \in 0..n : left[k] = IF k = 0 THEN lines ELSE RemoveSection(left[k - 1])
    BY <1>8
  <2> QED BY <1>1, <2>1
<1>11. \A i \in 0..n : left[i] = g[i]
  <2> DEFINE T == {i \in 0..n : left[i] = g[i]}
  <2>1. 0 \in T
    BY <1>1, <1>5, <1>10
  <2>2. ASSUME NEW i \in 1..n, i - 1 \in T PROVE i \in T
    <3>1. left[i] = g[i]
      BY <1>6, <1>10, <2>2
    <3> QED BY <3>1, <1>1
  <2> HIDE DEF T
  <2>3. 0..n \subseteq T
    BY <1>1, <2>1, <2>2, BoundedInduction
  <2> QED BY <2>3 DEF T
<1>12. Strip(lines) = g[n]
  BY <1>1, <1>9, <1>11
<1> DEFINE U == {k \in 0..n : /\ ~Marked(g[k]) \/ Len(g[k]) + k <= n
                              /\ Words(lines) \subseteq Words(g[k])}
<1>13. 0 \in U
  BY <1>1, <1>5, <1>n
<1>14. ASSUME NEW k \in 1..n, k - 1 \in U PROVE k \in U
  <2>1. g[k] = RemoveSection(g[k - 1]) /\ IsText(g[k - 1])
    BY <1>6, <1>v
  <2>2. /\ ~Marked(g[k - 1]) \/ Len(g[k - 1]) + (k - 1) <= n
        /\ Words(lines) \subseteq Words(g[k - 1])
    BY <1>14
  <2>k. k \in 0..n
    BY <1>1
  <2>3. CASE Marked(g[k - 1])
    <3>1. Len(g[k]) + 2 = Len(g[k - 1]) /\ Words(g[k - 1]) \subseteq Words(g[k])
      BY <2>1, <2>3, SectionIsRemoved
    <3>2. Len(g[k]) \in Nat
      BY <1>6, <1>v, LenProperties
    <3>3. Len(g[k]) + k <= n
      BY <1>1, <2>2, <2>3, <3>1, <3>2
    <3> QED BY <2>2, <2>k, <3>1, <3>3
  <2>4. CASE ~Marked(g[k - 1])
    <3>1. g[k] = g[k - 1]
      BY <2>1, <2>4, NothingToRemove
    <3> QED BY <2>2, <2>4, <2>k, <3>1
  <2> QED BY <2>3, <2>4
<1> HIDE DEF U
<1>15. 0..n \subseteq U
  BY <1>1, <1>13, <1>14, BoundedInduction
<1>16. n \in 0..n
  BY <1>1
<1>17. (~Marked(g[n]) \/ Len(g[n]) + n <= n) /\ Words(lines) \subseteq Words(g[n])
  BY <1>15, <1>16 DEF U
<1>18. g[n] \in V
  BY <1>5, <1>16
<1>19. ~Marked(g[n])
  <2>1. Len(g[n]) \in Nat \ {0}
    BY <1>18, <1>v, EmptySeq
  <2> QED BY <1>1, <1>17, <2>1
<1>20. IsClean(g[n])
  <2>1. IsText(g[n]) /\ g[n] # <<>> /\ g[n] \in Seq(Seq(Word))
    BY <1>18, <1>v
  <2>2. ASSUME NEW i \in 1..Len(g[n]), StartsWith(g[n][i], End) PROVE FALSE
    <3>1. i > 1 /\ StartsWith(g[n][i - 1], Start)
      BY <2>1, <2>2 DEF IsText
    <3>2. i - 1 \in 1..Len(g[n])
      BY <2>1, <3>1, LenProperties
    <3> QED BY <1>19, <3>1, <3>2 DEF Marked
  <2> QED BY <1>19, <2>1, <2>2 DEF IsClean, Marked
<1> QED BY <1>12, <1>17, <1>20

\* A clean file is a text without a section.
LEMMA CleanIsText ==
    ASSUME NEW lines, IsClean(lines)
    PROVE  IsText(lines) /\ ~Marked(lines)
BY DEF IsClean, IsText, Marked

\* Lines behind those of a file.
LEMMA TwoMore ==
    ASSUME NEW old \in Seq(Seq(Word)), NEW x \in Seq(Word), NEW y \in Seq(Word)
    PROVE  LET more == old \o <<x, y>>
           IN  /\ more \in Seq(Seq(Word)) /\ Len(old) \in Nat /\ Len(more) = Len(old) + 2 /\ more # <<>>
               /\ more[Len(old) + 1] = x /\ more[Len(old) + 2] = y
               /\ \A i \in 1..Len(old) : more[i] = old[i]
<1> DEFINE q == <<x, y>>
           more == old \o q
<1>1. q \in Seq(Seq(Word)) /\ Len(q) = 2 /\ q[1] = x /\ q[2] = y
  OBVIOUS
<1> HIDE DEF q
<1>2. /\ more \in Seq(Seq(Word)) /\ Len(more) = Len(old) + Len(q)
      /\ \A i \in 1 .. Len(old) + Len(q) : more[i] = IF i <= Len(old) THEN old[i] ELSE q[i - Len(old)]
  BY <1>1, ConcatProperties
<1> HIDE DEF more
<1>3. Len(old) \in Nat
  BY LenProperties
<1>4. Len(more) = Len(old) + 2 /\ \A i \in 1..Len(old) : more[i] = old[i]
  <2>1. \A i \in 1..Len(old) : i \in 1 .. Len(old) + Len(q) /\ i <= Len(old)
    BY <1>1, <1>3
  <2>2. \A i \in 1..Len(old) : more[i] = old[i]
    BY <1>2, <2>1
  <2> QED BY <1>1, <1>2, <2>2
<1>5. more[Len(old) + 1] = x /\ more[Len(old) + 2] = y
  <2>1. /\ Len(old) + 1 \in 1 .. Len(old) + 2 /\ ~(Len(old) + 1 <= Len(old)) /\ (Len(old) + 1) - Len(old) = 1
        /\ Len(old) + 2 \in 1 .. Len(old) + 2 /\ ~(Len(old) + 2 <= Len(old)) /\ (Len(old) + 2) - Len(old) = 2
    BY <1>3
  <2> QED BY <1>1, <1>2, <2>1
<1>6. more # <<>>
  <2>1. Len(more) # 0
    BY <1>3, <1>4
  <2> QED BY <2>1, EmptySeq
<1> QED BY <1>2, <1>3, <1>4, <1>5, <1>6 DEF more, q

\* A section is appended.
Extended(lines) == (IF lines = NoFile THEN <<<<>>>> ELSE lines) \o <<Start, End>>

\* What is extended is a text with a section, and keeps its lines.
LEMMA SectionIsAdded ==
    ASSUME NEW lines, IsText(lines)
    PROVE  /\ IsText(Extended(lines)) /\ Marked(Extended(lines)) /\ Extended(lines) # <<>>
           /\ Words(lines) \subseteq Words(Extended(lines))
<1> DEFINE old == IF lines = NoFile THEN <<<<>>>> ELSE lines
           more == old \o <<Start, End>>
<1>1. IsText(old) /\ old # <<>> /\ Words(lines) \subseteq Words(old)
  <2>1. CASE lines = NoFile
    <3> DEFINE e == <<<<>>>>
    <3>1. e \in Seq(Seq(Word)) /\ Len(e) = 1 /\ e[1] = <<>> /\ e # <<>>
      OBVIOUS
    <3> HIDE DEF e
    <3>2. IsText(e)
      BY <3>1, MarkersDiffer DEF IsText
    <3>3. Words(lines) = {}
      <4>1. Len(lines) = 0 /\ 1..0 = {}
        BY <2>1 DEF NoFile
      <4> QED BY <4>1 DEF Words
    <3> QED BY <2>1, <3>1, <3>2, <3>3 DEF e
  <2>2. CASE lines # NoFile
    BY <2>2 DEF NoFile
  <2> QED BY <2>1, <2>2
<1> HIDE DEF old
<1>2. old \in Seq(Seq(Word)) /\ Start \in Seq(Word) /\ End \in Seq(Word)
  <2>1. Start \in Seq(Word) /\ End \in Seq(Word)
    <3>1. "start" \in Word /\ "end" \in Word
      BY DEF Word
    <3>2. \A w \in Word : <<w>> \in Seq(Word)
      OBVIOUS
    <3> QED BY <3>1, <3>2 DEF Start, End
  <2> QED BY <1>1, <2>1 DEF IsText
<1>3. /\ more \in Seq(Seq(Word)) /\ Len(old) \in Nat /\ Len(more) = Len(old) + 2 /\ more # <<>>
      /\ more[Len(old) + 1] = Start /\ more[Len(old) + 2] = End
      /\ \A i \in 1..Len(old) : more[i] = old[i]
  BY <1>2, TwoMore
<1>4. Extended(lines) = more
  BY DEF Extended, old
<1> HIDE DEF more
<1>5. Len(old) > 0
  BY <1>1, <1>2, EmptySeq
<1>6. ASSUME NEW i \in 1..Len(more)
      PROVE  /\ StartsWith(more[i], Start) => i > 1 /\ i + 1 \in 1..Len(more) /\ StartsWith(more[i + 1], End)
             /\ StartsWith(more[i], End) => i > 1 /\ StartsWith(more[i - 1], Start)
  <2>1. CASE i \in 1..Len(old)
    <3>1. /\ StartsWith(old[i], Start) => i > 1 /\ i + 1 \in 1..Len(old) /\ StartsWith(old[i + 1], End)
          /\ StartsWith(old[i], End) => i > 1 /\ StartsWith(old[i - 1], Start)
      BY <1>1, <2>1 DEF IsText
    <3>2. more[i] = old[i] /\ (i > 1 => more[i - 1] = old[i - 1]) /\ (i + 1 \in 1..Len(old) => more[i + 1] = old[i + 1])
      <4>1. i > 1 => i - 1 \in 1..Len(old)
        BY <1>3, <2>1
      <4> QED BY <1>3, <2>1, <4>1
    <3>3. i + 1 \in 1..Len(old) => i + 1 \in 1..Len(more)
      BY <1>3
    <3> QED BY <3>1, <3>2, <3>3
  <2>2. CASE i = Len(old) + 1
    <3>1. i > 1 /\ i + 1 \in 1..Len(more) /\ more[i] = Start /\ more[i + 1] = End
      BY <1>3, <1>5, <2>2
    <3> QED BY <3>1, MarkersDiffer
  <2>3. CASE i = Len(old) + 2
    <3>1. i > 1 /\ more[i] = End /\ more[i - 1] = Start
      BY <1>3, <2>3
    <3> QED BY <3>1, MarkersDiffer
  <2>4. i \in 1..Len(old) \/ i = Len(old) + 1 \/ i = Len(old) + 2
    BY <1>3
  <2> QED BY <2>1, <2>2, <2>3, <2>4
<1>7. IsText(more)
  BY <1>3, <1>6 DEF IsText
<1>8. Marked(more)
  <2>1. Len(old) + 1 \in 1..Len(more)
    BY <1>3
  <2> QED BY <1>3, <2>1, MarkersDiffer DEF Marked
<1>9. Words(old) \subseteq Words(more)
  <2>1. \A i \in 1..Len(old) : i \in 1..Len(more) /\ more[i] = old[i]
    BY <1>3
  <2> QED BY <2>1 DEF Words
<1> QED BY <1>1, <1>3, <1>4, <1>7, <1>8, <1>9

\* The user continues the last line.
Continued(lines, l) == Front(lines) \o <<Last(lines) \o <<l>>, <<>>>>

\* The line stays in the file, unless it continues an end marker.
LEMMA LineIsContinued ==
    ASSUME NEW lines, IsText(lines), lines # <<>>, NEW l \in Word \ {"start", "end"}
    PROVE  /\ IsText(Continued(lines, l)) /\ Continued(lines, l) # <<>>
           /\ Marked(Continued(lines, l)) <=> Marked(lines)
           /\ Words(lines) \subseteq Words(Continued(lines, l))
           /\ ~StartsWith(Last(lines), End) => l \in Words(Continued(lines, l))
<1> DEFINE n == Len(lines)
           front == Front(lines)
           last == Last(lines) \o <<l>>
           more == front \o <<last, <<>>>>
<1>1. lines \in Seq(Seq(Word)) /\ n \in Nat /\ n > 0 /\ \A i \in 1..n : lines[i] \in Seq(Word)
  <2>1. lines \in Seq(Seq(Word))
    BY DEF IsText
  <2> QED BY <2>1, LenProperties, EmptySeq, ElementOfSeq
<1>n. n = Len(lines)
  OBVIOUS
<1> HIDE DEF n
<1>2. front \in Seq(Seq(Word)) /\ Len(front) = n - 1 /\ \A i \in 1..(n - 1) : front[i] = lines[i]
  <2>0. \A i \in 1..(n - 1) : lines[i] \in Seq(Word)
    BY <1>1
  <2>1. /\ SubSeq(lines, 1, n - 1) \in Seq(Seq(Word))
        /\ Len(SubSeq(lines, 1, n - 1)) = IF 1 <= n - 1 THEN (n - 1) - 1 + 1 ELSE 0
        /\ \A i \in 1 .. (n - 1) - 1 + 1 : SubSeq(lines, 1, n - 1)[i] = lines[1 + i - 1]
    BY <1>1, <2>0, SubSeqProperties
  <2>2. front = SubSeq(lines, 1, n - 1)
    BY <1>n DEF Front
  <2> HIDE DEF front
  <2> QED BY <1>1, <2>1, <2>2
<1>l. Last(lines) = lines[n] /\ lines[n] \in Seq(Word)
  BY <1>1, <1>n DEF Last
<1>3. last \in Seq(Word) /\ ToSet(lines[n]) \subseteq ToSet(last) /\ l \in ToSet(last)
      /\ (lines[n] # <<>> => last # <<>> /\ Head(last) = Head(lines[n]))
      /\ (lines[n] = <<>> => last = <<l>>)
  <2> DEFINE u == lines[n]
             q == <<l>>
             w == u \o q
  <2>1. q \in Seq(Word) /\ Len(q) = 1 /\ q[1] = l
    OBVIOUS
  <2>u. u \in Seq(Word)
    BY <1>l
  <2>w. last = w
    BY <1>l
  <2> HIDE DEF u, q
  <2>2. /\ w \in Seq(Word) /\ Len(w) = Len(u) + Len(q)
        /\ \A i \in 1 .. Len(u) + Len(q) : w[i] = IF i <= Len(u) THEN u[i] ELSE q[i - Len(u)]
    BY <2>1, <2>u, ConcatProperties
  <2>5. u = <<>> => w = q
    BY <2>1, ConcatEmptySeq
  <2> HIDE DEF w
  <2>3. Len(u) \in Nat /\ DOMAIN u = 1..Len(u) /\ DOMAIN w = 1..Len(w) /\ (u # <<>> => Len(u) > 0) /\ Len(<<>>) = 0
    BY <2>u, <2>2, LenProperties, EmptySeq
  <2>4. Len(w) = Len(u) + 1 /\ w[Len(u) + 1] = l /\ \A i \in 1..Len(u) : i \in 1..Len(w) /\ w[i] = u[i]
    BY <2>1, <2>2, <2>3
  <2>6. ToSet(u) \subseteq ToSet(w) /\ l \in ToSet(w)
    <3>1. Len(u) + 1 \in DOMAIN w
      BY <2>3, <2>4
    <3> QED BY <2>3, <2>4, <3>1 DEF ToSet
  <2>7. u # <<>> => w # <<>> /\ Head(w) = Head(u)
    <3> SUFFICES ASSUME u # <<>> PROVE w # <<>> /\ Head(w) = Head(u)
      OBVIOUS
    <3>1. 1 \in 1..Len(u) /\ Len(w) # 0
      BY <2>3, <2>4
    <3>2. w # <<>>
      BY <3>1, <2>3
    <3>3. Head(w) = w[1] /\ Head(u) = u[1]
      BY <2>2, <2>u, <3>2, HeadTailProperties
    <3> QED BY <2>4, <3>1, <3>2, <3>3
  <2> QED BY <2>2, <2>5, <2>6, <2>7, <2>w DEF u, q
<1> HIDE DEF front, last
<1>m. /\ StartsWith(last, Start) <=> StartsWith(lines[n], Start)
      /\ StartsWith(last, End) <=> StartsWith(lines[n], End)
  <2>1. CASE lines[n] # <<>>
    BY <2>1, <1>3 DEF StartsWith
  <2>2. CASE lines[n] = <<>>
    <3>1. last = <<l>> /\ Head(<<l>>) = l /\ l # "start" /\ l # "end"
      BY <2>2, <1>3
    <3>2. Head(Start) = "start" /\ Head(End) = "end"
      BY DEF Start, End
    <3>3. ~StartsWith(last, Start) /\ ~StartsWith(last, End)
      BY <3>1, <3>2 DEF StartsWith
    <3> QED BY <2>2, <3>3, MarkersDiffer
  <2> QED BY <2>1, <2>2
<1>e. <<>> \in Seq(Word)
  OBVIOUS
<1>4. /\ more \in Seq(Seq(Word)) /\ Len(more) = n + 1 /\ more # <<>>
      /\ more[n] = last /\ more[n + 1] = <<>>
      /\ \A i \in 1..(n - 1) : more[i] = lines[i]
  <2>1. /\ more \in Seq(Seq(Word)) /\ Len(front) \in Nat /\ Len(more) = Len(front) + 2 /\ more # <<>>
        /\ more[Len(front) + 1] = last /\ more[Len(front) + 2] = <<>>
        /\ \A i \in 1..Len(front) : more[i] = front[i]
    BY <1>2, <1>3, <1>e, TwoMore
  <2>2. (n - 1) + 1 = n /\ (n - 1) + 2 = n + 1
    BY <1>1
  <2> HIDE DEF more
  <2> QED BY <1>2, <2>1, <2>2
<1>5. Continued(lines, l) = more
  BY DEF Continued, front, last
<1> HIDE DEF more
<1>6. ASSUME NEW i \in 1..n
      PROVE  /\ i \in 1..Len(more)
             /\ StartsWith(more[i], Start) <=> StartsWith(lines[i], Start)
             /\ StartsWith(more[i], End) <=> StartsWith(lines[i], End)
             /\ ToSet(lines[i]) \subseteq ToSet(more[i])
  <2>1. i \in 1..(n - 1) \/ i = n
    BY <1>1
  <2>2. i \in 1..Len(more)
    BY <1>1, <1>4
  <2>3. CASE i \in 1..(n - 1)
    <3>1. more[i] = lines[i]
      BY <1>4, <2>3
    <3> QED BY <2>2, <3>1
  <2>4. CASE i = n
    <3>1. more[i] = last
      BY <1>4, <2>4
    <3> QED BY <1>3, <1>m, <2>2, <2>4, <3>1
  <2> QED BY <2>1, <2>3, <2>4
<1>7. ~StartsWith(more[n + 1], Start) /\ ~StartsWith(more[n + 1], End)
  BY <1>4, MarkersDiffer
<1>8. \A i \in 1..Len(more) : i \in 1..n \/ i = n + 1
  BY <1>1, <1>4
<1>t. \A i \in 1..n :
           /\ StartsWith(lines[i], Start) => i > 1 /\ i + 1 \in 1..n /\ StartsWith(lines[i + 1], End)
           /\ StartsWith(lines[i], End) => i > 1 /\ StartsWith(lines[i - 1], Start)
  BY <1>n DEF IsText
<1>9. ASSUME NEW i \in 1..Len(more)
      PROVE  /\ StartsWith(more[i], Start) => i > 1 /\ i + 1 \in 1..Len(more) /\ StartsWith(more[i + 1], End)
             /\ StartsWith(more[i], End) => i > 1 /\ StartsWith(more[i - 1], Start)
  <2>1. CASE i \in 1..n
    <3>1. StartsWith(more[i], Start) => i > 1 /\ i + 1 \in 1..n /\ StartsWith(lines[i + 1], End)
      BY <1>6, <1>t, <2>1
    <3>2. StartsWith(more[i], End) => i > 1 /\ StartsWith(lines[i - 1], Start)
      BY <1>6, <1>t, <2>1
    <3>3. i > 1 => i - 1 \in 1..n
      BY <1>1, <2>1
    <3> QED BY <1>6, <3>1, <3>2, <3>3
  <2>2. CASE i = n + 1
    BY <1>7, <2>2
  <2> QED BY <1>8, <2>1, <2>2
<1>10. IsText(more)
  BY <1>4, <1>9 DEF IsText
<1>11. Marked(more) <=> Marked(lines)
  BY <1>6, <1>7, <1>8, <1>n DEF Marked
<1>12. Words(lines) \subseteq Words(more)
  BY <1>6, <1>n DEF Words
<1>13. ~StartsWith(Last(lines), End) => l \in Words(more)
  <2> SUFFICES ASSUME ~StartsWith(lines[n], End) PROVE l \in Words(more)
    BY <1>l
  <2>1. n \in 1..n
    BY <1>1
  <2>2. ~StartsWith(lines[n], Start)
    BY <1>1, <1>t, <2>1
  <2>3. n \in 1..Len(more) /\ ~StartsWith(more[n], Start) /\ ~StartsWith(more[n], End) /\ l \in ToSet(more[n])
    BY <1>3, <1>4, <1>6, <2>1, <2>2
  <2> QED BY <2>3 DEF Words
<1> QED BY <1>4, <1>5, <1>10, <1>11, <1>12, <1>13

ReadAgain == [phase |-> "read", lines |-> <<>>, stamp |-> 1]

\* Three kinds of resets, of which activations await one.
LEMMA ResetsAre ==
    /\ ResetAll \in Reset /\ Late(ResetAll)
    /\ \A a \in Activation : /\ <<a, "edit">> \in Reset /\ ~Late(<<a, "edit">>)
                             /\ <<a, "timer">> \in Reset /\ Late(<<a, "timer">>)
                             /\ ResetAll # <<a, "edit">>
                             /\ \A b \in Activation : <<b, "timer">> # <<a, "edit">>
    /\ \A r \in Reset : Late(r) \/ \E a \in Activation : r = <<a, "edit">>
BY DEF Reset, ResetAll, Late

\* Scripts have no section before the first terminal.
LEMMA ShellInitially == ShellInit => ShellInv
<1> SUFFICES ASSUME ShellInit PROVE ShellInv
  OBVIOUS
<1> DEFINE profile == <<<<"profile">>, <<>>>>
<1>0. /\ scene \in ShellScenario /\ command \in {"none", "plain", "scripted"}
      /\ script \in [Used -> {NoFile, profile}]
      /\ temp = [ft \in Used \X scene.stamps |-> NoFile]
      /\ reset = [r \in Reset |-> [f \in Used |-> Idle]]
      /\ activation = [a \in Activation |-> "new"]
      /\ append = [a \in Activation |-> {}]
      /\ terminal = [a \in Activation |-> "none"]
      /\ timer = {}
      /\ mine = [f \in Used |-> IF script[f] = NoFile THEN {} ELSE {"profile"}]
  BY DEF ShellInit
<1>1. <<"profile">> \in Seq(Word) /\ <<>> \in Seq(Word) /\ "profile" \in Word
  <2>1. "profile" \in Word
    BY DEF Word
  <2> QED BY <2>1
<1>2. profile \in Seq(Seq(Word)) /\ Len(profile) = 2 /\ profile[1] = <<"profile">> /\ profile[2] = <<>>
  BY <1>1
<1> HIDE DEF profile
<1>3. ~StartsWith(<<"profile">>, Start) /\ ~StartsWith(<<"profile">>, End)
  <2>1. Head(<<"profile">>) = "profile" /\ Head(Start) = "start" /\ Head(End) = "end"
    BY DEF Start, End
  <2> QED BY <2>1 DEF StartsWith
<1>4. IsText(profile) /\ ~Marked(profile)
  <2>1. \A i \in 1..Len(profile) : ~StartsWith(profile[i], Start) /\ ~StartsWith(profile[i], End)
    <3>1. \A i \in 1..2 : i = 1 \/ i = 2
      OBVIOUS
    <3> QED BY <1>2, <1>3, <3>1, MarkersDiffer
  <2> QED BY <1>2, <2>1 DEF IsText, Marked
<1>5. NoFile \in Seq(Seq(Word)) /\ IsText(NoFile) /\ ~Marked(NoFile)
  <2>1. NoFile \in Seq(Seq(Word)) /\ Len(NoFile) = 0 /\ 1..0 = {}
    BY DEF NoFile
  <2> QED BY <2>1 DEF IsText, Marked
<1>6. "profile" \in Words(profile)
  <2>1. 1 \in DOMAIN <<"profile">> /\ <<"profile">>[1] = "profile"
    OBVIOUS
  <2>2. "profile" \in ToSet(<<"profile">>)
    BY <2>1 DEF ToSet
  <2>3. 1 \in 1..Len(profile)
    BY <1>2
  <2> QED BY <1>1, <1>2, <1>3, <2>2, <2>3 DEF Words
<1>7. \A f \in Used : script[f] \in Seq(Seq(Word)) /\ IsText(script[f]) /\ ~Marked(script[f])
  BY <1>0, <1>2, <1>4, <1>5
<1>r. \A r \in Reset, f \in Used : reset[r][f] = Idle /\ Idle.phase = "none"
  BY <1>0 DEF Idle
<1>8. ShellTypes
  <2>1. script \in [Used -> Seq(Seq(Word))]
    BY <1>0, <1>7
  <2>2. temp \in [Used \X scene.stamps -> Seq(Seq(Word))]
    BY <1>0, <1>5
  <2>3. reset \in [Reset -> [Used -> ResetFile]]
    <3>1. Idle \in ResetFile
      BY <1>5 DEF Idle, ResetFile, NoFile
    <3> QED BY <1>0, <3>1
  <2>4. mine \in [Used -> SUBSET Word]
    BY <1>0, <1>1
  <2>5. append \in [Activation -> SUBSET scene.shells]
    BY <1>0
  <2> QED BY <1>0, <2>1, <2>2, <2>3, <2>4, <2>5 DEF ShellTypes
<1>9. ShellTexts
  <2>1. \A f \in Used, t \in scene.stamps : temp[<<f, t>>] = NoFile
    BY <1>0
  <2> QED BY <1>7, <1>r, <2>1 DEF ShellTexts
<1>10. ShellOwed
  BY <1>0, <1>7 DEF ShellOwed
<1>11. ShellPhases /\ ShellRaces
  <2>1. \A a \in Activation, f \in Used : reset[<<a, "edit">>][f].phase = "none"
    BY <1>r, ResetsAre
  <2>2. ShellPhases
    BY <1>0, <2>1 DEF ShellPhases
  <2>3. ShellRaces
    BY <1>r DEF ShellRaces
  <2> QED BY <2>2, <2>3
<1>12. ShellConfigures
  BY <1>0 DEF ShellConfigures
<1>13. ShellKeeps
  <2>1. ASSUME NEW f \in Used PROVE mine[f] \subseteq Words(script[f])
    BY <1>0, <1>6
  <2> QED BY <1>r, <2>1 DEF ShellKeeps, Kept
<1> QED BY <1>8, <1>9, <1>10, <1>11, <1>12, <1>13 DEF ShellInv

\* What holds of files as long as nothing of them changes.
Files == <<scene, script, temp, reset, mine, behind, excused>>

\* What holds of files holds on.
LEMMA FilesStay ==
    ASSUME ShellInv, UNCHANGED Files
    PROVE  ShellTexts' /\ ShellKeeps'
<1>1. UNCHANGED <<scene, script, temp, reset, mine, behind, excused>>
  BY DEF Files
<1>2. Used' = Used
  BY <1>1 DEF Used
<1>3. ShellTexts'
  BY <1>1, <1>2 DEF ShellInv, ShellTexts
<1>4. ShellKeeps'
  BY <1>1, <1>2 DEF ShellInv, ShellKeeps, Kept
<1> QED BY <1>3, <1>4

\* A reset begins: it reads every file.
LEMMA ResetBegins ==
    ASSUME ShellInv, NEW r \in Reset, StartReset(r),
           UNCHANGED <<scene, script, temp, mine, behind, excused>>
    PROVE  /\ reset' \in [Reset -> [Used -> ResetFile]]
           /\ \A q \in Reset, f \in Used : reset'[q][f] = IF q = r THEN ReadAgain ELSE reset[q][f]
           /\ \A q \in Reset, f \in Used : Cleans(q, f) => Cleans(q, f)'
           /\ \A f \in Used : Cleans(r, f)'
           /\ ShellTexts' /\ ShellKeeps'
<1>1. reset \in [Reset -> [Used -> ResetFile]]
  BY DEF ShellInv, ShellTypes
<1>2. [Idle EXCEPT !.phase = "read"] = ReadAgain
  BY DEF Idle, ReadAgain
<1>3. reset' = [reset EXCEPT ![r] = [f \in Used |-> ReadAgain]]
  BY <1>2 DEF StartReset
<1>4. ReadAgain \in ResetFile /\ ReadAgain.phase = "read"
  BY DEF ReadAgain, ResetFile
<1> HIDE DEF ReadAgain
<1>5. reset' \in [Reset -> [Used -> ResetFile]]
  BY <1>1, <1>3, <1>4
<1>6. \A q \in Reset, f \in Used : reset'[q][f] = IF q = r THEN ReadAgain ELSE reset[q][f]
  BY <1>1, <1>3
<1>7. Used' = Used
  BY DEF Used
<1>8. \A q \in Reset, f \in Used : Cleans(q, f) => Cleans(q, f)'
  BY <1>4, <1>6 DEF Cleans
<1>9. \A f \in Used : Cleans(r, f)'
  BY <1>4, <1>6 DEF Cleans
<1>10. ShellTexts'
  BY <1>4, <1>6, <1>7 DEF ShellInv, ShellTexts
<1>11. ShellKeeps'
  BY <1>4, <1>6, <1>7 DEF ShellInv, ShellKeeps, Kept
<1> QED BY <1>5, <1>6, <1>8, <1>9, <1>10, <1>11

\* Resets and what they may be waiting for stay as they are.
LEMMA ActivateKeeps ==
    ASSUME ShellInv, NEW a \in Activation, Activate(a)
    PROVE  ShellInv'
<1>1. /\ activation[a] = "new" /\ activation' = [activation EXCEPT ![a] = "command"]
      /\ UNCHANGED <<scene, command, script, temp, reset, append, terminal, timer, closeAll, mine, behind, excused, raced>>
  BY DEF Activate
<1>2. ShellTexts' /\ ShellKeeps'
  BY <1>1, FilesStay DEF Files
<1>3. Used' = Used /\ ResetFile' = ResetFile
  BY <1>1 DEF Used, ResetFile
<1>4. activation \in [Activation -> {"new", "command", "edit", "spawn", "started", "failed"}]
  BY DEF ShellInv, ShellTypes
<1>5. activation'[a] = "command" /\ \A b \in Activation : b # a => activation'[b] = activation[b]
  BY <1>1, <1>4
<1>6. ShellTypes'
  BY <1>1, <1>3 DEF ShellInv, ShellTypes
<1>7. ShellOwed'
  BY <1>1, <1>3, <1>5 DEF ShellInv, ShellOwed, Alive, Cleans
<1>8. ShellPhases'
  <2>1. terminal[a] = "none"
    BY <1>1 DEF ShellInv, ShellPhases
  <2>2. \A f \in Used : ~(reset[<<a, "edit">>][f].phase \in {"read", "write", "move"})
    BY <1>1 DEF ShellInv, ShellPhases
  <2> QED BY <1>1, <1>3, <1>5, <2>1, <2>2 DEF ShellInv, ShellPhases
<1>9. ShellRaces'
  BY <1>1, <1>3, <1>5 DEF ShellInv, ShellRaces
<1>10. ShellConfigures'
  BY <1>1, <1>5 DEF ShellInv, ShellConfigures
<1> QED BY <1>2, <1>6, <1>7, <1>8, <1>9, <1>10 DEF ShellInv

\* The appends are owed to a terminal that is still to be spawned.
LEMMA StartAppendsKeeps ==
    ASSUME ShellInv, NEW a \in Activation, StartAppends(a)
    PROVE  ShellInv'
<1>1. /\ activation[a] = "edit" /\ activation' = [activation EXCEPT ![a] = "spawn"]
      /\ append' = [append EXCEPT ![a] = scene.shells] /\ ~Resetting(<<a, "edit">>)
      /\ UNCHANGED <<scene, command, script, temp, reset, terminal, timer, closeAll, mine, behind, excused, raced>>
  BY DEF StartAppends
<1>2. ShellTexts' /\ ShellKeeps'
  BY <1>1, FilesStay DEF Files
<1>3. Used' = Used /\ ResetFile' = ResetFile
  BY <1>1 DEF Used, ResetFile
<1>4. /\ activation \in [Activation -> {"new", "command", "edit", "spawn", "started", "failed"}]
      /\ append \in [Activation -> SUBSET scene.shells]
  BY DEF ShellInv, ShellTypes
<1>5. /\ activation'[a] = "spawn" /\ \A b \in Activation : b # a => activation'[b] = activation[b]
      /\ append'[a] = scene.shells /\ \A b \in Activation : b # a => append'[b] = append[b]
  BY <1>1, <1>4
<1>6. ShellTypes'
  BY <1>1, <1>3, <1>4 DEF ShellInv, ShellTypes
<1>7. ShellOwed'
  <2>1. \A b \in Activation : Alive(b) => Alive(b)'
    BY <1>1, <1>5 DEF Alive
  <2>2. Alive(a)'
    BY <1>5 DEF Alive
  <2> QED BY <1>1, <1>3, <1>5, <2>1, <2>2 DEF ShellInv, ShellOwed, Cleans
<1>8. ShellPhases'
  <2>1. terminal[a] = "none"
    BY <1>1, <1>4 DEF ShellInv, ShellPhases
  <2>2. \A f \in Used : ~(reset[<<a, "edit">>][f].phase \in {"read", "write", "move"})
    BY <1>1 DEF Resetting
  <2> QED BY <1>1, <1>3, <1>5, <2>1, <2>2 DEF ShellInv, ShellPhases
<1>9. ShellRaces'
  BY <1>1, <1>3, <1>5 DEF ShellInv, ShellRaces
<1>10. ShellConfigures'
  <2>1. \A g \in scene.shells : g \in append'[a]
    BY <1>5
  <2> QED BY <1>1, <2>1 DEF ShellConfigures
<1> QED BY <1>2, <1>6, <1>7, <1>8, <1>9, <1>10 DEF ShellInv

\* It is there.
LEMMA SpawnKeeps ==
    ASSUME ShellInv, NEW a \in Activation, Spawn(a)
    PROVE  ShellInv'
<1>1. /\ activation[a] = "spawn" /\ activation' = [activation EXCEPT ![a] = "started"]
      /\ terminal' = [terminal EXCEPT ![a] = "open"]
      /\ UNCHANGED <<scene, command, script, temp, reset, append, timer, closeAll, mine, behind, excused, raced>>
  BY DEF Spawn
<1>2. ShellTexts' /\ ShellKeeps'
  BY <1>1, FilesStay DEF Files
<1>3. Used' = Used /\ ResetFile' = ResetFile
  BY <1>1 DEF Used, ResetFile
<1>4. /\ activation \in [Activation -> {"new", "command", "edit", "spawn", "started", "failed"}]
      /\ terminal \in [Activation -> {"none", "open", "closed"}]
  BY DEF ShellInv, ShellTypes
<1>5. /\ activation'[a] = "started" /\ \A b \in Activation : b # a => activation'[b] = activation[b]
      /\ terminal'[a] = "open" /\ \A b \in Activation : b # a => terminal'[b] = terminal[b]
  BY <1>1, <1>4
<1>6. ShellTypes'
  BY <1>1, <1>3, <1>4 DEF ShellInv, ShellTypes
<1>7. ShellOwed'
  <2>1. \A b \in Activation : Alive(b) => Alive(b)'
    BY <1>1, <1>5 DEF Alive
  <2> QED BY <1>1, <1>3, <2>1 DEF ShellInv, ShellOwed, Cleans
<1>8. ShellPhases'
  <2>2. \A f \in Used : ~(reset[<<a, "edit">>][f].phase \in {"read", "write", "move"})
    BY <1>1 DEF ShellInv, ShellPhases
  <2> QED BY <1>1, <1>3, <1>5, <2>2 DEF ShellInv, ShellPhases
<1>9. ShellRaces'
  BY <1>1, <1>3, <1>5 DEF ShellInv, ShellRaces
<1>10. ShellConfigures'
  BY <1>1, <1>5 DEF ShellInv, ShellConfigures
<1> QED BY <1>2, <1>6, <1>7, <1>8, <1>9, <1>10 DEF ShellInv

\* A closed terminal leaves a timer behind.
LEMMA TerminalClosesKeeps ==
    ASSUME ShellInv, NEW a \in Activation, TerminalCloses(a)
    PROVE  ShellInv'
<1>1. /\ terminal[a] = "open" /\ terminal' = [terminal EXCEPT ![a] = "closed"] /\ timer' = timer \cup {a}
      /\ activation' \in {activation, [activation EXCEPT ![a] = "failed"]}
      /\ UNCHANGED <<scene, command, script, temp, reset, append, closeAll, mine, behind, excused, raced>>
  BY DEF TerminalCloses
<1>2. ShellTexts' /\ ShellKeeps'
  BY <1>1, FilesStay DEF Files
<1>3. Used' = Used /\ ResetFile' = ResetFile
  BY <1>1 DEF Used, ResetFile
<1>4. /\ activation \in [Activation -> {"new", "command", "edit", "spawn", "started", "failed"}]
      /\ terminal \in [Activation -> {"none", "open", "closed"}] /\ timer \subseteq Activation
  BY DEF ShellInv, ShellTypes
<1>5. /\ activation'[a] \in {activation[a], "failed"} /\ \A b \in Activation : b # a => activation'[b] = activation[b]
      /\ terminal'[a] = "closed" /\ \A b \in Activation : b # a => terminal'[b] = terminal[b]
  BY <1>1, <1>4
<1>a. activation[a] \in {"started", "failed"}
  BY <1>1 DEF ShellInv, ShellPhases
<1>6. ShellTypes'
  <2>1. activation' \in [Activation -> {"new", "command", "edit", "spawn", "started", "failed"}]
    BY <1>1, <1>4
  <2>2. terminal' \in [Activation -> {"none", "open", "closed"}] /\ timer' \subseteq Activation
    BY <1>1, <1>4
  <2> QED BY <1>1, <1>3, <2>1, <2>2 DEF ShellInv, ShellTypes
<1>7. ShellOwed'
  <2>1. \A b \in Activation : Alive(b) => Alive(b)'
    BY <1>1, <1>5 DEF Alive
  <2> QED BY <1>1, <1>3, <2>1 DEF ShellInv, ShellOwed, Cleans
<1>8. ShellPhases'
  <2>2. \A f \in Used : ~(reset[<<a, "edit">>][f].phase \in {"read", "write", "move"})
    BY <1>a DEF ShellInv, ShellPhases
  <2> QED BY <1>1, <1>3, <1>5, <1>a, <2>2 DEF ShellInv, ShellPhases
<1>9. ShellRaces'
  BY <1>1, <1>3, <1>5, <1>a DEF ShellInv, ShellRaces
<1>10. ShellConfigures'
  <2>1. \A b \in Activation : activation[b] = "edit" => activation'[b] = "edit"
    BY <1>5, <1>a
  <2>2. \A b \in Activation : terminal'[b] = "open" \/ activation'[b] = "spawn" => terminal[b] = "open" \/ activation[b] = "spawn"
    BY <1>5, <1>a
  <2> QED BY <1>1, <2>1, <2>2 DEF ShellInv, ShellConfigures
<1> QED BY <1>2, <1>6, <1>7, <1>8, <1>9, <1>10 DEF ShellInv

\* deactivateAll only remembers the terminals that it waits for.
LEMMA NothingMovesKeeps ==
    ASSUME ShellInv,
           UNCHANGED <<scene, command, script, temp, reset, activation, append, terminal, timer,
                       mine, behind, excused, raced>>
    PROVE  ShellInv'
<1>2. ShellTexts' /\ ShellKeeps'
  BY FilesStay DEF Files
<1>3. Used' = Used /\ ResetFile' = ResetFile
  BY DEF Used, ResetFile
<1>6. ShellTypes'
  BY <1>3 DEF ShellInv, ShellTypes
<1>7. ShellOwed'
  BY <1>3 DEF ShellInv, ShellOwed, Alive, Cleans
<1>8. ShellPhases' /\ ShellRaces'
  BY <1>3 DEF ShellInv, ShellPhases, ShellRaces
<1>10. ShellConfigures'
  BY DEF ShellInv, ShellConfigures
<1> QED BY <1>2, <1>6, <1>7, <1>8, <1>10 DEF ShellInv

\* No reset is under way but those that an activation awaits.
LEMMA NoneIsLate ==
    ASSUME LateReset = {}, NEW r \in Reset, Late(r), NEW f \in Used
    PROVE  reset[r][f].phase \notin {"read", "write", "move"}
BY DEF LateReset, Late, Resetting

\* An activation begins to edit: it is noted if a late reset is under way.
LEMMA CommandKnownKeeps ==
    ASSUME ShellInv, NEW a \in Activation, CommandKnown(a)
    PROVE  ShellInv'
<1>1. /\ activation[a] = "command"
      /\ activation' = [activation EXCEPT ![a] =
            CASE command = "none" -> "failed" [] command = "plain" -> "spawn" [] OTHER -> "edit"]
      /\ IF command = "scripted" THEN StartReset(<<a, "edit">>) ELSE UNCHANGED reset
      /\ UNCHANGED <<scene, command, script, temp, append, terminal, timer, closeAll, mine, behind, excused>>
  BY DEF CommandKnown
<1>r. ~raced' => ~raced /\ LateReset = {}
  <2>1. raced' = (raced \/ LateReset # {})
    BY DEF CommandKnown
  <2> QED BY <2>1
<1>3. Used' = Used /\ ResetFile' = ResetFile
  BY <1>1 DEF Used, ResetFile
<1>4. /\ activation \in [Activation -> {"new", "command", "edit", "spawn", "started", "failed"}]
      /\ reset \in [Reset -> [Used -> ResetFile]] /\ command \in {"none", "plain", "scripted"}
  BY DEF ShellInv, ShellTypes
<1>5. \A b \in Activation : b # a => activation'[b] = activation[b]
  BY <1>1, <1>4
<1>6. activation'[a] = CASE command = "none" -> "failed" [] command = "plain" -> "spawn" [] OTHER -> "edit"
  BY <1>1, <1>4
<1>7. activation'[a] \in {"failed", "spawn", "edit"} /\ (activation'[a] = "edit" <=> command = "scripted")
      /\ (activation'[a] = "spawn" <=> command = "plain")
  BY <1>4, <1>6
<1>t. activation' \in [Activation -> {"new", "command", "edit", "spawn", "started", "failed"}]
  BY <1>1, <1>4, <1>6, <1>7
<1>n. terminal[a] = "none"
  <2>1. terminal[a] # "none" => activation[a] \in {"started", "failed"}
    BY DEF ShellInv, ShellPhases
  <2> QED BY <1>1, <2>1
<1>8. CASE command # "scripted"
  <2>1. reset' = reset
    BY <1>1, <1>8
  <2>2. ShellTexts' /\ ShellKeeps'
    BY <1>1, <2>1, FilesStay DEF Files
  <2>3. ShellTypes'
    BY <1>1, <1>3, <1>t, <2>1 DEF ShellInv, ShellTypes
  <2>4. ShellOwed'
    <3>1. \A b \in Activation : Alive(b) => Alive(b)'
      BY <1>1, <1>5 DEF Alive
    <3> QED BY <1>1, <1>3, <2>1, <3>1 DEF ShellInv, ShellOwed, Cleans
  <2>5. ShellPhases'
    <3>1. \A f \in Used : ~(reset[<<a, "edit">>][f].phase \in {"read", "write", "move"})
      BY <1>1 DEF ShellInv, ShellPhases
    <3> QED BY <1>1, <1>3, <1>5, <1>n, <2>1, <3>1 DEF ShellInv, ShellPhases
  <2>6. ShellRaces'
    <3> SUFFICES ASSUME ~raced' PROVE ~\E r \in Reset, f \in Used : Late(r) /\ reset[r][f].phase \in {"read", "write", "move"}
      BY <1>3, <2>1 DEF ShellRaces
    <3> QED BY <1>r, NoneIsLate
  <2>7. ShellConfigures'
    BY <1>1, <1>8 DEF ShellConfigures
  <2> QED BY <2>2, <2>3, <2>4, <2>5, <2>6, <2>7 DEF ShellInv
<1>9. CASE command = "scripted"
  <2>0. <<a, "edit">> \in Reset /\ ~Late(<<a, "edit">>)
    BY ResetsAre
  <2>s. StartReset(<<a, "edit">>)
    BY <1>1, <1>9
  <2>1. /\ reset' \in [Reset -> [Used -> ResetFile]]
        /\ \A q \in Reset, f \in Used : reset'[q][f] = IF q = <<a, "edit">> THEN ReadAgain ELSE reset[q][f]
        /\ \A q \in Reset, f \in Used : Cleans(q, f) => Cleans(q, f)'
        /\ ShellTexts' /\ ShellKeeps'
    BY <1>1, <2>0, <2>s, ResetBegins
  <2>3. ShellTypes'
    BY <1>1, <1>3, <1>t, <2>1 DEF ShellInv, ShellTypes
  <2>4. ShellOwed'
    <3>1. \A b \in Activation : Alive(b) => Alive(b)'
      BY <1>1, <1>5 DEF Alive
    <3>2. \A f \in Used : Marked(script[f]) => (\E b \in Activation : Alive(b)) \/ \E r \in Reset : Cleans(r, f)
      BY DEF ShellInv, ShellOwed
    <3>3. \A f \in Used : Marked(script'[f]) => (\E b \in Activation : Alive(b)') \/ \E r \in Reset : Cleans(r, f)'
      BY <1>1, <2>1, <3>1, <3>2
    <3>4. \A b \in Activation : append'[b] # {} => Alive(b)'
      BY <1>1, <3>1 DEF ShellInv, ShellOwed
    <3> QED BY <1>3, <3>3, <3>4 DEF ShellOwed
  <2>5. ShellPhases'
    <3>1. activation'[a] = "edit"
      BY <1>7, <1>9
    <3>2. \A b \in Activation, f \in Used : b # a => reset'[<<b, "edit">>][f] = reset[<<b, "edit">>][f]
      BY <2>1, ResetsAre
    <3> QED BY <1>1, <1>3, <1>5, <1>n, <3>1, <3>2 DEF ShellInv, ShellPhases
  <2>6. ShellRaces'
    <3> SUFFICES ASSUME ~raced' PROVE ~\E r \in Reset, f \in Used : Late(r) /\ reset'[r][f].phase \in {"read", "write", "move"}
      BY <1>3 DEF ShellRaces
    <3>1. \A r \in Reset, f \in Used : Late(r) => reset'[r][f] = reset[r][f]
      BY <2>0, <2>1
    <3> QED BY <1>r, <3>1, NoneIsLate
  <2>7. ShellConfigures'
    <3>1. \A b \in Activation : activation[b] = "edit" => activation'[b] = "edit"
      BY <1>1, <1>5
    <3>2. \A b \in Activation : terminal'[b] = "open" \/ activation'[b] = "spawn" => terminal[b] = "open" \/ activation[b] = "spawn"
      BY <1>1, <1>5, <1>7, <1>9
    <3> QED BY <1>1, <1>r, <3>1, <3>2 DEF ShellInv, ShellConfigures
  <2> QED BY <2>1, <2>3, <2>4, <2>5, <2>6, <2>7 DEF ShellInv
<1> QED BY <1>8, <1>9

\* A late reset begins while nothing is open, or an activation that it comes between is noted.
LEMMA LateResetBegins ==
    ASSUME ShellInv, NEW r \in Reset, Late(r), StartReset(r), timer' \subseteq timer,
           \A b \in Activation : append[b] # {} /\ b \in timer => b \in timer',
           ~raced' => ~raced /\ OpenTerminals = {} /\ Activating = {},
           UNCHANGED <<scene, command, script, temp, activation, append, terminal, mine, behind, excused>>
    PROVE  ShellInv'
<1>1. /\ reset' \in [Reset -> [Used -> ResetFile]]
      /\ \A q \in Reset, f \in Used : reset'[q][f] = IF q = r THEN ReadAgain ELSE reset[q][f]
      /\ \A f \in Used : Cleans(r, f)'
      /\ ShellTexts' /\ ShellKeeps'
  BY ResetBegins
<1>3. Used' = Used /\ ResetFile' = ResetFile
  BY DEF Used, ResetFile
<1>4. ShellTypes'
  BY <1>1, <1>3 DEF ShellInv, ShellTypes
<1>5. ShellOwed'
  <2>1. \A b \in Activation : append'[b] # {} => Alive(b)'
    BY DEF ShellInv, ShellOwed, Alive
  <2> QED BY <1>1, <1>3, <2>1 DEF ShellOwed
<1>6. ShellPhases'
  <2>1. \A b \in Activation, f \in Used : reset'[<<b, "edit">>][f] = reset[<<b, "edit">>][f]
    BY <1>1, ResetsAre
  <2> QED BY <1>3, <2>1 DEF ShellInv, ShellPhases
<1>7. ~raced' => \A b \in Activation : terminal'[b] # "open" /\ activation'[b] \notin {"edit", "spawn"}
  BY DEF OpenTerminals, Activating
<1>8. ShellRaces'
  BY <1>7 DEF ShellRaces
<1>9. ShellConfigures'
  BY <1>7 DEF ShellConfigures
<1> QED BY <1>1, <1>4, <1>5, <1>6, <1>8, <1>9 DEF ShellInv

\* The timer resets the scripts if no terminal is open
\* (fresh-terminal-interceptor.ts:267-275).
LEMMA TimerFiresKeeps ==
    ASSUME ShellInv, NEW a \in Activation, TimerFires(a)
    PROVE  ShellInv'
<1>1. /\ a \in timer /\ append[a] = {} /\ timer' = timer \ {a}
      /\ UNCHANGED <<scene, command, script, temp, activation, append, terminal, closeAll, mine, behind, excused>>
  BY DEF TimerFires
<1>2. CASE OpenTerminals = {}
  <2>1. StartReset(<<a, "timer">>) /\ raced' = (raced \/ Activating # {})
    BY <1>2 DEF TimerFires
  <2>2. ~raced' => ~raced /\ Activating = {}
    BY <2>1
  <2>3. <<a, "timer">> \in Reset /\ Late(<<a, "timer">>)
    BY ResetsAre
  <2>4. timer' \subseteq timer /\ \A b \in Activation : append[b] # {} /\ b \in timer => b \in timer'
    BY <1>1
  <2> QED BY <1>1, <1>2, <2>1, <2>2, <2>3, <2>4, LateResetBegins
<1>3. CASE OpenTerminals # {}
  <2>1. reset' = reset /\ raced' = raced
    BY <1>3 DEF TimerFires
  <2>2. ShellTexts' /\ ShellKeeps'
    BY <1>1, <2>1, FilesStay DEF Files
  <2>3. Used' = Used /\ ResetFile' = ResetFile
    BY <1>1 DEF Used, ResetFile
  <2>4. ShellTypes'
    BY <1>1, <2>1, <2>3 DEF ShellInv, ShellTypes
  <2>5. ShellOwed'
    <3>1. PICK c \in Activation : terminal[c] = "open"
      BY <1>3 DEF OpenTerminals
    <3>2. Alive(c)'
      BY <1>1, <3>1 DEF Alive
    <3>3. \A b \in Activation : append'[b] # {} => Alive(b)'
      BY <1>1 DEF ShellInv, ShellOwed, Alive
    <3> QED BY <3>2, <3>3 DEF ShellOwed
  <2>6. ShellPhases' /\ ShellRaces'
    BY <1>1, <2>1, <2>3 DEF ShellInv, ShellPhases, ShellRaces
  <2>7. ShellConfigures'
    BY <1>1, <2>1 DEF ShellInv, ShellConfigures
  <2> QED BY <2>2, <2>4, <2>5, <2>6, <2>7 DEF ShellInv
<1> QED BY <1>2, <1>3

\* deactivateAll resets them (fresh-terminal-interceptor.ts:301-307).
LEMMA AllClosedKeeps ==
    ASSUME ShellInv, AllClosed
    PROVE  ShellInv'
<1>1. /\ StartReset(ResetAll) /\ raced' = (raced \/ Activating # {} \/ OpenTerminals # {})
      /\ UNCHANGED <<scene, command, script, temp, activation, append, terminal, timer, mine, behind, excused>>
  BY DEF AllClosed
<1>2. ~raced' => ~raced /\ OpenTerminals = {} /\ Activating = {}
  BY <1>1
<1>3. ResetAll \in Reset /\ Late(ResetAll)
  BY ResetsAre
<1> QED BY <1>1, <1>2, <1>3, LateResetBegins

\* What a reset has in memory is clean, and has the lines that were in the file.
LEMMA ReadScriptKeeps ==
    ASSUME ShellInv, NEW r \in Reset, NEW f \in Used, ReadScript(r, f)
    PROVE  ShellInv'
<1> DEFINE lines == IF script[f] = NoFile THEN NoFile ELSE Strip(script[f])
           now == [phase |-> IF lines = NoFile THEN "done" ELSE "write", lines |-> lines, stamp |-> reset[r][f].stamp]
<1>1. /\ reset[r][f].phase = "read"
      /\ reset' = [reset EXCEPT ![r][f].phase = IF lines = NoFile THEN "done" ELSE "write",
                                ![r][f].lines = lines]
      /\ UNCHANGED <<scene, command, script, temp, activation, append, terminal, timer, closeAll,
                     mine, behind, excused, raced>>
  BY DEF ReadScript
<1>2. Used' = Used /\ ResetFile' = ResetFile
  BY <1>1 DEF Used, ResetFile
<1>3. /\ reset \in [Reset -> [Used -> ResetFile]] /\ reset[r][f] \in ResetFile
      /\ script[f] \in Seq(Seq(Word)) /\ IsText(script[f])
  BY DEF ShellInv, ShellTypes, ShellTexts
<1>4. /\ lines # NoFile => IsClean(lines) /\ Words(script[f]) \subseteq Words(lines)
      /\ lines = NoFile => ~Marked(script[f])
      /\ lines \in Seq(Seq(Word))
  <2>1. CASE script[f] = NoFile
    <3>1. Len(NoFile) = 0 /\ 1..0 = {} /\ NoFile \in Seq(Seq(Word))
      BY DEF NoFile
    <3> QED BY <2>1, <3>1 DEF Marked
  <2>2. CASE script[f] # NoFile
    <3>1. IsClean(Strip(script[f])) /\ Words(script[f]) \subseteq Words(Strip(script[f]))
      BY <1>3, <2>2, StripCleans DEF NoFile
    <3> QED BY <2>2, <3>1 DEF IsClean, NoFile
  <2> QED BY <2>1, <2>2
<1> HIDE DEF lines
<1>5. now \in ResetFile
  BY <1>3, <1>4 DEF ResetFile
<1>6. /\ reset' \in [Reset -> [Used -> ResetFile]]
      /\ \A q \in Reset, h \in Used : reset'[q][h] = IF q = r /\ h = f THEN now ELSE reset[q][h]
  <2>1. \A q \in Reset, h \in Used : reset'[q][h] = IF q = r /\ h = f THEN now ELSE reset[q][h]
    <3>1. reset[r][f] = [phase |-> reset[r][f].phase, lines |-> reset[r][f].lines, stamp |-> reset[r][f].stamp]
      BY <1>3 DEF ResetFile
    <3> QED BY <1>1, <1>3, <3>1
  <2>2. reset' = [q \in Reset |-> [h \in Used |-> IF q = r /\ h = f THEN now ELSE reset[q][h]]]
    <3>1. reset' = [q \in Reset |-> reset'[q]] /\ \A q \in Reset : reset'[q] = [h \in Used |-> reset'[q][h]]
      BY <1>1, <1>3
    <3> QED BY <2>1, <3>1
  <2> QED BY <1>3, <1>5, <2>1, <2>2
<1>7. now.phase \in {"write", "done"} /\ (now.phase = "write" <=> lines # NoFile) /\ now.lines = lines
  OBVIOUS
<1> HIDE DEF now
<1>8. ShellTypes'
  BY <1>1, <1>2, <1>6 DEF ShellInv, ShellTypes
<1>9. ShellTexts'
  BY <1>1, <1>2, <1>4, <1>6, <1>7 DEF ShellInv, ShellTexts
<1>10. ShellOwed'
  <2>1. ASSUME NEW h \in Used, Marked(script[h])
        PROVE  (\E a \in Activation : Alive(a)') \/ \E q \in Reset : Cleans(q, h)'
    <3>1. CASE \E a \in Activation : Alive(a)
      BY <1>1, <3>1 DEF Alive
    <3>2. CASE \E q \in Reset : Cleans(q, h)
      <4>1. PICK q \in Reset : Cleans(q, h)
        BY <3>2
      <4>2. CASE q = r /\ h = f
        BY <2>1, <4>2, <1>4, <1>6, <1>7 DEF Cleans
      <4>3. CASE ~(q = r /\ h = f)
        <5>1. reset'[q][h] = reset[q][h]
          BY <4>3, <1>6
        <5>2. Cleans(q, h)'
          BY <4>1, <5>1, <1>1 DEF Cleans
        <5> QED BY <5>2
      <4> QED BY <4>2, <4>3
    <3> QED BY <2>1, <3>1, <3>2 DEF ShellInv, ShellOwed
  <2>2. \A a \in Activation : append'[a] # {} => Alive(a)'
    BY <1>1 DEF ShellInv, ShellOwed, Alive
  <2> QED BY <1>1, <1>2, <2>1, <2>2 DEF ShellOwed
<1>11. \A q \in Reset, h \in Used : reset'[q][h].phase \in {"read", "write", "move"} => reset[q][h].phase \in {"read", "write", "move"}
  BY <1>1, <1>6
<1>12. ShellPhases'
  BY <1>1, <1>2, <1>11, ResetsAre DEF ShellInv, ShellPhases
<1>13. ShellRaces'
  BY <1>1, <1>2, <1>11 DEF ShellInv, ShellRaces
<1>14. ShellConfigures'
  BY <1>1 DEF ShellInv, ShellConfigures
<1>15. ShellKeeps'
  <2>1. \A h \in Used : Kept(h)' = Kept(h) /\ Kept(h) \subseteq Words(script[h])
    BY <1>1 DEF Kept, ShellInv, ShellKeeps
  <2>2. \A q \in Reset : \A h \in Used :
            reset'[q][h].phase \in {"write", "move"} => Kept(h) \subseteq Words(reset'[q][h].lines)
    <3> TAKE q \in Reset
    <3> TAKE h \in Used
    <3>1. CASE q = r /\ h = f
      BY <3>1, <2>1, <1>4, <1>6, <1>7
    <3>2. CASE ~(q = r /\ h = f)
      BY <3>2, <1>6 DEF ShellInv, ShellKeeps
    <3> QED BY <3>1, <3>2
  <2>3. ASSUME NEW q \in Reset, NEW h \in Used, reset'[q][h].phase = "move",
               temp[<<h, reset'[q][h].stamp>>] # NoFile
        PROVE  Kept(h) \subseteq Words(temp[<<h, reset'[q][h].stamp>>])
    <3>1. reset'[q][h] = reset[q][h]
      BY <2>3, <1>6, <1>7
    <3> QED BY <2>3, <3>1 DEF ShellInv, ShellKeeps
  <2>4. \A h \in Used : Kept(h)' = Kept(h)
    BY <2>1
  <2>5. \A h \in Used : Kept(h)' \subseteq Words(script[h])
    BY <2>1
  <2>6. \A q \in Reset : \A h \in Used :
            reset'[q][h].phase \in {"write", "move"} => Kept(h)' \subseteq Words(reset'[q][h].lines)
    BY <2>2, <2>4
  <2>7. \A q \in Reset : \A h \in Used :
            reset'[q][h].phase = "move" /\ temp[<<h, reset'[q][h].stamp>>] # NoFile =>
                Kept(h)' \subseteq Words(temp[<<h, reset'[q][h].stamp>>])
    BY <2>3, <2>4
  <2> QED BY <1>1, <1>2, <2>5, <2>6, <2>7 DEF ShellKeeps
<1> QED BY <1>8, <1>9, <1>10, <1>12, <1>13, <1>14, <1>15 DEF ShellInv

\* It is written next to the file, over what another reset has written there.
LEMMA WriteTempKeeps ==
    ASSUME ShellInv, NEW r \in Reset, NEW f \in Used, WriteTemp(r, f)
    PROVE  ShellInv'
<1>1. PICK t \in scene.stamps :
          /\ temp' = [temp EXCEPT ![<<f, t>>] = reset[r][f].lines]
          /\ reset' = [reset EXCEPT ![r][f].phase = "move", ![r][f].stamp = t]
  BY DEF WriteTemp
<1>u. /\ reset[r][f].phase = "write"
      /\ UNCHANGED <<scene, command, script, activation, append, terminal, timer, closeAll,
                     mine, behind, excused, raced>>
  BY DEF WriteTemp
<1> DEFINE lines == reset[r][f].lines
           now == [phase |-> "move", lines |-> lines, stamp |-> t]
<1>2. Used' = Used /\ ResetFile' = ResetFile
  BY <1>u DEF Used, ResetFile
<1>3. /\ reset \in [Reset -> [Used -> ResetFile]] /\ reset[r][f] \in ResetFile
      /\ temp \in [Used \X scene.stamps -> Seq(Seq(Word))]
  BY DEF ShellInv, ShellTypes
<1>4. IsClean(lines) /\ lines # NoFile /\ lines \in Seq(Seq(Word)) /\ Kept(f) \subseteq Words(lines)
  BY <1>u DEF ShellInv, ShellTexts, ShellKeeps, IsClean, NoFile
<1>5. now \in ResetFile
  BY <1>4 DEF ResetFile
<1>6. /\ reset' \in [Reset -> [Used -> ResetFile]]
      /\ \A q \in Reset, h \in Used : reset'[q][h] = IF q = r /\ h = f THEN now ELSE reset[q][h]
  <2>1. \A q \in Reset, h \in Used : reset'[q][h] = IF q = r /\ h = f THEN now ELSE reset[q][h]
    <3>1. reset[r][f] = [phase |-> reset[r][f].phase, lines |-> reset[r][f].lines, stamp |-> reset[r][f].stamp]
      BY <1>3 DEF ResetFile
    <3> QED BY <1>1, <1>3, <3>1
  <2>2. reset' = [q \in Reset |-> [h \in Used |-> IF q = r /\ h = f THEN now ELSE reset[q][h]]]
    <3>1. reset' = [q \in Reset |-> reset'[q]] /\ \A q \in Reset : reset'[q] = [h \in Used |-> reset'[q][h]]
      BY <1>1, <1>3
    <3> QED BY <2>1, <3>1
  <2> QED BY <1>3, <1>5, <2>1, <2>2
<1>7. now.phase = "move" /\ now.lines = lines /\ now.stamp = t
  OBVIOUS
<1>8. /\ temp' \in [Used \X scene.stamps -> Seq(Seq(Word))]
      /\ \A h \in Used, s \in scene.stamps : temp'[<<h, s>>] = IF h = f /\ s = t THEN lines ELSE temp[<<h, s>>]
  BY <1>1, <1>3, <1>4
<1> HIDE DEF now, lines
<1>9. ShellTypes'
  BY <1>u, <1>2, <1>6, <1>8 DEF ShellInv, ShellTypes
<1>10. ShellTexts'
  <2>1. \A h \in Used, s \in scene.stamps : temp'[<<h, s>>] # NoFile => IsClean(temp'[<<h, s>>])
    BY <1>4, <1>8 DEF ShellInv, ShellTexts
  <2>2. \A q \in Reset, h \in Used : /\ reset'[q][h].phase \in {"write", "move"} => IsClean(reset'[q][h].lines)
                                     /\ reset'[q][h].phase = "move" => reset'[q][h].stamp \in scene.stamps
    BY <1>4, <1>6, <1>7 DEF ShellInv, ShellTexts
  <2> QED BY <1>u, <1>2, <2>1, <2>2 DEF ShellInv, ShellTexts
<1>s. \A q \in Reset, h \in Used : reset[q][h].phase = "move" => reset[q][h].stamp \in scene.stamps
  BY DEF ShellInv, ShellTexts
<1>11. ShellOwed'
  <2>1. ASSUME NEW h \in Used, NEW q \in Reset, Cleans(q, h) PROVE Cleans(q, h)'
    <3>1. CASE q = r /\ h = f
      BY <3>1, <1>4, <1>6, <1>7, <1>8 DEF Cleans
    <3>2. CASE ~(q = r /\ h = f)
      <4>1. reset'[q][h] = reset[q][h]
        BY <3>2, <1>6
      <4>2. reset[q][h].phase = "move" /\ temp[<<h, reset[q][h].stamp>>] # NoFile =>
                temp'[<<h, reset[q][h].stamp>>] # NoFile
        BY <1>4, <1>8, <1>s
      <4> QED BY <2>1, <4>1, <4>2 DEF Cleans
    <3> QED BY <3>1, <3>2
  <2>2. \A a \in Activation : Alive(a) => Alive(a)'
    BY <1>u DEF Alive
  <2> QED BY <1>u, <1>2, <2>1, <2>2 DEF ShellInv, ShellOwed
<1>12. \A q \in Reset, h \in Used : reset'[q][h].phase \in {"read", "write", "move"} => reset[q][h].phase \in {"read", "write", "move"}
  BY <1>u, <1>6
<1>13. ShellPhases'
  BY <1>u, <1>2, <1>12, ResetsAre DEF ShellInv, ShellPhases
<1>14. ShellRaces'
  BY <1>u, <1>2, <1>12 DEF ShellInv, ShellRaces
<1>15. ShellConfigures'
  BY <1>u DEF ShellInv, ShellConfigures
<1>16. ShellKeeps'
  <2>1. \A h \in Used : Kept(h)' = Kept(h) /\ Kept(h) \subseteq Words(script[h])
    BY <1>u DEF Kept, ShellInv, ShellKeeps
  <2>2. ASSUME NEW h \in Used, NEW q \in Reset
        PROVE  /\ reset'[q][h].phase \in {"write", "move"} => Kept(h) \subseteq Words(reset'[q][h].lines)
               /\ reset'[q][h].phase = "move" /\ temp'[<<h, reset'[q][h].stamp>>] # NoFile =>
                                Kept(h) \subseteq Words(temp'[<<h, reset'[q][h].stamp>>])
    <3>1. CASE q = r /\ h = f
      BY <3>1, <1>4, <1>6, <1>7, <1>8
    <3>2. CASE ~(q = r /\ h = f)
      <4>1. reset'[q][h] = reset[q][h]
        BY <3>2, <1>6
      <4>2. reset[q][h].phase \in {"write", "move"} => Kept(h) \subseteq Words(reset[q][h].lines)
        BY DEF ShellInv, ShellKeeps
      <4>3. reset[q][h].phase = "move" /\ temp[<<h, reset[q][h].stamp>>] # NoFile =>
                                Kept(h) \subseteq Words(temp[<<h, reset[q][h].stamp>>])
        BY DEF ShellInv, ShellKeeps
      <4>4. reset[q][h].phase = "move" =>
                temp'[<<h, reset[q][h].stamp>>] =
                    IF h = f /\ reset[q][h].stamp = t THEN lines ELSE temp[<<h, reset[q][h].stamp>>]
        BY <1>8, <1>s
      <4> QED BY <1>4, <4>1, <4>2, <4>3, <4>4
    <3> QED BY <3>1, <3>2
  <2> QED BY <1>u, <1>2, <2>1, <2>2 DEF ShellKeeps
<1> QED BY <1>9, <1>10, <1>11, <1>13, <1>14, <1>15, <1>16 DEF ShellInv

\* A temporary file takes the place of the file, or is gone: then the one who moved it has
\* cleaned the file.
LEMMA MoveTempKeeps ==
    ASSUME ShellInv, NEW r \in Reset, NEW f \in Used, MoveTemp(r, f)
    PROVE  ShellInv'
<1>p. PICK t : t = reset[r][f].stamp
  OBVIOUS
<1>u. /\ reset[r][f].phase = "move"
      /\ script' = IF temp[<<f, t>>] = NoFile THEN script ELSE [script EXCEPT ![f] = temp[<<f, t>>]]
      /\ temp' = [temp EXCEPT ![<<f, t>>] = NoFile]
      /\ reset' = [reset EXCEPT ![r][f] = [Idle EXCEPT !.phase = "done"]]
      /\ UNCHANGED <<scene, command, activation, append, terminal, timer, closeAll,
                     mine, behind, excused, raced>>
  BY <1>p DEF MoveTemp
<1> DEFINE now == [phase |-> "done", lines |-> <<>>, stamp |-> 1]
           moved == temp[<<f, t>>]
<1>2. Used' = Used /\ ResetFile' = ResetFile
  BY <1>u DEF Used, ResetFile
<1>3. /\ reset \in [Reset -> [Used -> ResetFile]]
      /\ temp \in [Used \X scene.stamps -> Seq(Seq(Word))]
      /\ script \in [Used -> Seq(Seq(Word))]
      /\ t \in scene.stamps
  BY <1>p, <1>u DEF ShellInv, ShellTypes, ShellTexts
<1>4. moved # NoFile => IsClean(moved) /\ IsText(moved) /\ ~Marked(moved) /\ Kept(f) \subseteq Words(moved)
  BY <1>p, <1>u, <1>3, CleanIsText DEF ShellInv, ShellTexts, ShellKeeps
<1>5. now \in ResetFile /\ now = [Idle EXCEPT !.phase = "done"]
  BY DEF ResetFile, Idle
<1> HIDE DEF now
<1>6. /\ reset' \in [Reset -> [Used -> ResetFile]]
      /\ \A q \in Reset, h \in Used : reset'[q][h] = IF q = r /\ h = f THEN now ELSE reset[q][h]
  BY <1>u, <1>3, <1>5
<1>7. now.phase = "done"
  BY DEF now
<1>8. /\ temp' \in [Used \X scene.stamps -> Seq(Seq(Word))]
      /\ \A h \in Used, s \in scene.stamps : temp'[<<h, s>>] = IF h = f /\ s = t THEN NoFile ELSE temp[<<h, s>>]
  <2>1. NoFile \in Seq(Seq(Word))
    BY DEF NoFile
  <2> QED BY <1>u, <1>3, <2>1
<1>9. /\ script' \in [Used -> Seq(Seq(Word))]
      /\ \A h \in Used : script'[h] = IF h = f /\ moved # NoFile THEN moved ELSE script[h]
  <2>1. moved \in Seq(Seq(Word))
    BY <1>3
  <2> QED BY <1>u, <1>3, <2>1
<1> HIDE DEF moved
<1>10. ShellTypes'
  BY <1>u, <1>2, <1>6, <1>8, <1>9 DEF ShellInv, ShellTypes
<1>s. \A q \in Reset, h \in Used : reset[q][h].phase = "move" => reset[q][h].stamp \in scene.stamps
  BY DEF ShellInv, ShellTexts
<1>11. ShellTexts'
  <2>1. \A h \in Used, s \in scene.stamps : temp'[<<h, s>>] # NoFile => IsClean(temp'[<<h, s>>])
    BY <1>8 DEF ShellInv, ShellTexts
  <2>2. \A q \in Reset, h \in Used : /\ reset'[q][h].phase \in {"write", "move"} => IsClean(reset'[q][h].lines)
                                     /\ reset'[q][h].phase = "move" => reset'[q][h].stamp \in scene.stamps
    BY <1>6, <1>7 DEF ShellInv, ShellTexts
  <2>3. \A h \in Used : IsText(script'[h])
    BY <1>4, <1>9 DEF ShellInv, ShellTexts
  <2> QED BY <1>u, <1>2, <2>1, <2>2, <2>3 DEF ShellTexts
<1>12. ShellOwed'
  <2>2. \A a \in Activation : Alive(a) => Alive(a)'
    BY <1>u DEF Alive
  <2>1. ASSUME NEW h \in Used, Marked(script'[h])
        PROVE  (\E a \in Activation : Alive(a)') \/ \E q \in Reset : Cleans(q, h)'
    <3>1. ~(h = f /\ moved # NoFile) /\ Marked(script[h])
      BY <2>1, <1>4, <1>9
    <3>2. ASSUME NEW q \in Reset, Cleans(q, h) PROVE Cleans(q, h)'
      <4>1. temp[<<f, t>>] = moved
        BY DEF moved
      <4>2. ~(q = r /\ h = f)
        BY <3>1, <3>2, <4>1, <1>p, <1>u DEF Cleans
      <4>3. reset'[q][h] = reset[q][h]
        BY <4>2, <1>6
      <4>4. reset[q][h].phase = "move" /\ temp[<<h, reset[q][h].stamp>>] # NoFile =>
                temp'[<<h, reset[q][h].stamp>>] # NoFile
        BY <3>1, <4>1, <1>8, <1>s
      <4> QED BY <3>2, <4>3, <4>4 DEF Cleans
    <3> QED BY <2>2, <3>1, <3>2 DEF ShellInv, ShellOwed
  <2> QED BY <1>u, <1>2, <2>1, <2>2 DEF ShellInv, ShellOwed
<1>13. \A q \in Reset, h \in Used : reset'[q][h].phase \in {"read", "write", "move"} => reset[q][h].phase \in {"read", "write", "move"}
  BY <1>6, <1>7
<1>14. ShellPhases'
  BY <1>u, <1>2, <1>13, ResetsAre DEF ShellInv, ShellPhases
<1>15. ShellRaces'
  BY <1>u, <1>2, <1>13 DEF ShellInv, ShellRaces
<1>16. ShellConfigures'
  <2>1. CASE Late(r)
    <3>1. ~raced => \A a \in Activation : terminal[a] # "open" /\ activation[a] \notin {"edit", "spawn"}
      BY <1>u, <2>1 DEF ShellInv, ShellRaces
    <3> QED BY <1>u, <3>1 DEF ShellConfigures
  <2>2. CASE ~Late(r)
    <3>1. PICK b \in Activation : r = <<b, "edit">>
      BY <2>2, ResetsAre
    <3>2. activation[b] = "edit"
      BY <1>u, <3>1 DEF ShellInv, ShellPhases
    <3> QED BY <1>u, <3>2 DEF ShellConfigures
  <2> QED BY <2>1, <2>2
<1>17. ShellKeeps'
  <2>1. \A h \in Used : Kept(h)' = Kept(h) /\ Kept(h) \subseteq Words(script'[h])
    <3>1. \A h \in Used : Kept(h) \subseteq Words(script[h])
      BY DEF ShellInv, ShellKeeps
    <3> QED BY <1>u, <1>4, <1>9, <3>1 DEF Kept
  <2>2. \A q \in Reset : \A h \in Used :
            reset'[q][h].phase \in {"write", "move"} => Kept(h) \subseteq Words(reset'[q][h].lines)
    BY <1>6, <1>7 DEF ShellInv, ShellKeeps
  <2>3. ASSUME NEW q \in Reset, NEW h \in Used, reset'[q][h].phase = "move",
               temp'[<<h, reset'[q][h].stamp>>] # NoFile
        PROVE  Kept(h) \subseteq Words(temp'[<<h, reset'[q][h].stamp>>])
    <3>1. reset'[q][h] = reset[q][h]
      BY <2>3, <1>6, <1>7
    <3>2. temp'[<<h, reset[q][h].stamp>>] =
                    IF h = f /\ reset[q][h].stamp = t THEN NoFile ELSE temp[<<h, reset[q][h].stamp>>]
      BY <2>3, <3>1, <1>8, <1>s
    <3> QED BY <2>3, <3>1, <3>2 DEF ShellInv, ShellKeeps
  <2>4. \A h \in Used : Kept(h)' = Kept(h)
    BY <2>1
  <2> QED BY <1>2, <2>1, <2>2, <2>3, <2>4 DEF ShellKeeps
<1> QED BY <1>10, <1>11, <1>12, <1>14, <1>15, <1>16, <1>17 DEF ShellInv

\* A section is appended to a script of the group, or the group has none.
LEMMA SectionGoesSomewhere ==
    ASSUME ShellInv, NEW a \in Activation, NEW g, AppendSection(a, g)
    PROVE  /\ g \in scene.shells /\ ToSet(g) \subseteq Used
           /\ \/ \E h \in ToSet(g) : script' = [script EXCEPT ![h] = Extended(script[h])]
              \/ script' = script /\ g \notin Forced /\ \A h \in ToSet(g) : script[h] = NoFile
<1> DEFINE there == {i \in DOMAIN g : script[g[i]] # NoFile}
           Written(f) == (IF script[f] = NoFile THEN <<<<>>>> ELSE script[f]) \o <<Start, End>>
<1>1. /\ g \in append[a]
      /\ script' = CASE there # {} -> [script EXCEPT ![g[Min(there)]] = Written(g[Min(there)])]
                     [] there = {} /\ g \in Forced -> [script EXCEPT ![Last(g)] = Written(Last(g))]
                     [] OTHER -> script
  BY DEF AppendSection
<1>2. \A f : Written(f) = Extended(script[f])
  BY DEF Extended
<1> HIDE DEF Written
<1>3. g \in scene.shells /\ scene \in ShellScenario
  BY <1>1 DEF ShellInv, ShellTypes
<1>4. g \in Seq(STRING) /\ g # <<>>
  BY <1>3, ShellAssumption
<1>5. DOMAIN g = 1..Len(g) /\ Len(g) \in Nat /\ Len(g) \in DOMAIN g /\ Last(g) = g[Len(g)]
  BY <1>4 DEF Last
<1>6. ToSet(g) \subseteq Used /\ \A i \in DOMAIN g : g[i] \in ToSet(g)
  BY <1>3 DEF Used, ToSet
<1>7. CASE there # {}
  <2>1. there \subseteq 1..Len(g)
    BY <1>5
  <2>2. Min(there) \in there
    BY <1>5, <1>7, <2>1, LeastOfSome
  <2>3. g[Min(there)] \in ToSet(g)
    BY <1>6, <2>2
  <2>4. script' = [script EXCEPT ![g[Min(there)]] = Extended(script[g[Min(there)]])]
    BY <1>1, <1>2, <1>7
  <2> QED BY <1>3, <1>6, <2>3, <2>4
<1>8. CASE there = {} /\ g \in Forced
  <2>1. script' = [script EXCEPT ![Last(g)] = Extended(script[Last(g)])]
    BY <1>1, <1>2, <1>8
  <2>2. Last(g) \in ToSet(g)
    BY <1>5, <1>6
  <2> QED BY <1>3, <1>6, <2>1, <2>2
<1>9. CASE there = {} /\ g \notin Forced
  <2>1. script' = script
    BY <1>1, <1>9
  <2>2. \A h \in ToSet(g) : script[h] = NoFile
    BY <1>9 DEF ToSet
  <2> QED BY <1>3, <1>6, <1>9, <2>1, <2>2
<1> QED BY <1>7, <1>8, <1>9

\* The rest of an append: the group is off the list.
LEMMA AppendSectionKeeps ==
    ASSUME ShellInv, NEW a \in Activation, NEW g, AppendSection(a, g)
    PROVE  ShellInv'
<1>1. /\ g \in append[a] /\ append' = [append EXCEPT ![a] = @ \ {g}]
      /\ UNCHANGED <<scene, command, temp, reset, activation, terminal, timer, closeAll,
                     mine, behind, excused, raced>>
  BY DEF AppendSection
<1>2. Used' = Used /\ ResetFile' = ResetFile
  BY <1>1 DEF Used, ResetFile
<1>3. append \in [Activation -> SUBSET scene.shells] /\ script \in [Used -> Seq(Seq(Word))]
  BY DEF ShellInv, ShellTypes
<1>4. /\ append' \in [Activation -> SUBSET scene.shells]
      /\ \A b \in Activation : append'[b] \subseteq append[b] /\ append[b] \ {g} \subseteq append'[b]
  BY <1>1, <1>3
<1>5. PICK S \in SUBSET ToSet(g) :
          /\ script' = [f \in Used |-> IF f \in S THEN Extended(script[f]) ELSE script[f]]
          /\ S = {} => g \notin Forced /\ \A h \in ToSet(g) : script[h] = NoFile
  <2>1. CASE \E h \in ToSet(g) : script' = [script EXCEPT ![h] = Extended(script[h])]
    <3>1. PICK h \in ToSet(g) : script' = [script EXCEPT ![h] = Extended(script[h])]
      BY <2>1
    <3>2. script' = [f \in Used |-> IF f \in {h} THEN Extended(script[f]) ELSE script[f]]
      BY <1>3, <3>1, SectionGoesSomewhere
    <3> QED BY <3>2
  <2>2. CASE script' = script /\ g \notin Forced /\ \A h \in ToSet(g) : script[h] = NoFile
    <3>1. script' = [f \in Used |-> IF f \in {} THEN Extended(script[f]) ELSE script[f]]
      BY <1>3, <2>2
    <3>2. {} \in SUBSET ToSet(g)
      OBVIOUS
    <3> QED BY <2>2, <3>1, <3>2, Zenon
  <2> QED BY <2>1, <2>2, SectionGoesSomewhere
<1>6. \A f \in Used : script'[f] = IF f \in S THEN Extended(script[f]) ELSE script[f]
  BY <1>5
<1>7. \A f \in Used : /\ IsText(Extended(script[f])) /\ Marked(Extended(script[f])) /\ Extended(script[f]) # NoFile
                      /\ Words(script[f]) \subseteq Words(Extended(script[f]))
  BY SectionIsAdded DEF ShellInv, ShellTexts, NoFile
<1>8. /\ \A f \in Used : IsText(script'[f]) /\ Words(script[f]) \subseteq Words(script'[f])
      /\ \A f \in Used : f \in S => Marked(script'[f])
      /\ \A f \in Used : f \notin S => script'[f] = script[f]
  BY <1>6, <1>7 DEF ShellInv, ShellTexts
<1>9. script' \in [Used -> Seq(Seq(Word))]
  <2>1. \A f \in Used : script'[f] \in Seq(Seq(Word))
    BY <1>8 DEF IsText
  <2> QED BY <1>5, <2>1
<1>10. ShellTypes'
  BY <1>1, <1>2, <1>4, <1>9 DEF ShellInv, ShellTypes
<1>11. ShellTexts'
  BY <1>1, <1>2, <1>8 DEF ShellInv, ShellTexts
<1>12. ShellOwed'
  <2>1. \A b \in Activation : Alive(b) => Alive(b)'
    BY <1>1 DEF Alive
  <2>2. Alive(a)
    BY <1>1 DEF ShellInv, ShellOwed
  <2>3. \A b \in Activation : append'[b] # {} => Alive(b)'
    BY <1>4, <2>1 DEF ShellInv, ShellOwed
  <2> QED BY <2>1, <2>2, <2>3 DEF ShellOwed
<1>13. ShellPhases' /\ ShellRaces'
  BY <1>1, <1>2 DEF ShellInv, ShellPhases, ShellRaces
<1>14. ShellConfigures'
  <2> SUFFICES ASSUME ~raced, command = "scripted",
                      \E b \in Activation : terminal[b] = "open" \/ activation[b] = "spawn",
                      NEW k \in scene.shells,
                      k \in Forced \/ (\E f \in ToSet(k) : script'[f] # NoFile),
                      \A f \in ToSet(k) : ~Marked(script'[f])
               PROVE  \E b \in Activation : activation[b] = "edit" \/ k \in append'[b]
    BY <1>1 DEF ShellConfigures
  <2>1. ToSet(k) \subseteq Used /\ ToSet(g) \subseteq Used
    BY SectionGoesSomewhere DEF Used
  <2>2. \A f \in ToSet(k) : f \notin S /\ script'[f] = script[f]
    BY <1>8, <2>1
  <2>3. k # g
    BY <1>5, <2>2
  <2>4. \E b \in Activation : activation[b] = "edit" \/ k \in append[b]
    BY <2>2 DEF ShellInv, ShellConfigures
  <2> QED BY <1>4, <2>3, <2>4
<1>15. ShellKeeps'
  <2>1. \A f \in Used : Kept(f)' = Kept(f) /\ Kept(f) \subseteq Words(script'[f])
    BY <1>1, <1>8 DEF Kept, ShellInv, ShellKeeps
  <2> QED BY <1>1, <1>2, <2>1 DEF ShellInv, ShellKeeps
<1> QED BY <1>10, <1>11, <1>12, <1>13, <1>14, <1>15 DEF ShellInv

\* A line of the user stays, or is excused.
LEMMA UserWritesKeeps ==
    ASSUME ShellInv, NEW f \in Used, NEW l \in scene.lines, UserWrites(f, l)
    PROVE  ShellInv'
<1>1. /\ script[f] # NoFile /\ script' = [script EXCEPT ![f] = Continued(script[f], l)]
      /\ mine' = [mine EXCEPT ![f] = @ \cup {l}]
      /\ behind' = IF StartsWith(Last(script[f]), End) THEN behind \cup {l} ELSE behind
      /\ excused' = IF \E r \in Reset : reset[r][f].phase \in {"write", "move"}
                    THEN excused \cup {l} ELSE excused
      /\ UNCHANGED <<scene, command, temp, reset, activation, append, terminal, timer, closeAll, raced>>
  BY DEF UserWrites, Continued
<1>2. Used' = Used /\ ResetFile' = ResetFile
  BY <1>1 DEF Used, ResetFile
<1>3. /\ script \in [Used -> Seq(Seq(Word))] /\ mine \in [Used -> SUBSET Word]
      /\ scene \in ShellScenario
  BY DEF ShellInv, ShellTypes
<1>4. l \in Word /\ l # "start" /\ l # "end"
  BY <1>3, ShellAssumption DEF Word
<1> DEFINE more == Continued(script[f], l)
<1>5. /\ IsText(more) /\ more # NoFile /\ (Marked(more) <=> Marked(script[f]))
      /\ Words(script[f]) \subseteq Words(more)
      /\ ~StartsWith(Last(script[f]), End) => l \in Words(more)
  <2>1. IsText(script[f]) /\ script[f] # <<>>
    BY <1>1 DEF ShellInv, ShellTexts, NoFile
  <2>2. l \in Word \ {"start", "end"}
    BY <1>4
  <2> QED BY <2>1, <2>2, LineIsContinued DEF NoFile
<1>6. \A h \in Used : script'[h] = IF h = f THEN more ELSE script[h]
  BY <1>1, <1>3
<1> HIDE DEF more
<1>7. /\ \A h \in Used : IsText(script'[h]) /\ Words(script[h]) \subseteq Words(script'[h])
      /\ \A h \in Used : Marked(script'[h]) <=> Marked(script[h])
      /\ \A h \in Used : script'[h] = NoFile <=> script[h] = NoFile
  BY <1>1, <1>5, <1>6 DEF ShellInv, ShellTexts
<1>8. script' \in [Used -> Seq(Seq(Word))]
  <2>1. script' = [h \in Used |-> script'[h]]
    BY <1>1, <1>3
  <2>2. \A h \in Used : script'[h] \in Seq(Seq(Word))
    BY <1>7 DEF IsText
  <2> QED BY <2>1, <2>2
<1>9. /\ mine' \in [Used -> SUBSET Word]
      /\ \A h \in Used : mine'[h] = IF h = f THEN mine[f] \cup {l} ELSE mine[h]
  BY <1>1, <1>3, <1>4
<1>10. ShellTypes'
  BY <1>1, <1>2, <1>8, <1>9 DEF ShellInv, ShellTypes
<1>11. ShellTexts'
  BY <1>1, <1>2, <1>7 DEF ShellInv, ShellTexts
<1>12. ShellOwed'
  <2>1. \A b \in Activation : Alive(b)' = Alive(b)
    BY <1>1 DEF Alive
  <2>2. \A r \in Reset, h \in Used : Cleans(r, h)' = Cleans(r, h)
    BY <1>1 DEF Cleans
  <2>3. \A h \in Used : Marked(script'[h]) => (\E b \in Activation : Alive(b)') \/ \E r \in Reset : Cleans(r, h)'
    BY <1>7, <2>1, <2>2 DEF ShellInv, ShellOwed
  <2>4. \A b \in Activation : append'[b] # {} => Alive(b)'
    BY <1>1, <2>1 DEF ShellInv, ShellOwed
  <2> QED BY <1>2, <2>3, <2>4 DEF ShellOwed
<1>13. ShellPhases' /\ ShellRaces'
  <2>1. ShellPhases'
    BY <1>1, <1>2 DEF ShellInv, ShellPhases
  <2>2. ShellRaces'
    BY <1>1, <1>2 DEF ShellInv, ShellRaces
  <2> QED BY <2>1, <2>2
<1>14. ShellConfigures'
  <2>1. \A g \in scene.shells : \A h \in ToSet(g) : h \in Used
    BY DEF Used
  <2>2. \A g \in scene.shells : \A h \in ToSet(g) : /\ Marked(script'[h]) <=> Marked(script[h])
                                                    /\ script'[h] = NoFile <=> script[h] = NoFile
    BY <1>7, <2>1
  <2>3. ShellConfigures
    BY DEF ShellInv
  <2> SUFFICES ASSUME ~raced, command = "scripted",
                      \E b \in Activation : terminal[b] = "open" \/ activation[b] = "spawn",
                      NEW g \in scene.shells,
                      g \in Forced \/ (\E h \in ToSet(g) : script'[h] # NoFile)
               PROVE  \/ \E b \in Activation : activation[b] = "edit" \/ g \in append[b]
                      \/ \E h \in ToSet(g) : Marked(script'[h])
    BY <1>1 DEF ShellConfigures
  <2>4. g \in Forced \/ (\E h \in ToSet(g) : script[h] # NoFile)
    BY <2>2
  <2>5. \/ \E b \in Activation : activation[b] = "edit" \/ g \in append[b]
        \/ \E h \in ToSet(g) : Marked(script[h])
    BY <2>3, <2>4 DEF ShellConfigures
  <2>6. \A h \in ToSet(g) : Marked(script[h]) => Marked(script'[h])
    BY <2>2
  <2> QED BY <2>5, <2>6
<1>15. ShellKeeps'
  <2>1. \A h \in Used : h # f => Kept(h)' \subseteq Kept(h)
    BY <1>1, <1>9 DEF Kept
  <2>2. Kept(f)' \subseteq Kept(f) \cup {l}
    BY <1>1, <1>9 DEF Kept
  <2>3. l \in Kept(f)' => /\ ~StartsWith(Last(script[f]), End)
                          /\ \A r \in Reset : reset[r][f].phase \notin {"write", "move"}
    BY <1>1 DEF Kept
  <2>4. \A h \in Used : Kept(h)' \subseteq Words(script'[h])
    <3>1. \A h \in Used : Kept(h) \subseteq Words(script'[h])
      BY <1>7 DEF ShellInv, ShellKeeps
    <3>2. l \in Kept(f)' => l \in Words(script'[f])
      BY <1>5, <1>6, <2>3
    <3> QED BY <2>1, <2>2, <3>1, <3>2
  <2>5. \A r \in Reset : \A h \in Used : reset[r][h].phase \in {"write", "move"} => Kept(h)' \subseteq Kept(h)
    BY <2>1, <2>2, <2>3
  <2>6. \A r \in Reset : \A h \in Used :
            reset[r][h].phase \in {"write", "move"} => Kept(h)' \subseteq Words(reset[r][h].lines)
    BY <2>5 DEF ShellInv, ShellKeeps
  <2>7. ASSUME NEW r \in Reset, NEW h \in Used, reset[r][h].phase = "move", temp[<<h, reset[r][h].stamp>>] # NoFile
        PROVE  Kept(h)' \subseteq Words(temp[<<h, reset[r][h].stamp>>])
    BY <2>5, <2>7 DEF ShellInv, ShellKeeps
  <2> QED BY <1>1, <1>2, <2>4, <2>6, <2>7 DEF ShellKeeps
<1> QED BY <1>10, <1>11, <1>12, <1>13, <1>14, <1>15 DEF ShellInv

\* Whatever activations, resets, timers and edits of the user come between each other.
LEMMA ShellStays == ShellInv /\ [ShellNext]_shellVars => ShellInv'
<1> SUFFICES ASSUME ShellInv, [ShellNext]_shellVars PROVE ShellInv'
  OBVIOUS
<1>1. ASSUME NEW r \in Reset, NEW f \in Used, ReadScript(r, f) \/ WriteTemp(r, f) \/ MoveTemp(r, f)
      PROVE  ShellInv'
  BY <1>1, ReadScriptKeeps, WriteTempKeeps, MoveTempKeeps
<1>2. ASSUME NEW a \in Activation, Activate(a) \/ CommandKnown(a) \/ StartAppends(a) \/ Spawn(a)
      PROVE  ShellInv'
  BY <1>2, ActivateKeeps, CommandKnownKeeps, StartAppendsKeeps, SpawnKeeps
<1>3. ASSUME NEW a \in Activation, TerminalCloses(a) \/ TimerFires(a)
      PROVE  ShellInv'
  BY <1>3, TerminalClosesKeeps, TimerFiresKeeps
<1>4. ASSUME NEW a \in Activation, NEW g \in Group, AppendSection(a, g)
      PROVE  ShellInv'
  BY <1>4, AppendSectionKeeps
<1>5. ASSUME NEW f \in Used, NEW l \in scene.lines, UserWrites(f, l)
      PROVE  ShellInv'
  BY <1>5, UserWritesKeeps
<1>6. CASE AllClosed
  BY <1>6, AllClosedKeeps
<1>7. CASE DeactivateAll \/ UNCHANGED shellVars
  <2>1. UNCHANGED <<scene, command, script, temp, reset, activation, append, terminal, timer,
                    mine, behind, excused, raced>>
    BY <1>7 DEF DeactivateAll, shellVars
  <2> QED BY <2>1, NothingMovesKeeps
<1> QED BY <1>1, <1>2, <1>3, <1>4, <1>5, <1>6, <1>7 DEF ShellNext, ResetStep

\* The invariant is what was to be shown of scripts.
LEMMA ShellInvMeans == ShellInv => ScriptsAreRestored
<1> SUFFICES ASSUME ShellInv PROVE ScriptsAreRestored
  OBVIOUS
<1>1. \A f \in Used : /\ script[f] \in Seq(Seq(Word)) /\ DOMAIN script[f] = 1..Len(script[f])
                      /\ NoFile = <<>> /\ Len(NoFile) = 0
  BY DEF ShellInv, ShellTypes, NoFile
<1>2. \A f \in Used : Sections(f) # {} <=> Marked(script[f])
  <2>1. \A f \in Used : script[f] = NoFile => ~Marked(script[f])
    BY <1>1 DEF Marked
  <2>2. \A f \in Used : script[f] # NoFile => (Sections(f) # {} <=> Marked(script[f]))
    BY <1>1 DEF Marked, Sections
  <2>3. \A f \in Used : script[f] = NoFile => Sections(f) = {}
    BY DEF Sections
  <2> QED BY <2>1, <2>2, <2>3
<1>3. NothingLeftBehind
  <2> SUFFICES ASSUME QuietScripts, OpenTerminals = {}, NEW f \in Used PROVE ~Marked(script[f])
    BY <1>2 DEF NothingLeftBehind
  <2>1. \A a \in Activation : ~Alive(a)
    BY DEF QuietScripts, OpenTerminals, Activating, Alive
  <2>2. \A r \in Reset : ~Cleans(r, f)
    BY DEF QuietScripts, Resetting, Cleans
  <2> QED BY <2>1, <2>2 DEF ShellInv, ShellOwed
<1>4. OpenTerminalIsConfigured
  <2> SUFFICES ASSUME QuietScripts, OpenTerminals # {}, command = "scripted", ~raced,
                      NEW g \in scene.shells,
                      g \in Forced \/ (\E f \in ToSet(g) : script[f] # NoFile)
               PROVE  \E f \in ToSet(g) : Sections(f) # {}
    BY DEF OpenTerminalIsConfigured, OpenShellsAreConfigured
  <2>1. \E a \in Activation : terminal[a] = "open"
    BY DEF OpenTerminals
  <2>2. \A b \in Activation : activation[b] # "edit" /\ g \notin append[b]
    BY DEF QuietScripts, Activating
  <2>3. \E f \in ToSet(g) : Marked(script[f])
    BY <2>1, <2>2 DEF ShellInv, ShellConfigures
  <2> QED BY <1>2, <2>3 DEF Used
<1>5. UserLinesAreKept
  <2> SUFFICES ASSUME NEW f \in Used PROVE Words(script[f]) \subseteq WrittenIn(f)
    BY DEF UserLinesAreKept, ShellInv, ShellKeeps, Kept
  <2>1. CASE script[f] = NoFile
    BY <1>1, <2>1 DEF Words
  <2>2. CASE script[f] # NoFile
    <3>1. WrittenIn(f) = UNION {ToSet(script[f][i]) : i \in DOMAIN script[f]}
      BY <2>2 DEF WrittenIn
    <3> QED BY <1>1, <3>1 DEF Words
  <2> QED BY <2>1, <2>2
<1> QED BY <1>3, <1>4, <1>5 DEF ScriptsAreRestored

\* Once every terminal is closed no script has a section left; open ones find theirs, unless a
\* reset raced with an activation; and the user's lines are kept, but for those right behind an
\* end marker or written while the file was rewritten (fresh-terminal-interceptor.ts:232-307,
\* terminal-scripts.ts:170-262).
THEOREM ScriptsRestored == ShellInit /\ [][ShellNext]_shellVars => []ScriptsAreRestored
<1>1. ShellInit => ShellInv
  BY ShellInitially
<1>2. ShellInv /\ [ShellNext]_shellVars => ShellInv'
  BY ShellStays
<1>3. ShellInv => ScriptsAreRestored
  BY ShellInvMeans
<1> QED BY <1>1, <1>2, <1>3, PTL
=============================================================================
