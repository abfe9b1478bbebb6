------------------------------- MODULE Lemmas -------------------------------
(***************************************************************************)
(* What several of the proofs need. Arithmetic of ring buffers, for the    *)
(* rings of hackbot_console.c and its siblings and of hackbot_memory.rs:   *)
(* the provers know no more of a % N than its definition. Induction over   *)
(* the natural numbers, stated of a set instead of an operator so that the *)
(* provers can instantiate it. And what Passing keeps of a sequence.       *)
(***************************************************************************)
EXTENDS Integers, Sequences, Filtering, FiniteSetTheorems, TLAPS

------------------------------------------------------------------------------
(* Remainders *)

(* Division with remainder.                                                *)
LEMMA DivMod ==
    ASSUME NEW N \in Nat \ {0}, NEW a \in Nat
    PROVE  /\ a % N \in 0 .. N - 1
           /\ a \div N \in Nat
           /\ a = N * (a \div N) + (a % N)
BY SMT

(* Quotient and remainder are unique.                                      *)
LEMMA ModUnique ==
    ASSUME NEW N \in Nat \ {0}, NEW q \in Int, NEW r \in 0 .. N - 1,
           NEW p \in Int, NEW s \in 0 .. N - 1,
           N * q + r = N * p + s
    PROVE  r = s
<1>1. CASE q = p
  BY <1>1, SMT
<1>2. CASE q > p
  <2>1. PICK d \in Nat : q = p + 1 + d
    BY <1>2, SMT
  <2>2. N * q = N * p + N + N * d
    BY <2>1, SMT
  <2>3. N * d >= 0
    BY SMT
  <2> QED
    BY <2>2, <2>3, SMT
<1>3. CASE q < p
  <2>1. PICK d \in Nat : p = q + 1 + d
    BY <1>3, SMT
  <2>2. N * p = N * q + N + N * d
    BY <2>1, SMT
  <2>3. N * d >= 0
    BY SMT
  <2> QED
    BY <2>2, <2>3, SMT
<1> QED
  BY <1>1, <1>2, <1>3, SMT

(* Hence a representation gives the remainder.                             *)
LEMMA ModIs ==
    ASSUME NEW N \in Nat \ {0}, NEW a \in Nat,
           NEW q \in Int, NEW r \in 0 .. N - 1
    PROVE  a = N * q + r => a % N = r
<1> DEFINE d == a \div N
           m == a % N
<1>1. m \in 0 .. N - 1 /\ d \in Int /\ a = N * d + m
  BY DivMod
<1> HIDE DEF m, d
<1>2. HAVE a = N * q + r
<1>3. m = r
  BY <1>1, <1>2, ModUnique
<1> QED
  BY <1>3 DEF m

(* A step of at most one turn wraps at most once.                          *)
LEMMA ModAdd ==
    ASSUME NEW N \in Nat \ {0}, NEW a \in Nat, NEW k \in 0 .. N
    PROVE  (a + k) % N = IF (a % N) + k < N THEN (a % N) + k
                                            ELSE (a % N) + k - N
<1> DEFINE d == a \div N
           m == a % N
<1>1. m \in 0 .. N - 1 /\ d \in Nat /\ a = N * d + m
  BY DivMod
<1> HIDE DEF m, d
<1>2. CASE m + k < N
  <2>1. m + k \in 0 .. N - 1
    BY <1>1, <1>2
  <2>2. a + k = N * d + (m + k)
    BY <1>1, SMT
  <2>3. (a + k) % N = m + k
    BY <1>1, <2>1, <2>2, ModIs
  <2> QED
    BY <2>3, <1>2 DEF m
<1>3. CASE ~(m + k < N)
  <2> DEFINE q == d + 1
             r == m + k - N
  <2>1. q \in Int /\ r \in 0 .. N - 1 /\ a + k = N * q + r /\ a + k \in Nat
    BY <1>1, <1>3, SMT
  <2> HIDE DEF q, r
  <2>2. (a + k) % N = r
    BY <2>1, ModIs
  <2> QED
    BY <2>2, <1>3 DEF r, m
<1> QED
  BY <1>2, <1>3

(* A remainder is its own remainder.                                       *)
LEMMA ModSmall ==
    ASSUME NEW N \in Nat \ {0}, NEW a \in 0 .. N - 1
    PROVE  a % N = a
<1>1. 0 \in Int /\ a = N * 0 + a
  BY SMT
<1> QED
  BY <1>1, ModIs

(* Stepping from the cell of a is stepping from a.                         *)
LEMMA ModModAdd ==
    ASSUME NEW N \in Nat \ {0}, NEW a \in Nat, NEW k \in 0 .. N
    PROVE  ((a % N) + k) % N = (a + k) % N
<1> DEFINE m == a % N
<1>1. m \in 0 .. N - 1
  BY DivMod
<1>2. m % N = m
  BY <1>1, ModSmall
<1> HIDE DEF m
<1>3. (m + k) % N = IF (m % N) + k < N THEN (m % N) + k ELSE (m % N) + k - N
  <2>1. m \in Nat
    BY <1>1, SMT
  <2> QED
    BY <2>1, ModAdd
<1>4. (a + k) % N = IF m + k < N THEN m + k ELSE m + k - N
  BY ModAdd DEF m
<1>5. (m + k) % N = (a + k) % N
  BY <1>2, <1>3, <1>4
<1> QED
  BY <1>5 DEF m

(* Stepping back from the cell of n, as readers do to find their start.    *)
LEMMA ModBack ==
    ASSUME NEW N \in Nat \ {0}, NEW n \in Nat, NEW k \in 0 .. N, k <= n
    PROVE  ((n % N) - k + N) % N = (n - k) % N
<1> DEFINE m == (n - k) % N
           h == n % N
<1>0. n - k \in Nat /\ (n - k) + k = n
  BY SMT
<1>1. m \in 0 .. N - 1 /\ h \in 0 .. N - 1
  BY <1>0, DivMod
<1>2. h = IF m + k < N THEN m + k ELSE m + k - N
  <2>1. ((n - k) + k) % N = IF m + k < N THEN m + k ELSE m + k - N
    BY <1>0, ModAdd
  <2> QED
    BY <1>0, <2>1
<1> HIDE DEF m, h
<1>3. m % N = m
  BY <1>1, ModSmall
<1>4. (m + N) % N = m
  <2>1. N \in 0 .. N /\ m \in Nat
    BY <1>1, SMT
  <2>2. (m + N) % N = IF (m % N) + N < N THEN (m % N) + N ELSE (m % N) + N - N
    BY <2>1, ModAdd
  <2> QED
    BY <1>1, <1>3, <2>2, SMT
<1>5. h - k + N = m + N \/ h - k + N = m
  BY <1>1, <1>2, SMT
<1>6. (h - k + N) % N = m
  BY <1>3, <1>4, <1>5
<1> QED
  BY <1>6 DEF m, h

(* Positions less than one turn apart lie in different cells.              *)
LEMMA ModDistinct ==
    ASSUME NEW N \in Nat \ {0}, NEW a \in Nat, NEW k \in 1 .. N - 1
    PROVE  (a + k) % N # a % N
<1> DEFINE m == a % N
<1>1. m \in 0 .. N - 1
  BY DivMod
<1>2. k \in 0 .. N
  BY SMT
<1>3. (a + k) % N = IF m + k < N THEN m + k ELSE m + k - N
  BY <1>2, ModAdd
<1> HIDE DEF m
<1>4. (a + k) % N # m
  BY <1>1, <1>3, SMT
<1> QED
  BY <1>4 DEF m

------------------------------------------------------------------------------
(* Induction over the natural numbers *)

(* A set of natural numbers has a least one.                               *)
LEMMA Least ==
    ASSUME NEW T \in SUBSET Nat, T # {}
    PROVE  \E x \in T : \A y \in T : x <= y
<1> DEFINE F == {0 .. x : x \in T}
<1>1. F \subseteq FiniteSubsetsOf(Nat) /\ F # {}
  <2>1. ASSUME NEW x \in T PROVE 0 .. x \in FiniteSubsetsOf(Nat)
    BY FS_Interval DEF FiniteSubsetsOf
  <2> QED
    BY <2>1
<1>2. PICK S \in F : \A R \in F : ~(<<R, S>> \in StrictSubsetOrdering(Nat))
  <2> HIDE DEF F
  <2> QED
    BY <1>1, FS_StrictSubsetOrderingWellFounded, WFMin
<1>3. PICK x \in T : S = 0 .. x
  OBVIOUS
<1>4. ASSUME NEW y \in T, y < x PROVE FALSE
  <2>1. x \in 0 .. x /\ x \notin 0 .. y
    BY <1>4
  <2>2. 0 .. y \subseteq 0 .. x /\ 0 .. y # 0 .. x /\ 0 .. x \subseteq Nat
    BY <1>4, <2>1
  <2>3. <<0 .. y, S>> \in StrictSubsetOrdering(Nat)
    BY <1>3, <2>2 DEF StrictSubsetOrdering
  <2> QED
    BY <1>2, <2>3
<1> QED
  BY <1>4

(* Induction: what holds of 0 and passes from n to n + 1 holds of all.     *)
LEMMA Inductive ==
    ASSUME NEW G, 0 \in G, \A n \in Nat : n \in G => n + 1 \in G
    PROVE  Nat \subseteq G
<1> SUFFICES ASSUME Nat \ G # {} PROVE FALSE
  OBVIOUS
<1>1. PICK x \in Nat \ G : \A y \in Nat \ G : x <= y
  BY Least
<1>2. x # 0 /\ x - 1 \in Nat
  BY <1>1
<1>3. x - 1 \in G
  BY <1>1, <1>2
<1> QED
  BY <1>1, <1>2, <1>3

------------------------------------------------------------------------------
(* Filtered sequences *)

(* What passes of the first i elements, given what passes of fewer.        *)
Step(s, S, f, i) ==
    IF i = 0 THEN << >>
    ELSE IF s[i] \in S THEN Append(f[i - 1], s[i])
    ELSE f[i - 1]

Steps(s, S, f, n) == \A i \in 0 .. n : f[i] = Step(s, S, f, i)

(* The recursion of Passing defines a function: F[i] is what passes of the *)
(* first i elements.                                                       *)
LEMMA PassingSteps ==
    ASSUME NEW E, NEW s \in Seq(E), NEW S
    PROVE  \E F \in [0 .. Len(s) -> Seq(E)] :
              Steps(s, S, F, Len(s)) /\ Passing(s, S) = F[Len(s)]
<1> DEFINE Good(n) == \E f \in [0 .. n -> Seq(E)] : Steps(s, S, f, n)
           G == {n \in Nat : n <= Len(s) => Good(n)}
<1>1. Len(s) \in Nat /\ \A i \in 1 .. Len(s) : s[i] \in E
  OBVIOUS
<1>2. 0 \in G
  <2>1. PICK f : f = [i \in 0 .. 0 |-> << >>]
    OBVIOUS
  <2>2. f \in [0 .. 0 -> Seq(E)] /\ Steps(s, S, f, 0)
    BY <2>1 DEF Step, Steps
  <2>3. Good(0)
    BY <2>2
  <2> HIDE DEF Good
  <2> QED
    BY <2>3
<1>3. ASSUME NEW n \in Nat, n \in G PROVE n + 1 \in G
  <2>1. CASE n + 1 <= Len(s)
    <3>1. PICK f \in [0 .. n -> Seq(E)] : Steps(s, S, f, n)
      BY <1>1, <1>3, <2>1
    <3>2. PICK g : g = [i \in 0 .. n + 1 |->
                           IF i <= n THEN f[i] ELSE Step(s, S, f, i)]
      OBVIOUS
    <3>3. g \in [0 .. n + 1 -> Seq(E)]
      <4>1. s[n + 1] \in E /\ f[n] \in Seq(E) /\ (n + 1) - 1 = n
        BY <1>1, <2>1
      <4>2. Step(s, S, f, n + 1) \in Seq(E)
        BY <4>1 DEF Step
      <4> QED
        BY <3>2, <4>2
    <3>4. ASSUME NEW i \in 0 .. n + 1 PROVE g[i] = Step(s, S, g, i)
      <4>1. CASE i = 0
        <5>1. g[0] = f[0] /\ f[0] = << >>
          BY <3>1, <3>2 DEF Step, Steps
        <5> QED
          BY <4>1, <5>1 DEF Step
      <4>2. CASE i # 0
        <5>1. g[i - 1] = f[i - 1]
          BY <3>2, <4>2
        <5>2. g[i] = Step(s, S, f, i)
          BY <3>1, <3>2 DEF Steps
        <5> QED
          BY <4>2, <5>1, <5>2 DEF Step
      <4> QED
        BY <4>1, <4>2
    <3>5. Good(n + 1)
      BY <3>3, <3>4 DEF Steps
    <3> HIDE DEF Good
    <3> QED
      BY <3>5
  <2>2. CASE ~(n + 1 <= Len(s))
    BY <2>2
  <2> QED
    BY <2>1, <2>2
<1>4. Len(s) \in G
  <2> HIDE DEF G
  <2> QED
    BY <1>1, <1>2, <1>3, Inductive
<1>5. PICK g \in [0 .. Len(s) -> Seq(E)] : Steps(s, S, g, Len(s))
  BY <1>1, <1>4
<1>6. g = [i \in 0 .. Len(s) |-> Step(s, S, g, i)]
  BY <1>5 DEF Steps
<1>7. PICK F : /\ F = [i \in 0 .. Len(s) |-> Step(s, S, F, i)]
               /\ Passing(s, S) = F[Len(s)]
  <2> DEFINE C == CHOOSE f : f = [i \in 0 .. Len(s) |-> Step(s, S, f, i)]
  <2>1. C = [i \in 0 .. Len(s) |-> Step(s, S, C, i)]
    BY <1>6
  <2>2. Passing(s, S) = C[Len(s)]
    BY DEF Passing, Step
  <2> HIDE DEF C
  <2> QED
    BY <2>1, <2>2
<1>8. \A n \in 0 .. Len(s) : F[n] = g[n]
  <2> DEFINE H == {n \in Nat : n <= Len(s) => F[n] = g[n]}
  <2>1. 0 \in H
    BY <1>1, <1>5, <1>7 DEF Step, Steps
  <2>2. ASSUME NEW n \in Nat, n \in H PROVE n + 1 \in H
    <3> SUFFICES ASSUME n + 1 <= Len(s) PROVE F[n + 1] = g[n + 1]
      OBVIOUS
    <3>1. F[n] = g[n] /\ n + 1 \in 0 .. Len(s) /\ n + 1 # 0 /\ (n + 1) - 1 = n
      BY <1>1, <2>2
    <3>2. F[n + 1] = Step(s, S, F, n + 1)
      BY <1>7, <3>1
    <3>3. g[n + 1] = Step(s, S, g, n + 1)
      BY <1>5, <3>1 DEF Steps
    <3>4. Step(s, S, F, n + 1) = Step(s, S, g, n + 1)
      BY <3>1 DEF Step
    <3> QED
      BY <3>2, <3>3, <3>4
  <2>3. Nat \subseteq H
    <3> HIDE DEF H
    <3> QED
      BY <2>1, <2>2, Inductive
  <2> QED
    BY <2>3
<1>9. Len(s) \in 0 .. Len(s)
  BY <1>1
<1>10. Passing(s, S) = g[Len(s)]
  BY <1>7, <1>8, <1>9
<1> QED
  BY <1>5, <1>10

LEMMA PassingEmpty ==
    ASSUME NEW S
    PROVE  Passing(<< >>, S) = << >>
<1>1. PICK s \in Seq(Nat) : s = << >> /\ Len(s) = 0
  <2>1. << >> \in Seq(Nat) /\ Len(<< >>) = 0
    OBVIOUS
  <2> QED
    BY <2>1
<1>2. PICK F \in [0 .. Len(s) -> Seq(Nat)] :
          Steps(s, S, F, Len(s)) /\ Passing(s, S) = F[Len(s)]
  BY PassingSteps
<1>3. F[0] = << >>
  BY <1>1, <1>2 DEF Steps, Step
<1> QED
  BY <1>1, <1>2, <1>3

(* One more element passes or does not; what passed before stays.          *)
LEMMA PassingAppend ==
    ASSUME NEW s \in Seq(Nat), NEW e \in Nat, NEW S
    PROVE  /\ Passing(s, S) \in Seq(Nat)
           /\ e \in S => Passing(Append(s, e), S) = Append(Passing(s, S), e)
           /\ e \notin S => Passing(Append(s, e), S) = Passing(s, S)
<1>1. PICK n \in Nat : n = Len(s)
  OBVIOUS
<1>2. PICK t \in Seq(Nat) : /\ t = Append(s, e) /\ Len(t) = n + 1
                          /\ t[n + 1] = e /\ \A i \in 1 .. n : t[i] = s[i]
  <2>1. /\ Append(s, e) \in Seq(Nat) /\ Len(Append(s, e)) = n + 1
        /\ Append(s, e)[n + 1] = e
        /\ \A i \in 1 .. n : Append(s, e)[i] = s[i]
    BY <1>1
  <2> QED
    BY <2>1
<1>3. PICK F \in [0 .. n -> Seq(Nat)] : Steps(s, S, F, n) /\ Passing(s, S) = F[n]
  BY <1>1, PassingSteps
<1>4. PICK H \in [0 .. n + 1 -> Seq(Nat)] :
          Steps(t, S, H, n + 1) /\ Passing(t, S) = H[n + 1]
  <2>1. \E H \in [0 .. Len(t) -> Seq(Nat)] :
            Steps(t, S, H, Len(t)) /\ Passing(t, S) = H[Len(t)]
    BY PassingSteps
  <2>2. Len(t) = n + 1
    BY <1>2
  <2> QED
    BY <2>1, <2>2
<1> DEFINE G == {m \in Nat : m <= n => H[m] = F[m]}
<1>5. 0 \in G
  BY <1>3, <1>4 DEF Step, Steps
<1>6. ASSUME NEW m \in Nat, m \in G PROVE m + 1 \in G
  <2> SUFFICES ASSUME m + 1 <= n PROVE H[m + 1] = F[m + 1]
    OBVIOUS
  <2>1. /\ H[m] = F[m] /\ m + 1 \in 0 .. n /\ m + 1 \in 0 .. n + 1
        /\ m + 1 \in 1 .. n /\ m + 1 # 0 /\ (m + 1) - 1 = m
    BY <1>6
  <2>2. F[m + 1] = Step(s, S, F, m + 1) /\ H[m + 1] = Step(t, S, H, m + 1)
    BY <1>3, <1>4, <2>1 DEF Steps
  <2> QED
    BY <1>2, <2>1, <2>2 DEF Step
<1>7. n \in G
  <2> HIDE DEF G
  <2> QED
    BY <1>5, <1>6, Inductive
<1>8. H[n + 1] = Step(t, S, H, n + 1)
  BY <1>4 DEF Steps
<1>9. n + 1 # 0 /\ (n + 1) - 1 = n /\ n \in 0 .. n
  OBVIOUS
<1> QED
  BY <1>2, <1>3, <1>4, <1>7, <1>8, <1>9 DEF Step

(* Where the first e elements are left out and the others are not, the     *)
(* others are what remains.                                                *)
LEMMA PassingSuffix ==
    ASSUME NEW E, NEW s \in Seq(E), NEW S, NEW e \in 0 .. Len(s),
           \A i \in 1 .. e : s[i] \notin S,
           \A i \in e + 1 .. Len(s) : s[i] \in S
    PROVE  Passing(s, S) = [i \in 1 .. Len(s) - e |-> s[e + i]]
<1>1. PICK F \in [0 .. Len(s) -> Seq(E)] :
          Steps(s, S, F, Len(s)) /\ Passing(s, S) = F[Len(s)]
  BY PassingSteps
<1> DEFINE Kept(n) == [i \in 1 .. (IF n <= e THEN 0 ELSE n - e) |-> s[e + i]]
           G == {n \in Nat : n <= Len(s) => F[n] = Kept(n)}
<1>0. Len(s) \in Nat /\ \A i \in 1 .. Len(s) : s[i] \in E
  OBVIOUS
<1>2. 0 \in G
  <2>1. F[0] = << >>
    BY <1>0, <1>1 DEF Step, Steps
  <2> QED
    BY <2>1
<1>3. ASSUME NEW n \in Nat, n \in G PROVE n + 1 \in G
  <2> SUFFICES ASSUME n + 1 <= Len(s) PROVE F[n + 1] = Kept(n + 1)
    OBVIOUS
  <2>1. F[n] = Kept(n) /\ n + 1 \in 1 .. Len(s) /\ (n + 1) - 1 = n
    BY <1>0, <1>3
  <2>2. F[n + 1] = IF s[n + 1] \in S THEN Append(F[n], s[n + 1]) ELSE F[n]
    <3>1. n + 1 \in 0 .. Len(s) /\ n + 1 # 0
      BY <1>0
    <3>2. F[n + 1] = Step(s, S, F, n + 1)
      BY <1>1, <3>1 DEF Steps
    <3> QED
      BY <2>1, <3>1, <3>2 DEF Step
  <2>3. CASE n + 1 <= e
    BY <2>1, <2>2, <2>3
  <2>4. CASE ~(n + 1 <= e)
    <3>1. F[n + 1] = Append(Kept(n), s[n + 1])
      BY <2>1, <2>2, <2>4
    <3>2. Append(Kept(n), s[n + 1]) = Kept(n + 1)
      BY <2>4
    <3> QED
      BY <3>1, <3>2
  <2> QED
    BY <2>3, <2>4
<1>4. Nat \subseteq G
  <2> HIDE DEF G
  <2> QED
    BY <1>2, <1>3, Inductive
<1>5. F[Len(s)] = Kept(Len(s))
  <2>1. Len(s) \in G /\ Len(s) <= Len(s)
    <3> HIDE DEF G
    <3> QED
      BY <1>0, <1>4
  <2> HIDE DEF Kept
  <2> QED
    BY <2>1
<1>6. Kept(Len(s)) = [i \in 1 .. Len(s) - e |-> s[e + i]]
  BY <1>0
<1> QED
  BY <1>1, <1>5, <1>6

Increasing(s) == \A i, j \in 1 .. Len(s) : i < j => s[i] < s[j]
Elements(s) == {s[i] : i \in 1 .. Len(s)}

(* In an increasing sequence of numbers what remains is increasing, and    *)
(* nothing that passes is lost.                                            *)
LEMMA PassingIncreasing ==
    ASSUME NEW s \in Seq(Nat), NEW S, Increasing(s)
    PROVE  /\ Passing(s, S) \in Seq(Nat)
           /\ Increasing(Passing(s, S))
           /\ Elements(Passing(s, S)) = Elements(s) \cap S
<1>1. PICK F \in [0 .. Len(s) -> Seq(Nat)] :
          Steps(s, S, F, Len(s)) /\ Passing(s, S) = F[Len(s)]
  BY PassingSteps
<1>0. Len(s) \in Nat /\ \A i \in 1 .. Len(s) : s[i] \in Nat
  OBVIOUS
<1> DEFINE Sound(n) ==
               /\ \A i, j \in 1 .. Len(F[n]) : i < j => F[n][i] < F[n][j]
               /\ \A i \in 1 .. Len(F[n]) :
                      /\ F[n][i] \in S
                      /\ \E k \in 1 .. n : s[k] = F[n][i]
               /\ \A k \in 1 .. n :
                      s[k] \in S => \E i \in 1 .. Len(F[n]) : F[n][i] = s[k]
           G == {n \in Nat : n <= Len(s) => Sound(n)}
<1>2. 0 \in G
  <2>1. F[0] = << >>
    BY <1>0, <1>1 DEF Step, Steps
  <2> QED
    BY <2>1
<1>3. ASSUME NEW n \in Nat, n \in G PROVE n + 1 \in G
  <2> SUFFICES ASSUME n + 1 <= Len(s) PROVE Sound(n + 1)
    OBVIOUS
  <2>0. Sound(n)
    BY <1>0, <1>3
  <2>1. PICK P \in Seq(Nat), Q \in Seq(Nat), x \in Nat :
            P = F[n] /\ Q = F[n + 1] /\ x = s[n + 1]
    <3>1. /\ n \in 0 .. Len(s) /\ n + 1 \in 0 .. Len(s)
          /\ n + 1 \in 1 .. Len(s)
      BY <1>0
    <3>2. F[n] \in Seq(Nat) /\ F[n + 1] \in Seq(Nat) /\ s[n + 1] \in Nat
      BY <1>0, <3>1
    <3> QED
      BY <3>2
  <2>2. Q = IF x \in S THEN Append(P, x) ELSE P
    <3>1. n + 1 \in 0 .. Len(s) /\ n + 1 # 0 /\ (n + 1) - 1 = n
      BY <1>0
    <3> QED
      BY <1>1, <2>1, <3>1 DEF Step, Steps
  <2>3. /\ \A i, j \in 1 .. Len(P) : i < j => P[i] < P[j]
        /\ \A i \in 1 .. Len(P) : P[i] \in S /\ \E k \in 1 .. n : s[k] = P[i]
        /\ \A k \in 1 .. n :
               s[k] \in S => \E i \in 1 .. Len(P) : P[i] = s[k]
    BY <2>0, <2>1
  <2>4. CASE x \notin S
    <3>1. Q = P
      BY <2>2, <2>4
    <3>2. \A i \in 1 .. Len(Q) : \E k \in 1 .. n + 1 : s[k] = Q[i]
      BY <2>3, <3>1
    <3>3. \A k \in 1 .. n + 1 :
             s[k] \in S => \E i \in 1 .. Len(Q) : Q[i] = s[k]
      <4>1. \A k \in 1 .. n + 1 : s[k] \in S => k \in 1 .. n
        BY <2>1, <2>4
      <4> QED
        BY <2>3, <3>1, <4>1
    <3> QED
      BY <2>1, <2>3, <3>1, <3>2, <3>3
  <2>5. CASE x \in S
    <3>2. Q = Append(P, x)
      BY <2>2, <2>5
    <3>3. PICK m \in Nat :
              /\ Len(P) = m /\ Len(Q) = m + 1
              /\ \A i \in 1 .. m : Q[i] = P[i]
              /\ Q[m + 1] = x
      BY <3>2, SMTT(30)
    <3>4. /\ \A i, j \in 1 .. m : i < j => P[i] < P[j]
          /\ \A i \in 1 .. m : P[i] \in S /\ \E k \in 1 .. n : s[k] = P[i]
          /\ \A k \in 1 .. n :
                 s[k] \in S => \E i \in 1 .. m : P[i] = s[k]
      BY <2>3, <3>3
    <3>5. \A i \in 1 .. m : P[i] < x
      <4> SUFFICES ASSUME NEW i \in 1 .. m PROVE P[i] < x
        OBVIOUS
      <4>1. PICK k \in 1 .. n : s[k] = P[i]
        BY <3>4
      <4>2. k \in 1 .. Len(s) /\ k < n + 1
        BY <1>0
      <4>3. s[k] < s[n + 1]
        BY <1>0, <4>2 DEF Increasing
      <4> QED
        BY <2>1, <4>1, <4>3
    <3>6. \A i, j \in 1 .. m + 1 : i < j => Q[i] < Q[j]
      <4> SUFFICES ASSUME NEW i \in 1 .. m + 1, NEW j \in 1 .. m + 1, i < j
                   PROVE  Q[i] < Q[j]
        OBVIOUS
      <4>1. i \in 1 .. m
        OBVIOUS
      <4>2. CASE j = m + 1
        BY <3>3, <3>5, <4>1, <4>2
      <4>3. CASE j \in 1 .. m
        BY <3>3, <3>4, <4>1, <4>3
      <4> QED
        BY <4>2, <4>3
    <3>7. \A i \in 1 .. m + 1 : Q[i] \in S /\ \E k \in 1 .. n + 1 : s[k] = Q[i]
      <4> SUFFICES ASSUME NEW i \in 1 .. m + 1
                   PROVE  Q[i] \in S /\ \E k \in 1 .. n + 1 : s[k] = Q[i]
        OBVIOUS
      <4>1. CASE i = m + 1
        BY <2>1, <2>5, <3>3, <4>1
      <4>2. CASE i \in 1 .. m
        <5>1. Q[i] = P[i] /\ P[i] \in S
          BY <3>3, <3>4, <4>2
        <5>2. PICK k \in 1 .. n : s[k] = P[i]
          BY <3>4, <4>2
        <5> QED
          BY <5>1, <5>2
      <4> QED
        BY <4>1, <4>2
    <3>8. \A k \in 1 .. n + 1 :
             s[k] \in S => \E i \in 1 .. m + 1 : Q[i] = s[k]
      <4> SUFFICES ASSUME NEW k \in 1 .. n + 1, s[k] \in S
                   PROVE  \E i \in 1 .. m + 1 : Q[i] = s[k]
        OBVIOUS
      <4>1. CASE k = n + 1
        BY <2>1, <3>3, <4>1
      <4>2. CASE k \in 1 .. n
        BY <3>3, <3>4, <4>2
      <4> QED
        BY <4>1, <4>2
    <3> QED
      BY <2>1, <3>3, <3>6, <3>7, <3>8
  <2> QED
    BY <2>4, <2>5
<1>4. Sound(Len(s))
  <2>1. Nat \subseteq G
    <3> HIDE DEF G
    <3> QED
      BY <1>2, <1>3, Inductive
  <2> QED
    BY <2>1
<1>5. PICK P \in Seq(Nat), n \in Nat :
          P = F[Len(s)] /\ n = Len(s) /\ Passing(s, S) = P
  BY <1>0, <1>1
<1>6. /\ \A i, j \in 1 .. Len(P) : i < j => P[i] < P[j]
      /\ \A i \in 1 .. Len(P) : P[i] \in S /\ \E k \in 1 .. n : s[k] = P[i]
      /\ \A k \in 1 .. n :
             s[k] \in S => \E i \in 1 .. Len(P) : P[i] = s[k]
  BY <1>4, <1>5
<1>7. Increasing(P)
  BY <1>6 DEF Increasing
<1>8. Elements(P) = Elements(s) \cap S
  <2>1. ASSUME NEW i \in 1 .. Len(P) PROVE P[i] \in Elements(s) \cap S
    BY <1>5, <1>6 DEF Elements
  <2>2. ASSUME NEW k \in 1 .. n, s[k] \in S PROVE s[k] \in Elements(P)
    BY <1>6, <2>2 DEF Elements
  <2> QED
    BY <1>5, <2>1, <2>2 DEF Elements
<1> QED
  BY <1>5, <1>7, <1>8
==============================================================================
