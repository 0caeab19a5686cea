---------------------------- MODULE CodingProofs ----------------------------
(***************************************************************************)
(* Theorems about Coding, for every input of every length.                 *)
(***************************************************************************)
EXTENDS Coding, FiniteSetTheorems, SequenceTheorems, WellFoundedInduction, TLAPS

-----------------------------------------------------------------------------
(* Numbers and sets.                                                       *)

\* A set of numbers that is not empty has a smallest one, which Min is.
LEMMA Smallest ==
  ASSUME NEW T \in SUBSET Nat, T # {}
  PROVE  Min(T) \in T /\ \A y \in T : Min(T) <= y
<1>1. \E x \in T : \A y \in T : ~(<<y, x>> \in OpToRel(<, Nat))
  BY NatLessThanWellFounded, WFMin
<1>2. PICK x \in T : \A y \in T : ~(<<y, x>> \in OpToRel(<, Nat))
  BY <1>1
<1>3. \A y \in T : ~(y < x)
  BY <1>2 DEF OpToRel
<1>4. \A y \in T : x <= y
  BY <1>3
<1>. QED BY <1>4 DEF Min

\* What holds of 0 and passes on from a number to the next holds of all up to
\* N: of the numbers it does not hold of there would be a smallest one.
LEMMA UpTo ==
  ASSUME NEW N \in Nat, NEW T, 0 \in T, \A n \in 0..N : n < N /\ n \in T => n + 1 \in T
  PROVE  0..N \subseteq T
<1>. DEFINE F == (0..N) \ T
<1>. SUFFICES ASSUME F # {} PROVE FALSE
  OBVIOUS
<1>1. Min(F) \in F /\ \A y \in F : Min(F) <= y
  <2>1. F \in SUBSET Nat
    OBVIOUS
  <2>. HIDE DEF F
  <2>. QED BY <2>1, Smallest
<1>. DEFINE x == Min(F)
<1>. HIDE DEF x
<1>2. x \in 0..N /\ x # 0 /\ x \notin T /\ \A y \in F : x <= y
  BY <1>1 DEF x
<1>3. x - 1 \in 0..N /\ x - 1 < N /\ (x - 1) + 1 = x /\ ~(x <= x - 1)
  BY <1>2
<1>4. x - 1 \in T
  BY <1>2, <1>3
<1>. QED BY <1>2, <1>3, <1>4

\* A loop over values in S: a step maps the number of a round and the value
\* before it to the value after it.
Steps(N, S) == [1..N -> [S -> S]]
Runs(N, S, base, step) ==
  \E s \in [0..N -> S] : s[0] = base /\ \A k \in 1..N : s[k] = step[k][s[k - 1]]

\* A loop of N rounds has a result.
LEMMA LoopRuns ==
  ASSUME NEW N \in Nat, NEW S, NEW base \in S, NEW step \in Steps(N, S)
  PROVE  Runs(N, S, base, step)
<1>. DEFINE Good(m, s) == s[0] = base /\ \A k \in 1..m : s[k] = step[k][s[k - 1]]
            T == {m \in 0..N : \E s \in [0..m -> S] : Good(m, s)}
<1>1. 0 \in T
  <2>. DEFINE s == [k \in 0..0 |-> base]
  <2>1. s \in [0..0 -> S] /\ Good(0, s)
    OBVIOUS
  <2>. HIDE DEF s
  <2>2. 0 \in 0..N
    OBVIOUS
  <2>. QED BY <2>1, <2>2
<1>2. ASSUME NEW m \in 0..N, m < N, m \in T
      PROVE  m + 1 \in T
  <2>1. PICK s \in [0..m -> S] : Good(m, s)
    BY <1>2
  <2>. DEFINE v == step[m + 1][s[m]]
              h == [k \in 0..(m + 1) |-> IF k = m + 1 THEN v ELSE s[k]]
  <2>2. v \in S
    <3>1. m + 1 \in 1..N /\ m \in 0..m
      BY <1>2
    <3>. QED BY <3>1 DEF Steps
  <2>. HIDE DEF v
  <2>3. h \in [0..(m + 1) -> S] /\ h[m + 1] = v /\ \A k \in 0..m : h[k] = s[k]
    BY <2>2
  <2>. HIDE DEF h
  <2>4. h[0] = base
    BY <2>1, <2>3
  <2>5. ASSUME NEW k \in 1..(m + 1) PROVE h[k] = step[k][h[k - 1]]
    <3>1. k - 1 \in 0..m /\ h[k - 1] = s[k - 1]
      BY <2>3
    <3>2. CASE k = m + 1
      BY <2>3, <3>1, <3>2 DEF v
    <3>3. CASE k # m + 1
      <4>1. k \in 1..m /\ k \in 0..m
        BY <3>3
      <4>. QED BY <2>1, <2>3, <3>1, <4>1
    <3>. QED BY <3>2, <3>3
  <2>6. m + 1 \in 0..N
    BY <1>2
  <2>. QED BY <2>3, <2>4, <2>5, <2>6
<1>3. N \in T
  <2>1. \A m \in 0..N : m < N /\ m \in T => m + 1 \in T
    BY <1>2
  <2>. HIDE DEF T
  <2>2. 0..N \subseteq T
    BY <1>1, <2>1, UpTo
  <2>. QED BY <2>2
<1>. QED BY <1>3 DEF Runs

\* What a sequence holds with one more item.
LEMMA ToSetAppend ==
  ASSUME NEW T, NEW e \in Seq(T), NEW x \in T
  PROVE  /\ Append(e, x) \in Seq(T) /\ Len(Append(e, x)) = Len(e) + 1
         /\ \A k \in 1..Len(e) : Append(e, x)[k] = e[k]
         /\ Append(e, x)[Len(e) + 1] = x
         /\ ToSet(Append(e, x)) = ToSet(e) \cup {x}
<1>1. /\ Append(e, x) \in Seq(T) /\ Len(Append(e, x)) = Len(e) + 1
      /\ \A k \in 1..Len(e) : Append(e, x)[k] = e[k]
      /\ Append(e, x)[Len(e) + 1] = x
  OBVIOUS
<1>2. DOMAIN Append(e, x) = 1..(Len(e) + 1) /\ DOMAIN e = 1..Len(e) /\ Len(e) \in Nat
  OBVIOUS
<1>3. ASSUME NEW y PROVE y \in ToSet(Append(e, x)) <=> y \in ToSet(e) \cup {x}
  <2>1. y \in ToSet(Append(e, x)) <=> \E k \in 1..(Len(e) + 1) : Append(e, x)[k] = y
    BY <1>2, Zenon DEF ToSet
  <2>2. y \in ToSet(e) <=> \E k \in 1..Len(e) : e[k] = y
    BY <1>2, Zenon DEF ToSet
  <2>3. \A k \in 1..(Len(e) + 1) : k \in 1..Len(e) \/ k = Len(e) + 1
    BY <1>2
  <2>4. 1..Len(e) \subseteq 1..(Len(e) + 1) /\ Len(e) + 1 \in 1..(Len(e) + 1)
    BY <1>2
  <2>. QED BY <1>1, <2>1, <2>2, <2>3, <2>4
<1>. QED BY <1>1, <1>3

\* What a sequence holds is at most as many values as it has places.
LEMMA ToSetBound ==
  ASSUME NEW S, NEW e \in Seq(S)
  PROVE  IsFiniteSet(ToSet(e)) /\ Cardinality(ToSet(e)) \in Nat /\ Cardinality(ToSet(e)) <= Len(e)
<1>. DEFINE n == Len(e)
<1>1. n \in Nat /\ ToSet(e) = {e[i] : i \in 1..n} /\ e \in [1..n -> S] /\ 0 \in Int /\ 1 \in Int
  BY DEF ToSet
<1>2. e \in [1..n -> ToSet(e)]
  BY <1>1
<1>3. e \in Surjection(1..n, ToSet(e))
  BY <1>1, <1>2 DEF Surjection
<1>. HIDE DEF n
<1>4. IsFiniteSet(1..n) /\ Cardinality(1..n) = n
  BY <1>1, FS_Interval
<1>5. IsFiniteSet(ToSet(e)) /\ Cardinality(ToSet(e)) <= Cardinality(1..n)
  BY <1>3, <1>4, FS_Surjection
<1>. QED BY <1>4, <1>5, FS_CardinalityType DEF n

\* Which subjects there are.
SubjectInv == subject \in DOMAIN Inputs

-----------------------------------------------------------------------------
(* Lost numbers: the loops of RtcpNack.                                    *)

\* The pairs, and what the loop of serialize works on.
Pair == [fsn : Seqs, blp : SUBSET Nat]
NackState == [left : SUBSET Seqs, pairs : Seq(Pair)]

\* One turn.
LEMMA RoundIs ==
  ASSUME NEW r \in NackState
  PROVE  /\ NackRound(r) \in NackState
         /\ r.left = {} => NackRound(r) = r
         /\ r.left # {} =>
              LET fsn == Min(r.left)
              IN  /\ fsn \in r.left /\ \A s \in r.left : fsn <= s
                  /\ NackRound(r).left = {s \in r.left : s - fsn > BlpBits}
                  /\ NackRound(r).pairs = Append(r.pairs, [fsn |-> fsn, blp |-> Blp(r.left, fsn)])
<1>. USE SeqSpaceAssumption, BlpAssumption DEF Seqs
<1>. DEFINE fsn == Min(r.left)
<1>1. CASE r.left = {}
  BY <1>1 DEF NackRound
<1>2. CASE r.left # {}
  <2>1. fsn \in r.left /\ \A s \in r.left : fsn <= s
    <3>1. r.left \in SUBSET Nat
      BY DEF NackState
    <3>. QED BY <1>2, <3>1, Smallest
  <2>. HIDE DEF fsn
  <2>2. Blp(r.left, fsn) \in SUBSET Nat
    BY <2>1 DEF Blp, NackState
  <2>3. [fsn |-> fsn, blp |-> Blp(r.left, fsn)] \in Pair
    BY <2>1, <2>2 DEF Pair, NackState
  <2>4. NackRound(r) = [left |-> {s \in r.left : s - fsn > BlpBits},
                        pairs |-> Append(r.pairs, [fsn |-> fsn, blp |-> Blp(r.left, fsn)])]
    BY <1>2 DEF NackRound, fsn
  <2>5. Append(r.pairs, [fsn |-> fsn, blp |-> Blp(r.left, fsn)]) \in Seq(Pair)
    BY <2>3 DEF NackState
  <2>. QED BY <1>2, <2>1, <2>4, <2>5 DEF NackState, fsn
<1>. QED BY <1>1, <1>2

\* The loop of serialize.
LEMMA NackRounds ==
  ASSUME NEW lost \in Seq(Seqs)
  PROVE  \E r \in [0..Len(lost) -> NackState] :
           /\ r[0] = [left |-> ToSet(lost), pairs |-> <<>>] /\ \A k \in 1..Len(lost) : r[k] = NackRound(r[k - 1])
           /\ NackPairs(lost) = r[Len(lost)].pairs
<1>. DEFINE n == Len(lost)
            S == NackState
            base == [left |-> ToSet(lost), pairs |-> <<>>]
            Body(v, k) == NackRound(v)
            Loop(r) == r = [k \in 0..n |-> IF k = 0 THEN base ELSE Body(r[k - 1], k)]
            step == [k \in 1..n |-> [v \in S |-> Body(v, k)]]
<1>1. n \in Nat
  OBVIOUS
<1>2. base \in S /\ \A k \in 1..n, v \in S : Body(v, k) \in S
  <2>1. ToSet(lost) \in SUBSET Seqs /\ <<>> \in Seq(Pair)
    BY DEF ToSet
  <2>2. \A v \in NackState : NackRound(v) \in NackState
    BY RoundIs
  <2>. QED BY <2>1, <2>2 DEF NackState
<1>3. NackPairs(lost) = (CHOOSE r : Loop(r))[n].pairs
  BY DEF NackPairs
<1>. HIDE DEF n, S, base, Body
<1>4. step \in Steps(n, S)
  BY <1>2 DEF Steps
<1>5. Runs(n, S, base, step)
  <2>. HIDE DEF step
  <2>. QED BY <1>1, <1>2, <1>4, LoopRuns
<1>6. PICK s \in [0..n -> S] : s[0] = base /\ \A k \in 1..n : s[k] = step[k][s[k - 1]]
  BY <1>5 DEF Runs
<1>7. Loop(s)
  <2>1. \A k \in 1..n : s[k] = Body(s[k - 1], k)
    <3>. SUFFICES ASSUME NEW k \in 1..n PROVE s[k] = Body(s[k - 1], k)
      OBVIOUS
    <3>1. s[k - 1] \in S
      BY <1>1, <1>6
    <3>. QED BY <1>6, <3>1
  <2>2. \A k \in 0..n : s[k] = IF k = 0 THEN base ELSE Body(s[k - 1], k)
    <3>1. \A k \in 0..n : k = 0 \/ k \in 1..n
      BY <1>1
    <3>. SUFFICES ASSUME NEW k \in 0..n PROVE s[k] = IF k = 0 THEN base ELSE Body(s[k - 1], k)
      OBVIOUS
    <3>2. CASE k = 0
      BY <1>6, <3>2
    <3>3. CASE k \in 1..n
      <4>1. s[k] = Body(s[k - 1], k) /\ k # 0
        BY <1>1, <2>1, <3>3
      <4>. QED BY <4>1
    <3>. QED BY <3>1, <3>2, <3>3
  <2>. QED BY <2>2
<1>. DEFINE r == CHOOSE t : Loop(t)
<1>8. Loop(r)
  BY <1>7
<1>. HIDE DEF r
<1>9. \A k \in 0..n : r[k] = IF k = 0 THEN base ELSE Body(r[k - 1], k)
  BY <1>8, Zenon
<1>10. r[0] = base /\ \A k \in 1..n : r[k] = Body(r[k - 1], k)
  BY <1>1, <1>9
<1>11. \A k \in 0..n : r[k] \in S
  <2>. DEFINE T == {k \in 0..n : r[k] \in S}
  <2>1. 0 \in T
    BY <1>1, <1>2, <1>10
  <2>2. \A k \in 0..n : k < n /\ k \in T => k + 1 \in T
    <3>. SUFFICES ASSUME NEW k \in 0..n, k < n, k \in T PROVE k + 1 \in T
      OBVIOUS
    <3>1. k + 1 \in 1..n /\ (k + 1) - 1 = k /\ k + 1 \in 0..n
      BY <1>1
    <3>2. r[k + 1] = Body(r[k], k + 1)
      BY <1>10, <3>1
    <3>. QED BY <1>2, <3>1, <3>2
  <2>. HIDE DEF T
  <2>3. 0..n \subseteq T
    BY <1>1, <2>1, <2>2, UpTo
  <2>. QED BY <2>3 DEF T
<1>12. r \in [0..n -> S]
  <2>1. r = [k \in 0..n |-> r[k]]
    BY <1>8, Zenon
  <2>. QED BY <1>11, <2>1
<1>. QED BY <1>3, <1>10, <1>12 DEF n, S, base, Body, r

\* The loop over the bits of a pair.
LEMMA BitRounds ==
  ASSUME NEW pair \in Pair
  PROVE  \E r \in [0..BlpBits -> Seq(Nat)] :
           /\ r[0] = <<pair.fsn>> /\ \A k \in 1..BlpBits : r[k] = IF k - 1 \in pair.blp THEN Append(r[k - 1], (pair.fsn + k) % SeqSpace) ELSE r[k - 1]
           /\ Unpacked(pair) = r[BlpBits]
<1>. DEFINE n == BlpBits
            S == Seq(Nat)
            base == <<pair.fsn>>
            Body(v, k) == IF k - 1 \in pair.blp THEN Append(v, (pair.fsn + k) % SeqSpace) ELSE v
            Loop(r) == r = [k \in 0..n |-> IF k = 0 THEN base ELSE Body(r[k - 1], k)]
            step == [k \in 1..n |-> [v \in S |-> Body(v, k)]]
<1>1. n \in Nat
  BY BlpAssumption
<1>2. base \in S /\ \A k \in 1..n, v \in S : Body(v, k) \in S
  <2>1. pair.fsn \in Nat /\ pair.blp \in SUBSET Nat
    BY SeqSpaceAssumption DEF Pair, Seqs
  <2>2. base \in S
    BY <2>1
  <2>3. \A k \in 1..n : (pair.fsn + k) % SeqSpace \in Nat
    BY <1>1, <2>1, SeqSpaceAssumption
  <2>. QED BY <2>2, <2>3
<1>3. Unpacked(pair) = (CHOOSE r : Loop(r))[n]
  BY DEF Unpacked
<1>. HIDE DEF n, S, base, Body
<1>4. step \in Steps(n, S)
  BY <1>2 DEF Steps
<1>5. Runs(n, S, base, step)
  <2>. HIDE DEF step
  <2>. QED BY <1>1, <1>2, <1>4, LoopRuns
<1>6. PICK s \in [0..n -> S] : s[0] = base /\ \A k \in 1..n : s[k] = step[k][s[k - 1]]
  BY <1>5 DEF Runs
<1>7. Loop(s)
  <2>1. \A k \in 1..n : s[k] = Body(s[k - 1], k)
    <3>. SUFFICES ASSUME NEW k \in 1..n PROVE s[k] = Body(s[k - 1], k)
      OBVIOUS
    <3>1. s[k - 1] \in S
      BY <1>1, <1>6
    <3>. QED BY <1>6, <3>1
  <2>2. \A k \in 0..n : s[k] = IF k = 0 THEN base ELSE Body(s[k - 1], k)
    <3>1. \A k \in 0..n : k = 0 \/ k \in 1..n
      BY <1>1
    <3>. SUFFICES ASSUME NEW k \in 0..n PROVE s[k] = IF k = 0 THEN base ELSE Body(s[k - 1], k)
      OBVIOUS
    <3>2. CASE k = 0
      BY <1>6, <3>2
    <3>3. CASE k \in 1..n
      <4>1. s[k] = Body(s[k - 1], k) /\ k # 0
        BY <1>1, <2>1, <3>3
      <4>. QED BY <4>1
    <3>. QED BY <3>1, <3>2, <3>3
  <2>. QED BY <2>2
<1>. DEFINE r == CHOOSE t : Loop(t)
<1>8. Loop(r)
  BY <1>7
<1>. HIDE DEF r
<1>9. \A k \in 0..n : r[k] = IF k = 0 THEN base ELSE Body(r[k - 1], k)
  BY <1>8, Zenon
<1>10. r[0] = base /\ \A k \in 1..n : r[k] = Body(r[k - 1], k)
  BY <1>1, <1>9
<1>11. \A k \in 0..n : r[k] \in S
  <2>. DEFINE T == {k \in 0..n : r[k] \in S}
  <2>1. 0 \in T
    BY <1>1, <1>2, <1>10
  <2>2. \A k \in 0..n : k < n /\ k \in T => k + 1 \in T
    <3>. SUFFICES ASSUME NEW k \in 0..n, k < n, k \in T PROVE k + 1 \in T
      OBVIOUS
    <3>1. k + 1 \in 1..n /\ (k + 1) - 1 = k /\ k + 1 \in 0..n
      BY <1>1
    <3>2. r[k + 1] = Body(r[k], k + 1)
      BY <1>10, <3>1
    <3>. QED BY <1>2, <3>1, <3>2
  <2>. HIDE DEF T
  <2>3. 0..n \subseteq T
    BY <1>1, <2>1, <2>2, UpTo
  <2>. QED BY <2>3 DEF T
<1>12. r \in [0..n -> S]
  <2>1. r = [k \in 0..n |-> r[k]]
    BY <1>8, Zenon
  <2>. QED BY <1>11, <2>1
<1>. QED BY <1>3, <1>10, <1>12 DEF n, S, base, Body, r

\* The loop over the pairs of a message.
LEMMA PairRounds ==
  ASSUME NEW words, NEW m \in Nat, \A k \in 3..m : Unpacked(words[k + 1]) \in Seq(Nat)
  PROVE  \E r \in [0..m -> Seq(Nat)] :
           /\ r[0] = <<>> /\ \A k \in 1..m : r[k] = IF k < 3 THEN <<>> ELSE r[k - 1] \o Unpacked(words[k + 1])
           /\ UnpackedUpTo(words, m) = r[m]
<1>. DEFINE n == m
            S == Seq(Nat)
            base == <<>>
            Body(v, k) == IF k < 3 THEN <<>> ELSE v \o Unpacked(words[k + 1])
            Loop(r) == r = [k \in 0..n |-> IF k < 3 THEN <<>> ELSE r[k - 1] \o Unpacked(words[k + 1])]
            step == [k \in 1..n |-> [v \in S |-> Body(v, k)]]
<1>1. n \in Nat
  OBVIOUS
<1>2. base \in S /\ \A k \in 1..n, v \in S : Body(v, k) \in S
  <2>1. <<>> \in Seq(Nat) /\ \A v, w \in Seq(Nat) : v \o w \in Seq(Nat)
    OBVIOUS
  <2>2. \A k \in 1..n : k < 3 \/ k \in 3..m
    BY <1>1
  <2>. QED BY <2>1, <2>2
<1>3. UnpackedUpTo(words, m) = (CHOOSE r : Loop(r))[n]
  BY DEF UnpackedUpTo
<1>. HIDE DEF n, S, base, Body
<1>4. step \in Steps(n, S)
  BY <1>2 DEF Steps
<1>5. Runs(n, S, base, step)
  <2>. HIDE DEF step
  <2>. QED BY <1>1, <1>2, <1>4, LoopRuns
<1>6. PICK s \in [0..n -> S] : s[0] = base /\ \A k \in 1..n : s[k] = step[k][s[k - 1]]
  BY <1>5 DEF Runs
<1>7. Loop(s)
  <2>1. \A k \in 1..n : s[k] = Body(s[k - 1], k)
    <3>. SUFFICES ASSUME NEW k \in 1..n PROVE s[k] = Body(s[k - 1], k)
      OBVIOUS
    <3>1. s[k - 1] \in S
      BY <1>1, <1>6
    <3>. QED BY <1>6, <3>1
  <2>2. \A k \in 0..n : s[k] = IF k < 3 THEN <<>> ELSE s[k - 1] \o Unpacked(words[k + 1])
    <3>1. \A k \in 0..n : k = 0 \/ k \in 1..n
      BY <1>1
    <3>. SUFFICES ASSUME NEW k \in 0..n PROVE s[k] = IF k < 3 THEN <<>> ELSE s[k - 1] \o Unpacked(words[k + 1])
      OBVIOUS
    <3>2. CASE k = 0
      BY <1>6, <3>2 DEF Body, base
    <3>3. CASE k \in 1..n
      <4>1. s[k] = Body(s[k - 1], k) /\ k # 0
        BY <1>1, <2>1, <3>3
      <4>. QED BY <4>1 DEF Body, base
    <3>. QED BY <3>1, <3>2, <3>3
  <2>. QED BY <2>2
<1>. DEFINE r == CHOOSE t : Loop(t)
<1>8. Loop(r)
  BY <1>7
<1>. HIDE DEF r
<1>9. \A k \in 0..n : r[k] = IF k < 3 THEN <<>> ELSE r[k - 1] \o Unpacked(words[k + 1])
  BY <1>8, Zenon
<1>10. r[0] = base /\ \A k \in 1..n : r[k] = Body(r[k - 1], k)
  BY <1>1, <1>9 DEF Body, base
<1>11. \A k \in 0..n : r[k] \in S
  <2>. DEFINE T == {k \in 0..n : r[k] \in S}
  <2>1. 0 \in T
    BY <1>1, <1>2, <1>10
  <2>2. \A k \in 0..n : k < n /\ k \in T => k + 1 \in T
    <3>. SUFFICES ASSUME NEW k \in 0..n, k < n, k \in T PROVE k + 1 \in T
      OBVIOUS
    <3>1. k + 1 \in 1..n /\ (k + 1) - 1 = k /\ k + 1 \in 0..n
      BY <1>1
    <3>2. r[k + 1] = Body(r[k], k + 1)
      BY <1>10, <3>1
    <3>. QED BY <1>2, <3>1, <3>2
  <2>. HIDE DEF T
  <2>3. 0..n \subseteq T
    BY <1>1, <2>1, <2>2, UpTo
  <2>. QED BY <2>3 DEF T
<1>12. r \in [0..n -> S]
  <2>1. r = [k \in 0..n |-> r[k]]
    BY <1>8, Zenon
  <2>. QED BY <1>11, <2>1
<1>. QED BY <1>3, <1>10, <1>12 DEF n, S, base, Body, r

-----------------------------------------------------------------------------
(* Lost numbers: the pairs of a message.                                   *)

\* The numbers of X that the pairs name.
Reached(X, pairs) == {s \in X : \E i \in DOMAIN pairs : s - pairs[i].fsn \in 0..BlpBits}

\* No pair begins where another one reaches.
Apart(pairs) ==
  \A i, j \in DOMAIN pairs : i < j => pairs[j].fsn - pairs[i].fsn > BlpBits

\* Each pair begins with a number of X, and its mask holds those behind it.
PairsRight(X, pairs) ==
  \A i \in DOMAIN pairs : pairs[i].fsn \in X /\ pairs[i].blp = Blp(X, pairs[i].fsn)

RoundInv(X, r) ==
  /\ r.left = X \ Reached(X, r.pairs)
  /\ Apart(r.pairs) /\ PairsRight(X, r.pairs)
  /\ \A i \in DOMAIN r.pairs, s \in r.left : s - r.pairs[i].fsn > BlpBits

\* One turn of the loop.
LEMMA RoundKeeps ==
  ASSUME NEW X \in SUBSET Seqs, NEW r \in NackState, RoundInv(X, r)
  PROVE  RoundInv(X, NackRound(r))
<1>. USE SeqSpaceAssumption, BlpAssumption
<1>1. CASE r.left = {}
  BY <1>1, RoundIs
<1>2. CASE r.left # {}
  <2>. DEFINE fsn == Min(r.left)
              p == [fsn |-> fsn, blp |-> Blp(r.left, fsn)]
              old == r.pairs
              m == Len(old)
              q == Append(old, p)
              left == r.left
              rest == {s \in left : s - fsn > BlpBits}
  <2>1. fsn \in left /\ (\A s \in left : fsn <= s)
        /\ NackRound(r).left = rest /\ NackRound(r).pairs = q
    BY <1>2, RoundIs
  <2>. HIDE DEF fsn
  <2>2. old \in Seq(Pair) /\ m \in Nat /\ DOMAIN old = 1..m /\ X \subseteq Nat /\ left \subseteq X
    BY DEF NackState, RoundInv, Seqs
  <2>3. \A i \in 1..m : old[i].fsn \in Nat
    <3>1. \A i \in 1..m : old[i] \in Pair
      BY <2>2
    <3>. QED BY <3>1 DEF Pair, Seqs
  <2>4. DOMAIN q = 1..(m + 1) /\ q[m + 1] = p /\ \A i \in 1..m : q[i] = old[i]
    BY <2>2
  <2>5. /\ left = X \ Reached(X, old) /\ \A i \in 1..m, s \in left : s - old[i].fsn > BlpBits
        /\ \A i, j \in 1..m : i < j => old[j].fsn - old[i].fsn > BlpBits
        /\ \A i \in 1..m : old[i].fsn \in X /\ old[i].blp = Blp(X, old[i].fsn)
    BY <2>2 DEF RoundInv, Apart, PairsRight
  <2>6. \A s \in X \ left : \E i \in 1..m : s - old[i].fsn \in 0..BlpBits
    BY <2>2, <2>5 DEF Reached
  <2>. HIDE DEF old, m, q, left
  <2>7. \A s \in X : s - fsn \in 0..BlpBits => s \in left
    <3>. SUFFICES ASSUME NEW s \in X, s - fsn \in 0..BlpBits, s \notin left PROVE FALSE
      OBVIOUS
    <3>1. PICK i \in 1..m : s - old[i].fsn \in 0..BlpBits
      BY <2>6
    <3>2. fsn - old[i].fsn > BlpBits
      BY <2>1, <2>5
    <3>3. s \in Nat /\ fsn \in Nat /\ old[i].fsn \in Nat
      BY <2>1, <2>2, <2>3
    <3>. QED BY <3>1, <3>2, <3>3
  <2>8. Blp(left, fsn) = Blp(X, fsn)
    <3>1. \A t \in X : t - fsn \in 1..BlpBits => t \in left
      BY <2>1, <2>2, <2>7
    <3>2. {t \in left : t - fsn \in 1..BlpBits} = {t \in X : t - fsn \in 1..BlpBits}
      BY <2>2, <3>1
    <3>. QED BY <3>2 DEF Blp
  <2>9. p.fsn = fsn /\ p.blp = Blp(X, fsn) /\ fsn \in X /\ fsn \in Nat
    BY <2>1, <2>2, <2>8 DEF left
  <2>. HIDE DEF p
  <2>10. rest = X \ Reached(X, q)
    <3>1. ASSUME NEW s \in X PROVE s \in rest <=> s \notin Reached(X, q)
      <4>1. s \in Reached(X, q) <=> (s - fsn \in 0..BlpBits \/ s \in Reached(X, old))
        <5>1. s \in Reached(X, old) <=> \E i \in 1..m : s - old[i].fsn \in 0..BlpBits
          BY <2>2 DEF Reached, m, old
        <5>2. s \in Reached(X, q) <=> \E i \in 1..(m + 1) : s - q[i].fsn \in 0..BlpBits
          BY <2>4 DEF Reached
        <5>3. \A i \in 1..(m + 1) : i = m + 1 \/ i \in 1..m
          BY <2>2
        <5>4. m + 1 \in 1..(m + 1) /\ \A i \in 1..m : i \in 1..(m + 1)
          BY <2>2
        <5>. QED BY <2>4, <2>9, <5>1, <5>2, <5>3, <5>4
      <4>2. s \in left <=> s \notin Reached(X, old)
        BY <2>5
      <4>3. s \in left => (s - fsn > BlpBits <=> s - fsn \notin 0..BlpBits)
        BY <2>1, <2>2, <2>9
      <4>. QED BY <2>7, <4>1, <4>2, <4>3
    <3>. QED BY <2>2, <3>1
  <2>11. Apart(q)
    <3>. SUFFICES ASSUME NEW i \in 1..(m + 1), NEW j \in 1..(m + 1), i < j
                  PROVE  q[j].fsn - q[i].fsn > BlpBits
      BY <2>4 DEF Apart
    <3>1. i \in 1..m
      BY <2>2
    <3>2. CASE j = m + 1
      BY <2>1, <2>4, <2>5, <2>9, <3>1, <3>2
    <3>3. CASE j # m + 1
      <4>1. j \in 1..m
        BY <2>2, <3>3
      <4>. QED BY <2>4, <2>5, <3>1, <4>1
    <3>. QED BY <3>2, <3>3
  <2>12. PairsRight(X, q)
    <3>. SUFFICES ASSUME NEW i \in 1..(m + 1)
                  PROVE  q[i].fsn \in X /\ q[i].blp = Blp(X, q[i].fsn)
      BY <2>4 DEF PairsRight
    <3>1. i = m + 1 \/ i \in 1..m
      BY <2>2
    <3>. QED BY <2>4, <2>5, <2>9, <3>1
  <2>13. \A i \in 1..(m + 1), s \in rest : s - q[i].fsn > BlpBits
    <3>. SUFFICES ASSUME NEW i \in 1..(m + 1), NEW s \in rest PROVE s - q[i].fsn > BlpBits
      OBVIOUS
    <3>1. i = m + 1 \/ i \in 1..m
      BY <2>2
    <3>. QED BY <2>4, <2>5, <2>9, <3>1
  <2>. QED BY <2>1, <2>4, <2>10, <2>11, <2>12, <2>13 DEF RoundInv
<1>. QED BY <1>1, <1>2

\* The pairs of a message name the lost numbers and no others.
LEMMA PairsAreRight ==
  ASSUME NEW lost \in Seq(Seqs)
  PROVE  LET X == ToSet(lost)
             pairs == NackPairs(lost)
         IN  /\ X \in SUBSET Seqs /\ pairs \in Seq(Pair)
             /\ Apart(pairs) /\ PairsRight(X, pairs) /\ Reached(X, pairs) = X
<1>. DEFINE X == ToSet(lost)
            n == Len(lost)
            pairs == NackPairs(lost)
<1>1. PICK r \in [0..n -> NackState] :
        /\ r[0] = [left |-> X, pairs |-> <<>>] /\ \A k \in 1..n : r[k] = NackRound(r[k - 1])
        /\ pairs = r[n].pairs
  BY NackRounds
<1>2. n \in Nat /\ X \in SUBSET Seqs
  BY DEF ToSet
<1>3. IsFiniteSet(X) /\ Cardinality(X) <= n /\ Cardinality(X) \in Nat
  BY ToSetBound
<1>. HIDE DEF X, n, pairs
<1>. DEFINE T == {k \in 0..n : RoundInv(X, r[k]) /\ Cardinality(r[k].left) <= n - k}
<1>4. 0 \in T
  <2>1. Reached(X, <<>>) = {} /\ Apart(<<>>) /\ PairsRight(X, <<>>)
    BY DEF Reached, Apart, PairsRight
  <2>2. RoundInv(X, r[0])
    BY <1>1, <2>1 DEF RoundInv
  <2>. QED BY <1>1, <1>2, <1>3, <2>2
<1>5. ASSUME NEW k \in 0..n, k < n, k \in T PROVE k + 1 \in T
  <2>1. k + 1 \in 1..n /\ k + 1 \in 0..n /\ (k + 1) - 1 = k
    BY <1>2, <1>5
  <2>2. r[k + 1] = NackRound(r[k]) /\ r[k] \in NackState
    BY <1>1, <2>1
  <2>3. RoundInv(X, r[k + 1])
    BY <1>2, <1>5, <2>2, RoundKeeps
  <2>. DEFINE a == r[k].left
              b == r[k + 1].left
  <2>4. IsFiniteSet(a) /\ Cardinality(a) \in Nat
    <3>1. a \in SUBSET X
      BY <1>5 DEF RoundInv
    <3>. HIDE DEF a
    <3>2. IsFiniteSet(a)
      BY <1>3, <3>1, FS_Subset
    <3>. QED BY <3>2, FS_CardinalityType
  <2>5. Cardinality(b) <= n - (k + 1)
    <3>1. CASE a = {}
      <4>1. b = {}
        BY <2>2, <3>1, RoundIs
      <4>2. 0 <= n - (k + 1)
        BY <1>2, <1>5
      <4>. QED BY <4>1, <4>2, FS_EmptySet
    <3>2. CASE a # {}
      <4>1. Min(a) \in a /\ b = {s \in a : s - Min(a) > BlpBits}
        BY <2>2, <3>2, RoundIs
      <4>2. Min(a) \notin b
        <5>1. Min(a) \in Nat
          BY <2>2, <4>1, SeqSpaceAssumption DEF NackState, Seqs
        <5>. QED BY <4>1, <5>1, BlpAssumption
      <4>. HIDE DEF a, b
      <4>3. b \in SUBSET (a \ {Min(a)})
        BY <4>1, <4>2
      <4>4. IsFiniteSet(a \ {Min(a)}) /\ Cardinality(a \ {Min(a)}) = Cardinality(a) - 1
        BY <2>4, <4>1, FS_RemoveElement
      <4>5. Cardinality(b) <= Cardinality(a) - 1 /\ IsFiniteSet(b)
        BY <4>3, <4>4, FS_Subset
      <4>6. Cardinality(b) \in Nat /\ Cardinality(a) <= n - k
        BY <1>5, <4>5, FS_CardinalityType DEF a
      <4>. QED BY <1>2, <2>4, <4>5, <4>6
    <3>. QED BY <3>1, <3>2
  <2>. QED BY <2>1, <2>3, <2>5
<1>6. n \in T
  <2>1. \A k \in 0..n : k < n /\ k \in T => k + 1 \in T
    BY <1>5
  <2>. HIDE DEF T
  <2>2. 0..n \subseteq T
    BY <1>2, <1>4, <2>1, UpTo
  <2>. QED BY <1>2, <2>2
<1>7. RoundInv(X, r[n]) /\ r[n].left = {} /\ r[n] \in NackState
  <2>. DEFINE a == r[n].left
  <2>1. a \in SUBSET X /\ Cardinality(a) <= n - n /\ RoundInv(X, r[n])
    BY <1>6 DEF RoundInv
  <2>2. r[n] \in NackState
    BY <1>1, <1>2
  <2>. HIDE DEF a
  <2>3. IsFiniteSet(a)
    BY <1>3, <2>1, FS_Subset
  <2>4. Cardinality(a) \in Nat
    BY <2>3, FS_CardinalityType
  <2>5. Cardinality(a) = 0
    BY <1>2, <2>1, <2>4
  <2>. QED BY <2>1, <2>2, <2>3, <2>5, FS_EmptySet DEF a
<1>8. Reached(X, pairs) = X
  <2>1. X \ Reached(X, pairs) = {}
    BY <1>1, <1>7 DEF RoundInv
  <2>. QED BY <2>1 DEF Reached
<1>. QED BY <1>1, <1>2, <1>7, <1>8 DEF RoundInv, NackState, X, pairs

-----------------------------------------------------------------------------
(* Lost numbers: what is read of the pairs.                                *)

\* A larger number at the end.
LEMMA AppendAscends ==
  ASSUME NEW q \in Seq(Nat), NEW x \in Nat, Ascending(q), \A y \in ToSet(q) : y < x
  PROVE  Ascending(Append(q, x)) /\ ToSet(Append(q, x)) = ToSet(q) \cup {x}
<1>. DEFINE f == Append(q, x)
            n == Len(q)
<1>1. n \in Nat /\ DOMAIN q = 1..n /\ DOMAIN f = 1..(n + 1) /\ f[n + 1] = x
      /\ \A i \in 1..n : f[i] = q[i] /\ q[i] \in Nat /\ q[i] \in ToSet(q)
  BY DEF ToSet
<1>2. ToSet(f) = ToSet(q) \cup {x}
  BY ToSetAppend
<1>. HIDE DEF f, n
<1>3. ASSUME NEW i \in 1..(n + 1), NEW j \in 1..(n + 1), i < j PROVE f[i] < f[j]
  <2>1. i \in 1..n
    BY <1>1, <1>3
  <2>2. CASE j = n + 1
    BY <1>1, <2>1, <2>2
  <2>3. CASE j # n + 1
    <3>1. j \in 1..n
      BY <1>1, <2>3
    <3>2. q[i] < q[j]
      BY <1>1, <1>3, <2>1, <3>1 DEF Ascending
    <3>. QED BY <1>1, <2>1, <3>1, <3>2
  <2>. QED BY <2>2, <2>3
<1>. QED BY <1>1, <1>2, <1>3 DEF Ascending, f

\* Larger numbers at the end.
LEMMA ConcatAscends ==
  ASSUME NEW a \in Seq(Nat), NEW b \in Seq(Nat), Ascending(a), Ascending(b),
         \A x \in ToSet(a), y \in ToSet(b) : x < y
  PROVE  Ascending(a \o b) /\ ToSet(a \o b) = ToSet(a) \cup ToSet(b)
<1>. DEFINE q == a \o b
            m == Len(a)
            n == Len(b)
<1>1. m \in Nat /\ n \in Nat /\ DOMAIN a = 1..m /\ DOMAIN b = 1..n /\ DOMAIN q = 1..(m + n)
  OBVIOUS
<1>2. /\ \A i \in 1..m : q[i] = a[i] /\ a[i] \in ToSet(a)
      /\ \A i \in 1..n : q[m + i] = b[i] /\ b[i] \in ToSet(b)
  BY DEF ToSet
<1>3. ToSet(a) = {a[i] : i \in 1..m} /\ ToSet(b) = {b[i] : i \in 1..n} /\ ToSet(q) = {q[i] : i \in 1..(m + n)}
  BY <1>1 DEF ToSet
<1>4. /\ \A i, j \in 1..m : i < j => a[i] < a[j]
      /\ \A i, j \in 1..n : i < j => b[i] < b[j]
  BY <1>1 DEF Ascending
<1>. HIDE DEF q, m, n
<1>5. \A i \in 1..(m + n) : i \in 1..m \/ \E k \in 1..n : i = m + k
  <2>. SUFFICES ASSUME NEW i \in 1..(m + n), i \notin 1..m PROVE \E k \in 1..n : i = m + k
    OBVIOUS
  <2>1. i - m \in 1..n /\ i = m + (i - m)
    BY <1>1
  <2>. QED BY <2>1
<1>6. (\A i \in 1..m : i \in 1..(m + n)) /\ \A k \in 1..n : m + k \in 1..(m + n)
  BY <1>1
<1>7. ASSUME NEW i \in 1..(m + n), NEW j \in 1..(m + n), i < j PROVE q[i] < q[j]
  <2>1. CASE j \in 1..m
    <3>1. i \in 1..m
      BY <1>1, <1>7, <2>1
    <3>. QED BY <1>2, <1>4, <1>7, <2>1, <3>1
  <2>2. CASE \E k \in 1..n : j = m + k
    <3>1. PICK k \in 1..n : j = m + k
      BY <2>2
    <3>2. CASE i \in 1..m
      BY <1>2, <3>1, <3>2
    <3>3. CASE \E l \in 1..n : i = m + l
      <4>1. PICK l \in 1..n : i = m + l
        BY <3>3
      <4>2. l < k
        BY <1>1, <1>7, <3>1, <4>1
      <4>. QED BY <1>2, <1>4, <3>1, <4>1, <4>2
    <3>. QED BY <1>5, <3>2, <3>3
  <2>. QED BY <1>5, <2>1, <2>2
<1>8. ToSet(q) = ToSet(a) \cup ToSet(b)
  <2>1. ToSet(q) \subseteq ToSet(a) \cup ToSet(b)
    BY <1>2, <1>3, <1>5
  <2>2. ToSet(a) \subseteq ToSet(q) /\ ToSet(b) \subseteq ToSet(q)
    BY <1>2, <1>3, <1>6
  <2>. QED BY <2>1, <2>2
<1>. QED BY <1>1, <1>7, <1>8 DEF Ascending, q

\* A pair is read as the numbers it stands for.
LEMMA UnpackedIs ==
  ASSUME NEW X \in SUBSET Seqs, NEW p \in Pair, p.fsn \in X, p.blp = Blp(X, p.fsn)
  PROVE  /\ Unpacked(p) \in Seq(Nat) /\ Ascending(Unpacked(p))
         /\ ToSet(Unpacked(p)) = {s \in X : s - p.fsn \in 0..BlpBits}
<1>. USE SeqSpaceAssumption, BlpAssumption
<1>. DEFINE f == p.fsn
            n == BlpBits
<1>1. PICK r \in [0..n -> Seq(Nat)] :
        /\ r[0] = <<f>> /\ \A k \in 1..n : r[k] = IF k - 1 \in p.blp
                                                  THEN Append(r[k - 1], (f + k) % SeqSpace)
                                                  ELSE r[k - 1]
        /\ Unpacked(p) = r[n]
  BY BitRounds
<1>2. n \in Nat /\ f \in X /\ f \in Nat /\ X \subseteq Nat /\ \A s \in X : s < SeqSpace
  <2>1. X \subseteq Nat /\ \A s \in X : s < SeqSpace
    BY DEF Seqs
  <2>. QED BY <2>1
<1>3. \A k \in 1..n : k - 1 \in p.blp <=> f + k \in X
  <2>. SUFFICES ASSUME NEW k \in 1..n PROVE k - 1 \in Blp(X, f) <=> f + k \in X
    OBVIOUS
  <2>1. k - 1 \in Blp(X, f) <=> \E s \in X : s - f \in 1..n /\ k - 1 = s - f - 1
    BY DEF Blp
  <2>2. \A s \in X : (s - f \in 1..n /\ k - 1 = s - f - 1) <=> s = f + k
    <3>1. \A s \in Nat : (s - f \in 1..n /\ k - 1 = s - f - 1) <=> s = f + k
      BY <1>2, SMTT(30)
    <3>. QED BY <1>2, <3>1
  <2>. QED BY <2>1, <2>2
<1>. HIDE DEF f, n
<1>. DEFINE Part(k) == {s \in X : s - f \in 0..k}
            T == {k \in 0..n : Ascending(r[k]) /\ ToSet(r[k]) = Part(k)}
<1>4. 0 \in T
  <2>1. Ascending(<<f>>) /\ ToSet(<<f>>) = {f}
    BY DEF Ascending, ToSet
  <2>2. Part(0) = {f}
    BY <1>2
  <2>3. 0 \in 0..n
    BY <1>2
  <2>. HIDE DEF Part
  <2>4. Ascending(r[0]) /\ ToSet(r[0]) = Part(0)
    BY <1>1, <2>1, <2>2
  <2>. QED BY <2>3, <2>4
<1>5. ASSUME NEW k \in 0..n, k < n, k \in T PROVE k + 1 \in T
  <2>1. k + 1 \in 1..n /\ k + 1 \in 0..n /\ (k + 1) - 1 = k
    BY <1>2, <1>5
  <2>2. r[k] \in Seq(Nat) /\ Ascending(r[k]) /\ ToSet(r[k]) = Part(k)
    BY <1>1, <1>5
  <2>. DEFINE x == f + (k + 1)
  <2>3. CASE x \in X
    <3>0. x \in Nat /\ x < SeqSpace /\ SeqSpace \in Nat
      BY <1>2, <2>3
    <3>1. x % SeqSpace = x
      <4>. HIDE DEF x
      <4>. QED BY <3>0
    <3>2. r[k + 1] = Append(r[k], x)
      BY <1>1, <1>3, <2>1, <2>3, <3>0, <3>1
    <3>3. \A y \in Part(k) : y < x
      BY <1>2, <2>1
    <3>4. Part(k + 1) = Part(k) \cup {x}
      <4>1. ASSUME NEW s \in X PROVE s - f \in 0..(k + 1) <=> s - f \in 0..k \/ s = x
        <5>1. s \in Nat /\ f \in Nat /\ k \in Nat
          BY <1>2
        <5>. QED BY <5>1
      <4>. HIDE DEF x
      <4>. QED BY <2>3, <4>1
    <3>. HIDE DEF x, Part
    <3>5. Ascending(r[k + 1]) /\ ToSet(r[k + 1]) = Part(k + 1)
      BY <2>2, <3>0, <3>2, <3>3, <3>4, AppendAscends, ZenonT(30)
    <3>. QED BY <2>1, <3>5 DEF Part
  <2>4. CASE x \notin X
    <3>1. r[k + 1] = r[k]
      BY <1>1, <1>3, <2>1, <2>4
    <3>2. Part(k + 1) = Part(k)
      <4>1. \A s \in X : s - f \in 0..(k + 1) <=> s - f \in 0..k
        <5>. SUFFICES ASSUME NEW s \in X PROVE s - f \in 0..(k + 1) <=> s - f \in 0..k
          OBVIOUS
        <5>1. s # f + (k + 1) /\ s \in Nat /\ f \in Nat /\ k \in Nat
          BY <1>2, <2>4
        <5>. QED BY <5>1
      <4>. QED BY <4>1
    <3>. QED BY <2>1, <2>2, <3>1, <3>2
  <2>. QED BY <2>3, <2>4
<1>6. n \in T
  <2>1. \A k \in 0..n : k < n /\ k \in T => k + 1 \in T
    BY <1>5
  <2>. HIDE DEF T
  <2>2. 0..n \subseteq T
    BY <1>2, <1>4, <2>1, UpTo
  <2>. QED BY <1>2, <2>2
<1>7. r[n] \in Seq(Nat)
  BY <1>1, <1>2
<1>. QED BY <1>1, <1>6, <1>7 DEF f, n

\* The pairs of a message are read as the numbers they stand for.
LEMMA AllUnpacked ==
  ASSUME NEW X \in SUBSET Seqs, NEW pairs \in Seq(Pair), Apart(pairs), PairsRight(X, pairs),
         NEW words, \A i \in 1..Len(pairs) : words[i + 3] = pairs[i]
  PROVE  LET q == UnpackedUpTo(words, Len(pairs) + 2)
         IN  q \in Seq(Nat) /\ Ascending(q) /\ ToSet(q) = Reached(X, pairs)
<1>. USE BlpAssumption
<1>. DEFINE m == Len(pairs)
            n == m + 2
            Of(i) == {s \in X : s - pairs[i].fsn \in 0..BlpBits}
<1>1. m \in Nat /\ n \in Nat /\ DOMAIN pairs = 1..m /\ X \subseteq Nat
  BY SeqSpaceAssumption DEF Seqs
<1>2. \A i \in 1..m : /\ pairs[i] \in Pair /\ pairs[i].fsn \in X /\ pairs[i].fsn \in Nat
                      /\ pairs[i].blp = Blp(X, pairs[i].fsn)
  <2>1. \A i \in 1..m : pairs[i] \in Pair /\ pairs[i].fsn \in X /\ pairs[i].blp = Blp(X, pairs[i].fsn)
    BY <1>1 DEF PairsRight
  <2>. HIDE DEF m
  <2>. QED BY <1>1, <2>1
<1>3. \A i, j \in 1..m : i < j => pairs[j].fsn - pairs[i].fsn > BlpBits
  BY <1>1 DEF Apart
<1>4. \A i \in 1..m : words[i + 3] = pairs[i]
  OBVIOUS
<1>5. Reached(X, pairs) = {s \in X : \E i \in 1..m : s \in Of(i)}
  BY <1>1 DEF Reached
<1>. HIDE DEF m
<1>6. \A i \in 1..m : /\ Unpacked(pairs[i]) \in Seq(Nat) /\ Ascending(Unpacked(pairs[i]))
                      /\ ToSet(Unpacked(pairs[i])) = Of(i)
  BY <1>2, UnpackedIs
<1>7. \A k \in 3..n : k - 2 \in 1..m /\ words[k + 1] = pairs[k - 2]
  <2>. SUFFICES ASSUME NEW k \in 3..n PROVE k - 2 \in 1..m /\ words[k + 1] = pairs[k - 2]
    OBVIOUS
  <2>1. k - 2 \in 1..m /\ (k - 2) + 3 = k + 1
    BY <1>1
  <2>. QED BY <1>4, <2>1
<1>8. PICK r \in [0..n -> Seq(Nat)] :
        /\ r[0] = <<>>
        /\ \A k \in 1..n : r[k] = IF k < 3 THEN <<>> ELSE r[k - 1] \o Unpacked(words[k + 1])
        /\ UnpackedUpTo(words, n) = r[n]
  <2>1. \A k \in 3..n : Unpacked(words[k + 1]) \in Seq(Nat)
    BY <1>6, <1>7
  <2>. HIDE DEF n
  <2>. QED BY <1>1, <2>1, PairRounds
<1>. DEFINE Part(k) == {s \in X : \E i \in 1..m : i <= k - 2 /\ s \in Of(i)}
            T == {k \in 0..n : Ascending(r[k]) /\ ToSet(r[k]) = Part(k)}
<1>9. 0 \in T
  <2>1. Ascending(<<>>) /\ ToSet(<<>>) = {}
    BY DEF Ascending, ToSet
  <2>2. Part(0) = {}
    BY <1>1
  <2>3. 0 \in 0..n
    BY <1>1
  <2>. HIDE DEF Part
  <2>4. Ascending(r[0]) /\ ToSet(r[0]) = Part(0)
    BY <1>8, <2>1, <2>2
  <2>. QED BY <2>3, <2>4
<1>10. ASSUME NEW k \in 0..n, k < n, k \in T PROVE k + 1 \in T
  <2>. DEFINE l == k + 1
  <2>1. l \in 1..n /\ l \in 0..n /\ l - 1 = k
    BY <1>1, <1>10
  <2>2. r[k] \in Seq(Nat) /\ Ascending(r[k]) /\ ToSet(r[k]) = Part(k)
    BY <1>8, <1>10
  <2>3. CASE l < 3
    <3>1. r[l] = <<>>
      BY <1>8, <2>1, <2>3
    <3>2. Part(l) = {}
      BY <1>1, <2>1, <2>3
    <3>3. Ascending(<<>>) /\ ToSet(<<>>) = {}
      BY DEF Ascending, ToSet
    <3>. HIDE DEF Part
    <3>. QED BY <2>1, <3>1, <3>2, <3>3
  <2>4. CASE ~(l < 3)
    <3>. DEFINE i == k - 1
                u == Unpacked(pairs[i])
    <3>1. l \in 3..n /\ i = l - 2
      BY <1>1, <2>1, <2>4
    <3>2. i \in 1..m /\ words[l + 1] = pairs[i]
      BY <1>7, <3>1
    <3>3. r[l] = r[k] \o u
      BY <1>8, <2>1, <2>4, <3>2
    <3>4. u \in Seq(Nat) /\ Ascending(u) /\ ToSet(u) = Of(i)
      BY <1>6, <3>2
    <3>5. ASSUME NEW x \in Part(k), NEW y \in Of(i) PROVE x < y
      <4>1. PICK h \in 1..m : h <= k - 2 /\ x \in Of(h)
        OBVIOUS
      <4>2. pairs[i].fsn - pairs[h].fsn > BlpBits
        <5>1. h < i
          BY <4>1, <2>1
        <5>. QED BY <1>3, <3>2, <4>1, <5>1
      <4>3. x - pairs[h].fsn <= BlpBits /\ y - pairs[i].fsn >= 0 /\ x \in Nat /\ y \in Nat
        <5>1. x \in X /\ x - pairs[h].fsn \in 0..BlpBits
          BY <4>1
        <5>2. y \in X /\ y - pairs[i].fsn \in 0..BlpBits
          OBVIOUS
        <5>. QED BY <1>1, <5>1, <5>2, SMTT(30)
      <4>4. pairs[i].fsn \in Nat /\ pairs[h].fsn \in Nat
        BY <1>2, <3>2
      <4>. DEFINE a == pairs[h].fsn
                  c == pairs[i].fsn
      <4>. HIDE DEF a, c
      <4>5. a \in Nat /\ c \in Nat /\ c - a > BlpBits /\ x - a <= BlpBits /\ y - c >= 0
        BY <4>2, <4>3, <4>4 DEF a, c
      <4>. QED BY <4>3, <4>5
    <3>6. Part(l) = Part(k) \cup Of(i)
      <4>1. \A h \in 1..m : h <= l - 2 <=> h <= k - 2 \/ h = i
        BY <1>1, <2>1, <3>2
      <4>. HIDE DEF l, i, Of
      <4>2. \A s \in X : s \in Part(l) <=> s \in Part(k) \/ s \in Of(i)
        BY <3>2, <4>1
      <4>3. Of(i) \subseteq X /\ Part(l) \subseteq X /\ Part(k) \subseteq X
        BY DEF Of
      <4>4. \A s : s \in Part(l) <=> s \in Part(k) \/ s \in Of(i)
        BY <4>2, <4>3
      <4>. HIDE DEF Part
      <4>. QED BY <4>4
    <3>. HIDE DEF u, Part, Of
    <3>7. \A x \in ToSet(r[k]), y \in ToSet(u) : x < y
      BY <2>2, <3>4, <3>5
    <3>8. Ascending(r[k] \o u) /\ ToSet(r[k] \o u) = ToSet(r[k]) \cup ToSet(u)
      BY <2>2, <3>4, <3>7, ConcatAscends
    <3>9. Ascending(r[l]) /\ ToSet(r[l]) = Part(l)
      BY <2>2, <3>3, <3>4, <3>6, <3>8
    <3>. QED BY <2>1, <3>9
  <2>. QED BY <2>3, <2>4
<1>11. n \in T
  <2>1. \A k \in 0..n : k < n /\ k \in T => k + 1 \in T
    BY <1>10
  <2>. HIDE DEF T, n
  <2>2. 0..n \subseteq T
    BY <1>1, <1>9, <2>1, UpTo
  <2>. QED BY <1>1, <2>2
<1>12. Part(n) = Reached(X, pairs)
  <2>1. \A i \in 1..m : i <= n - 2
    BY <1>1
  <2>. QED BY <1>5, <2>1
<1>13. r[n] \in Seq(Nat)
  BY <1>1, <1>8
<1>. HIDE DEF Part, Of
<1>. QED BY <1>8, <1>11, <1>12, <1>13 DEF m

\* The distance of two numbers, without the remainder.
LEMMA DistanceIs ==
  ASSUME NEW t \in Seqs, NEW s \in Seqs
  PROVE  SeqsFrom(t, s) = IF t <= s THEN s - t ELSE s + SeqSpace - t
<1>. DEFINE x == s + SeqSpace - t
            d == x \div SeqSpace
<1>1. SeqSpace \in Nat \ {0} /\ t \in 0..(SeqSpace - 1) /\ s \in 0..(SeqSpace - 1)
  BY SeqSpaceAssumption DEF Seqs
<1>2. x \in 1..(2 * SeqSpace - 1)
  BY <1>1
<1>. HIDE DEF x
<1>3. x % SeqSpace = IF x < SeqSpace THEN x ELSE x - SeqSpace
  BY <1>1, <1>2
<1>. QED BY <1>1, <1>3 DEF SeqsFrom, x

\* Two first numbers of the sorted list that lie within reach of one number lie
\* on both sides of the wrap, and the lower of them is within reach of zero.
LEMMA SharedOnlyAcross ==
  ASSUME NEW a \in Seqs, NEW b \in Seqs, b - a > BlpBits,
         NEW t \in Seqs, SeqsFrom(t, a) \in 0..BlpBits, SeqsFrom(t, b) \in 0..BlpBits
  PROVE  a < t /\ a < BlpBits
<1>1. SeqSpace \in Nat \ {0} /\ BlpBits \in Nat
      /\ a \in 0..(SeqSpace - 1) /\ b \in 0..(SeqSpace - 1) /\ t \in 0..(SeqSpace - 1)
  BY SeqSpaceAssumption, BlpAssumption DEF Seqs
<1>2. /\ SeqsFrom(t, a) = IF t <= a THEN a - t ELSE a + SeqSpace - t
      /\ SeqsFrom(t, b) = IF t <= b THEN b - t ELSE b + SeqSpace - t
  BY DistanceIs
<1>. QED BY <1>1, <1>2

\* The pairs are the fewest there can be, or one more where the numbers span
\* the wrap: of the first numbers behind the lowest, no two are within reach
\* of one number, and neither is the lowest unless across the wrap.
LEMMA FewIs ==
  ASSUME NEW X \in SUBSET Seqs, NEW pairs \in Seq(Pair), Apart(pairs), PairsRight(X, pairs),
         Reached(X, pairs) = X
  PROVE  Len(pairs) \in PairsAllowed(X)
<1>. USE BlpAssumption
<1>. DEFINE m == Len(pairs)
            c == [i \in 1..m |-> pairs[i].fsn]
            F == {c[i] : i \in 1..m}
            Covers(f) == \A s \in X : \E t \in f : SeqsFrom(t, s) \in 0..BlpBits
            Q == {Cardinality(f) : f \in {f \in SUBSET X : Covers(f)}}
            e == IF AcrossWrap(X) THEN 1 ELSE 0
<1>1. m \in Nat /\ DOMAIN pairs = 1..m /\ X \subseteq Nat /\ IsFiniteSet(X)
  <2>1. IsFiniteSet(Seqs)
    <3>1. 0 \in Int /\ SeqSpace - 1 \in Int
      BY SeqSpaceAssumption
    <3>. QED BY <3>1, FS_Interval DEF Seqs
  <2>2. IsFiniteSet(X)
    BY <2>1, FS_Subset
  <2>. QED BY <2>2, SeqSpaceAssumption DEF Seqs
<1>2. /\ \A i \in 1..m : c[i] \in X
      /\ \A i, j \in 1..m : i < j => c[j] - c[i] > BlpBits
      /\ \A s \in X : \E i \in 1..m : s - c[i] \in 0..BlpBits
  BY <1>1 DEF Apart, PairsRight, Reached
<1>3. IsFiniteSet(1..m) /\ Cardinality(1..m) = m
  <2>1. 1 \in Int /\ m \in Int
    BY <1>1
  <2>. HIDE DEF m
  <2>. QED BY <1>1, <2>1, FS_Interval
<1>. HIDE DEF c, m
<1>4. \A i \in 1..m : c[i] \in Nat
  BY <1>1, <1>2
<1>5. \A i, j \in 1..m : i # j => c[i] # c[j]
  <2>. SUFFICES ASSUME NEW i \in 1..m, NEW j \in 1..m, i < j PROVE c[i] # c[j]
    BY <1>1
  <2>1. c[j] - c[i] > BlpBits /\ c[i] \in Nat /\ c[j] \in Nat
    BY <1>2, <1>4
  <2>. QED BY <2>1
<1>6. m \in Q
  <2>1. c \in [1..m -> F]
    BY DEF c
  <2>2. c \in Surjection(1..m, F) /\ c \in Injection(1..m, F)
    BY <1>5, <2>1 DEF Surjection, Injection, IsInjective
  <2>3. Cardinality(F) = m
    <3>. HIDE DEF F
    <3>1. Cardinality(F) = Cardinality(1..m)
      BY <1>3, <2>2, FS_Surjection
    <3>. QED BY <1>3, <3>1
  <2>4. Covers(F)
    <3>. SUFFICES ASSUME NEW s \in X PROVE \E t \in F : SeqsFrom(t, s) \in 0..BlpBits
      OBVIOUS
    <3>1. PICK i \in 1..m : s - c[i] \in 0..BlpBits
      BY <1>2
    <3>2. c[i] \in Seqs /\ s \in Seqs /\ c[i] \in Nat /\ s \in Nat /\ c[i] \in F
      BY <1>1, <1>2
    <3>3. SeqsFrom(c[i], s) = s - c[i]
      BY <3>1, <3>2, DistanceIs
    <3>. QED BY <3>1, <3>2, <3>3
  <2>5. F \in SUBSET X
    BY <1>2
  <2>. QED BY <2>3, <2>4, <2>5
<1>7. ASSUME NEW f \in SUBSET X, Covers(f) PROVE m - e <= Cardinality(f) /\ Cardinality(f) \in Nat
  <2>. DEFINE g == [i \in 1..m |-> CHOOSE t \in f : SeqsFrom(t, c[i]) \in 0..BlpBits]
  <2>1. IsFiniteSet(f) /\ Cardinality(f) \in Nat
    BY <1>1, FS_Subset, FS_CardinalityType
  <2>2. \A i \in 1..m : g[i] \in f /\ SeqsFrom(g[i], c[i]) \in 0..BlpBits
    <3>. SUFFICES ASSUME NEW i \in 1..m
                  PROVE  g[i] \in f /\ SeqsFrom(g[i], c[i]) \in 0..BlpBits
      OBVIOUS
    <3>1. \E t \in f : SeqsFrom(t, c[i]) \in 0..BlpBits
      BY <1>2, <1>7
    <3>. QED BY <3>1
  <2>. HIDE DEF g
  <2>3. \A i, j \in 1..m : i < j /\ g[i] = g[j] => i = 1 /\ AcrossWrap(X)
    <3>. SUFFICES ASSUME NEW i \in 1..m, NEW j \in 1..m, i < j, g[i] = g[j]
                  PROVE  i = 1 /\ AcrossWrap(X)
      OBVIOUS
    <3>1. c[j] - c[i] > BlpBits /\ c[i] \in X /\ c[j] \in X /\ g[i] \in X
      BY <1>2, <2>2
    <3>2. SeqsFrom(g[i], c[i]) \in 0..BlpBits /\ SeqsFrom(g[i], c[j]) \in 0..BlpBits
      BY <2>2
    <3>3. c[i] < g[i] /\ c[i] < BlpBits
      <4>1. c[i] \in Seqs /\ c[j] \in Seqs /\ g[i] \in Seqs
        BY <3>1
      <4>. QED BY <3>1, <3>2, <4>1, SharedOnlyAcross
    <3>4. AcrossWrap(X)
      BY <3>1, <3>2, <3>3 DEF AcrossWrap
    <3>5. ASSUME i # 1 PROVE FALSE
      <4>1. 1 \in 1..m /\ 1 < i
        BY <1>1, <3>5
      <4>2. c[i] - c[1] > BlpBits /\ c[1] \in Nat /\ c[i] \in Nat
        BY <1>2, <1>4, <4>1
      <4>. QED BY <3>3, <4>2
    <3>. QED BY <3>4, <3>5
  <2>4. CASE ~AcrossWrap(X)
    <3>1. \A i, j \in 1..m : g[i] = g[j] => i = j
      <4>. SUFFICES ASSUME NEW i \in 1..m, NEW j \in 1..m, i < j PROVE g[i] # g[j]
        BY <1>1
      <4>. QED BY <2>3, <2>4
    <3>. DEFINE h == [i \in 1..m |-> g[i]]
    <3>2. h \in Injection(1..m, f)
      BY <2>2, <3>1 DEF Injection, IsInjective
    <3>. HIDE DEF h
    <3>3. Cardinality(1..m) <= Cardinality(f)
      BY <2>1, <3>2, FS_Injection
    <3>. QED BY <1>1, <1>3, <2>1, <2>4, <3>3
  <2>5. CASE AcrossWrap(X)
    <3>1. \A i, j \in 2..m : g[i] = g[j] => i = j
      <4>. SUFFICES ASSUME NEW i \in 2..m, NEW j \in 2..m, i < j PROVE g[i] # g[j]
        BY <1>1
      <4>1. i \in 1..m /\ j \in 1..m /\ i # 1
        BY <1>1
      <4>. QED BY <2>3, <4>1
    <3>. DEFINE h == [i \in 2..m |-> g[i]]
    <3>2. \A i \in 2..m : i \in 1..m
      BY <1>1
    <3>3. h \in Injection(2..m, f)
      BY <2>2, <3>1, <3>2 DEF Injection, IsInjective
    <3>. HIDE DEF h
    <3>4. Cardinality(2..m) <= Cardinality(f)
      BY <2>1, <3>3, FS_Injection
    <3>5. Cardinality(2..m) = IF 2 > m THEN 0 ELSE m - 2 + 1
      <4>1. 2 \in Int /\ m \in Int
        BY <1>1
      <4>. QED BY <4>1, FS_Interval
    <3>. QED BY <1>1, <2>1, <2>5, <3>4, <3>5
  <2>. QED BY <2>4, <2>5
<1>8. Q \in SUBSET Nat /\ \A y \in Q : m - e <= y
  BY <1>7
<1>9. FewestPairs(X) = Min(Q)
  BY DEF FewestPairs
<1>. HIDE DEF Q
<1>10. Min(Q) \in Q /\ Min(Q) <= m
  BY <1>6, <1>8, Smallest
<1>11. Min(Q) \in Nat /\ m - e <= Min(Q)
  BY <1>8, <1>10
<1>12. m \in Min(Q)..(Min(Q) + e)
  BY <1>1, <1>10, <1>11
<1>. QED BY <1>9, <1>12 DEF m, PairsAllowed

-----------------------------------------------------------------------------
(* Lost numbers: the messages.                                             *)

\* Only the pairs of a message are read.
LEMMA SamePairs ==
  ASSUME NEW v, NEW w, NEW m \in Nat, \A k \in 3..m : v[k + 1] = w[k + 1],
         \A k \in 3..m : Unpacked(v[k + 1]) \in Seq(Nat)
  PROVE  UnpackedUpTo(v, m) = UnpackedUpTo(w, m)
<1>1. PICK r \in [0..m -> Seq(Nat)] :
        /\ r[0] = <<>>
        /\ \A k \in 1..m : r[k] = IF k < 3 THEN <<>> ELSE r[k - 1] \o Unpacked(v[k + 1])
        /\ UnpackedUpTo(v, m) = r[m]
  BY PairRounds
<1>2. PICK t \in [0..m -> Seq(Nat)] :
        /\ t[0] = <<>>
        /\ \A k \in 1..m : t[k] = IF k < 3 THEN <<>> ELSE t[k - 1] \o Unpacked(w[k + 1])
        /\ UnpackedUpTo(w, m) = t[m]
  BY PairRounds
<1>. DEFINE T == {k \in 0..m : r[k] = t[k]}
<1>3. 0 \in T
  BY <1>1, <1>2
<1>4. \A k \in 0..m : k < m /\ k \in T => k + 1 \in T
  <2>. SUFFICES ASSUME NEW k \in 0..m, k < m, k \in T PROVE k + 1 \in T
    OBVIOUS
  <2>1. k + 1 \in 1..m /\ k + 1 \in 0..m /\ (k + 1) - 1 = k
    OBVIOUS
  <2>2. ~(k + 1 < 3) => v[(k + 1) + 1] = w[(k + 1) + 1]
    <3>. DEFINE l == k + 1
    <3>1. ~(l < 3) => l \in 3..m
      BY <2>1
    <3>. HIDE DEF l
    <3>2. ~(l < 3) => v[l + 1] = w[l + 1]
      BY <3>1
    <3>. QED BY <3>2 DEF l
  <2>. QED BY <1>1, <1>2, <2>1, <2>2
<1>5. m \in T
  <2>. HIDE DEF T
  <2>1. 0..m \subseteq T
    BY <1>3, <1>4, UpTo
  <2>. QED BY <2>1
<1>. QED BY <1>1, <1>2, <1>5

\* Three words and the pairs.
LEMMA WordsAre ==
  ASSUME NEW P, NEW pairs \in Seq(P), NEW h, NEW a, NEW b
  PROVE  LET words == <<h, a, b>> \o pairs
             m == Len(pairs)
         IN  /\ words \in Seq({h, a, b} \cup P) /\ Len(words) = m + 3
             /\ words[1] = h /\ words[2] = a /\ words[3] = b
             /\ \A i \in 1..m : words[i + 3] = pairs[i]
<1>. DEFINE S == {h, a, b} \cup P
            s == <<h, a, b>>
            words == s \o pairs
            m == Len(pairs)
<1>1. s \in Seq(S) /\ Len(s) = 3 /\ s[1] = h /\ s[2] = a /\ s[3] = b
  OBVIOUS
<1>2. pairs \in Seq(S) /\ m \in Nat
  <2>1. P \subseteq S
    OBVIOUS
  <2>. HIDE DEF S
  <2>. QED BY <2>1, SeqMonotonic
<1>. HIDE DEF s, S
<1>3. words \in Seq(S) /\ Len(words) = Len(s) + m
      /\ \A i \in 1..(Len(s) + m) : words[i] = IF i <= Len(s) THEN s[i] ELSE pairs[i - Len(s)]
  BY <1>1, <1>2, ConcatProperties
<1>. HIDE DEF words, m
<1>4. words[1] = s[1] /\ words[2] = s[2] /\ words[3] = s[3]
  BY <1>1, <1>2, <1>3
<1>5. ASSUME NEW i \in 1..m PROVE words[i + 3] = pairs[i]
  <2>1. i + 3 \in 1..(3 + m) /\ ~(i + 3 <= 3) /\ (i + 3) - 3 = i
    BY <1>2
  <2>. QED BY <1>1, <1>3, <2>1
<1>. QED BY <1>1, <1>2, <1>3, <1>4, <1>5 DEF words, m, s, S

\* A message is read as the lost numbers, whatever stands behind it.
LEMMA MessageIsRead ==
  ASSUME NEW X \in SUBSET Seqs, NEW pairs \in Seq(Pair), Apart(pairs), PairsRight(X, pairs),
         Reached(X, pairs) = X,
         NEW T, NEW words \in Seq(T), Len(words) >= Len(pairs) + 3,
         words[1] = Header(1, 205, Len(pairs) + 2), words[2] = 11, words[3] = 22,
         \A i \in 1..Len(pairs) : words[i + 3] = pairs[i]
  PROVE  LET lost == UnpackedUpTo(words, Len(pairs) + 2)
         IN  /\ ParseNack(words) = [ok |-> TRUE, sender |-> 11, media |-> 22, lost |-> lost]
             /\ ToSet(lost) = X /\ Ascending(lost)
<1>. DEFINE m == Len(pairs)
<1>1. m \in Nat /\ Len(words) \in Nat
  OBVIOUS
<1>2. Len(words) >= m + 3 /\ words[1] = Header(1, 205, m + 2)
  OBVIOUS
<1>3. LET lost == UnpackedUpTo(words, m + 2) IN Ascending(lost) /\ ToSet(lost) = X
  BY AllUnpacked
<1>. HIDE DEF m
<1>4. words[1].v = 2 /\ words[1].fmt = 1 /\ words[1].pt = 205 /\ words[1].length = m + 2
  BY <1>2 DEF Header
<1>5. WellFormed(words, 3, 205)
  BY <1>1, <1>2, <1>4 DEF WellFormed
<1>6. ParseNack(words) = [ok |-> TRUE, sender |-> 11, media |-> 22,
                          lost |-> UnpackedUpTo(words, m + 2)]
  BY <1>4, <1>5 DEF ParseNack
<1>. QED BY <1>3, <1>6 DEF m

\* All that NackExact says of a list of lost numbers.
LEMMA NackIsExact ==
  ASSUME NEW lost \in Seq(Seqs)
  PROVE  LET words == SerializeNack(lost, 11, 22)
             sr == SerializeSR(<<11, 1, 2, 3, 4, 5>>)
             read == ParseNack(words)
         IN /\ read.ok /\ read.sender = 11 /\ read.media = 22
            /\ ToSet(read.lost) = ToSet(lost) /\ Ascending(read.lost)
            /\ ParseNack(words \o sr) = read
            /\ \A n \in 0..(Len(words) - 1) : ~ParseNack(SubSeq(words, 1, n)).ok
            /\ Len(words) - 3 \in PairsAllowed(ToSet(lost))
            /\ ~ParseNack(sr).ok /\ ParseSR(words) = <<>>
            /\ ParseSR(sr \o words) = <<11, 1, 2, 3, 4, 5>>
<1>. DEFINE X == ToSet(lost)
            pairs == NackPairs(lost)
            m == Len(pairs)
            words == SerializeNack(lost, 11, 22)
            sr == SerializeSR(<<11, 1, 2, 3, 4, 5>>)
            read == ParseNack(words)
            h == Header(1, 205, m + 2)
            T == {h, 11, 22} \cup Pair
            U == T \cup {Header(0, 200, 6)} \cup Nat
<1>1. X \in SUBSET Seqs /\ pairs \in Seq(Pair) /\ Apart(pairs) /\ PairsRight(X, pairs)
      /\ Reached(X, pairs) = X
  BY PairsAreRight
<1>2. words = <<h, 11, 22>> \o pairs
  BY DEF SerializeNack
<1>. HIDE DEF pairs, words
<1>3. /\ words \in Seq(T) /\ Len(words) = m + 3 /\ m \in Nat
      /\ words[1] = h /\ words[2] = 11 /\ words[3] = 22
      /\ \A i \in 1..m : words[i + 3] = pairs[i]
  BY <1>1, <1>2, WordsAre
<1>4. /\ sr \in Seq(U) /\ Len(sr) = 7 /\ sr[1] = Header(0, 200, 6)
      /\ SubSeq(sr, 2, 7) = <<11, 1, 2, 3, 4, 5>>
  <2>. DEFINE g == Header(0, 200, 6)
              f == <<11, 1, 2, 3, 4, 5>>
              s == <<g>>
  <2>1. sr = s \o f
    BY DEF SerializeSR
  <2>2. g \in U /\ \A i \in Nat : i \in U
    OBVIOUS
  <2>. HIDE DEF g, U, sr
  <2>3. /\ f \in Seq(U) /\ Len(f) = 6
        /\ f[1] = 11 /\ f[2] = 1 /\ f[3] = 2 /\ f[4] = 3 /\ f[5] = 4 /\ f[6] = 5
    BY <2>2
  <2>4. s \in Seq(U) /\ Len(s) = 1 /\ s[1] = g
    BY <2>2
  <2>. HIDE DEF f, s
  <2>5. /\ sr \in Seq(U) /\ Len(sr) = Len(s) + Len(f)
        /\ \A i \in 1..(Len(s) + Len(f)) : sr[i] = IF i <= Len(s) THEN s[i] ELSE f[i - Len(s)]
    BY <2>1, <2>3, <2>4, ConcatProperties
  <2>6. Len(sr) = 7 /\ sr[1] = g /\ \A i \in 1..6 : sr[i + 1] = f[i]
    <3>1. \A i \in 1..6 : i + 1 \in 1..7 /\ ~(i + 1 <= 1) /\ (i + 1) - 1 = i
      OBVIOUS
    <3>. QED BY <2>3, <2>4, <2>5, <3>1
  <2>. DEFINE q == SubSeq(sr, 2, 7)
  <2>7. q \in Seq(U) /\ Len(q) = 6 /\ \A i \in 1..6 : q[i] = sr[i + 1]
    <3>. HIDE DEF q
    <3>0. sr \in [1..7 -> U]
      BY <2>5, <2>6, LenProperties
    <3>1. \A i \in 2..7 : sr[i] \in U
      BY <3>0
    <3>2. q \in Seq(U) /\ Len(q) = (IF 2 <= 7 THEN 7 - 2 + 1 ELSE 0)
          /\ \A i \in 1..(7 - 2 + 1) : q[i] = sr[2 + i - 1]
      <4>1. 2 \in Int /\ 7 \in Int
        OBVIOUS
      <4>. QED BY <3>1, <4>1, SubSeqProperties DEF q
    <3>3. \A i \in 1..6 : 2 + i - 1 = i + 1
      OBVIOUS
    <3>. QED BY <3>2, <3>3
  <2>8. q = f
    <3>. HIDE DEF q
    <3>. QED BY <2>3, <2>6, <2>7, SeqEqual, SMTT(30)
  <2>. QED BY <2>5, <2>6, <2>8 DEF g, f
<1>5. words \in Seq(U)
  <2>1. T \subseteq U
    OBVIOUS
  <2>. HIDE DEF T, U
  <2>. QED BY <1>3, <2>1, SeqMonotonic
<1>. HIDE DEF T, U, sr, h
<1>6. read = [ok |-> TRUE, sender |-> 11, media |-> 22, lost |-> UnpackedUpTo(words, m + 2)]
      /\ ToSet(read.lost) = X /\ Ascending(read.lost)
  <2>. HIDE DEF X, read
  <2>1. Len(words) >= Len(pairs) + 3 /\ words[1] = Header(1, 205, Len(pairs) + 2)
    BY <1>3 DEF h
  <2>2. /\ ParseNack(words) = [ok |-> TRUE, sender |-> 11, media |-> 22, lost |-> UnpackedUpTo(words, m + 2)]
        /\ ToSet(UnpackedUpTo(words, m + 2)) = X /\ Ascending(UnpackedUpTo(words, m + 2))
    BY <1>1, <1>3, <2>1, MessageIsRead
  <2>. QED BY <2>2 DEF read
<1>. HIDE DEF m
<1>7. ParseNack(words \o sr) = read
  <2>. DEFINE w == words \o sr
  <2>1. w \in Seq(U) /\ Len(w) = m + 10 /\ \A i \in 1..(m + 3) : w[i] = words[i]
    <3>1. w \in Seq(U) /\ Len(w) = Len(words) + Len(sr)
          /\ \A i \in 1..(Len(words) + Len(sr)) : w[i] = IF i <= Len(words) THEN words[i] ELSE sr[i - Len(words)]
      BY <1>4, <1>5, ConcatProperties
    <3>2. Len(words) + Len(sr) = m + 10
      BY <1>3, <1>4
    <3>3. \A i \in 1..(m + 3) : i \in 1..(m + 10) /\ i <= Len(words)
      BY <1>3
    <3>. HIDE DEF w
    <3>. QED BY <3>1, <3>2, <3>3
  <2>. HIDE DEF w
  <2>2. w[1] = h /\ w[2] = 11 /\ w[3] = 22 /\ \A i \in 1..m : w[i + 3] = pairs[i]
    <3>1. 1 \in 1..(m + 3) /\ 2 \in 1..(m + 3) /\ 3 \in 1..(m + 3) /\ \A i \in 1..m : i + 3 \in 1..(m + 3)
      BY <1>3
    <3>. QED BY <1>3, <2>1, <3>1
  <2>3. Len(w) >= m + 3
    BY <1>3, <2>1
  <2>4. ParseNack(w) = [ok |-> TRUE, sender |-> 11, media |-> 22, lost |-> UnpackedUpTo(w, m + 2)]
    <3>1. /\ Len(w) >= Len(pairs) + 3 /\ w[1] = Header(1, 205, Len(pairs) + 2)
          /\ w[2] = 11 /\ w[3] = 22 /\ \A i \in 1..Len(pairs) : w[i + 3] = pairs[i]
      BY <2>2, <2>3 DEF h, m
    <3>. HIDE DEF X
    <3>2. ParseNack(w) = [ok |-> TRUE, sender |-> 11, media |-> 22,
                          lost |-> UnpackedUpTo(w, Len(pairs) + 2)]
      BY <1>1, <2>1, <3>1, MessageIsRead, SMTT(30)
    <3>. QED BY <3>2 DEF m
  <2>5. UnpackedUpTo(words, m + 2) = UnpackedUpTo(w, m + 2)
    <3>. DEFINE n == m + 2
    <3>1. n \in Nat /\ \A k \in 3..n : k + 1 \in 1..(m + 3) /\ k - 2 \in 1..m /\ (k - 2) + 3 = k + 1
      BY <1>3
    <3>. HIDE DEF n
    <3>2. \A k \in 3..n : words[k + 1] = w[k + 1]
      BY <2>1, <3>1
    <3>3. \A i \in 1..m : Unpacked(pairs[i]) \in Seq(Nat)
      <4>1. \A i \in 1..m : pairs[i] \in Pair /\ pairs[i].fsn \in X /\ pairs[i].blp = Blp(X, pairs[i].fsn)
        BY <1>1 DEF PairsRight, m
      <4>. HIDE DEF X
      <4>. QED BY <1>1, <4>1, UnpackedIs
    <3>4. \A k \in 3..n : Unpacked(words[k + 1]) \in Seq(Nat)
      <4>1. \A k \in 3..n : words[k + 1] = pairs[k - 2]
        BY <1>3, <3>1
      <4>. QED BY <3>1, <3>3, <4>1
    <3>5. UnpackedUpTo(words, n) = UnpackedUpTo(w, n)
      BY <3>1, <3>2, <3>4, SamePairs
    <3>. QED BY <3>5 DEF n
  <2>. QED BY <1>6, <2>4, <2>5 DEF w
<1>8. ASSUME NEW n \in 0..(Len(words) - 1) PROVE ~ParseNack(SubSeq(words, 1, n)).ok
  <2>. DEFINE w == SubSeq(words, 1, n)
  <2>1. Len(w) = n /\ n \in Nat /\ n < m + 3 /\ (n > 0 => w[1] = words[1])
    BY <1>3
  <2>2. words[1].length = m + 2
    BY <1>3 DEF h, Header
  <2>. HIDE DEF w
  <2>3. ~WellFormed(w, 3, 205)
    BY <1>3, <2>1, <2>2 DEF WellFormed
  <2>. QED BY <2>3 DEF ParseNack, w
<1>9. m \in PairsAllowed(X)
  BY <1>1, FewIs DEF m
<1>10. Len(words) - 3 \in PairsAllowed(X)
  <2>1. Len(words) - 3 = m
    BY <1>3
  <2>. QED BY <1>9, <2>1
<1>11. ~ParseNack(sr).ok
  <2>1. sr[1].pt # 205
    BY <1>4 DEF Header
  <2>. QED BY <2>1 DEF ParseNack, WellFormed
<1>12. ParseSR(words) = <<>>
  <2>1. words[1].pt # 200
    BY <1>3 DEF h, Header
  <2>. QED BY <2>1 DEF ParseSR, WellFormed
<1>13. ParseSR(sr \o words) = <<11, 1, 2, 3, 4, 5>>
  <2>. DEFINE w == sr \o words
  <2>1. w \in Seq(U) /\ Len(w) = m + 10 /\ \A i \in 1..7 : w[i] = sr[i]
    <3>1. w \in Seq(U) /\ Len(w) = Len(sr) + Len(words)
          /\ \A i \in 1..(Len(sr) + Len(words)) : w[i] = IF i <= Len(sr) THEN sr[i] ELSE words[i - Len(sr)]
      BY <1>4, <1>5, ConcatProperties
    <3>2. Len(sr) + Len(words) = m + 10
      BY <1>3, <1>4
    <3>3. \A i \in 1..7 : i \in 1..(m + 10) /\ i <= Len(sr)
      BY <1>3, <1>4
    <3>. HIDE DEF w
    <3>. QED BY <3>1, <3>2, <3>3
  <2>. HIDE DEF w
  <2>2. WellFormed(w, 7, 200)
    BY <1>3, <1>4, <2>1 DEF WellFormed, Header
  <2>3. SubSeq(w, 2, 7) = SubSeq(sr, 2, 7)
    BY <1>3, <1>4, <2>1
  <2>. QED BY <1>4, <2>2, <2>3 DEF ParseSR, w
<1>14. read.ok /\ read.sender = 11 /\ read.media = 22
  BY <1>6
<1>. HIDE DEF X, read
<1>. QED BY <1>6, <1>7, <1>8, <1>10, <1>11, <1>12, <1>13, <1>14 DEF X, words, sr, read

\* The lost numbers are sequence numbers.
NackInv == subject = "nack" => input \in Seq(Seqs)

\* Whatever is lost, in whatever order and however often it is reported, for
\* every size of the numbers and of the mask: the other end reads exactly the
\* lost numbers, ascending, from the fewest pairs that can name them or, where
\* the lost numbers span the wrap, from one more at most, and refuses a message
\* that was cut (RtcpNack::serialize and parse).
THEOREM NackNamesTheLost == Spec => []NackExact
<1>1. Init => SubjectInv /\ NackInv
  <2>1. <<>> \in Seq(Seqs)
    OBVIOUS
  <2>. QED BY <2>1 DEF Init, SubjectInv, NackInv
<1>2. SubjectInv /\ NackInv /\ [Feed]_vars => (SubjectInv /\ NackInv)'
  <2>. SUFFICES ASSUME SubjectInv, NackInv, [Feed]_vars
                PROVE  SubjectInv' /\ NackInv'
    OBVIOUS
  <2>1. subject' = subject
    BY DEF Feed, vars
  <2>2. SubjectInv'
    BY <2>1 DEF SubjectInv
  <2>3. CASE Feed /\ subject = "nack"
    <3>1. PICK x \in Inputs["nack"] : input' = Append(input, x)
      BY <2>3 DEF Feed
    <3>2. x \in Seqs /\ input \in Seq(Seqs)
      BY <2>3, InputsAssumption DEF SubjectInv, NackInv
    <3>3. input' \in Seq(Seqs)
      BY <3>1, <3>2
    <3>. QED BY <2>2, <3>3 DEF NackInv
  <2>4. CASE subject # "nack"
    BY <2>1, <2>2, <2>4 DEF NackInv
  <2>5. CASE UNCHANGED vars
    BY <2>2, <2>5 DEF NackInv, vars
  <2>. QED BY <2>3, <2>4, <2>5
<1>3. SubjectInv /\ NackInv => NackExact
  <2>. SUFFICES ASSUME NackInv, subject = "nack" PROVE NackExact
    BY DEF NackExact
  <2>1. input \in Seq(Seqs)
    BY DEF NackInv
  <2>. QED BY <2>1, NackIsExact DEF NackExact
<1>. QED BY <1>1, <1>2, <1>3, PTL DEF Spec

-----------------------------------------------------------------------------
(* Session descriptions: the loops of Sdp.                                 *)

\* STRING and the literals of Sdp: the provers do not know that they are in it.
Text == STRING \cup {None, "0", "-", "0 0"} \cup TextAttributes

\* Lines of such texts.
TextLines ==
  [key : {"v", "o", "s", "t"}, value : Text]
    \cup [key : {"a"}, name : Text \ {"rtpmap"}, value : Text]
    \cup [key : {"a"}, name : {"rtpmap"}, pt : Int \cup {NoNumber}, codec : Text]
    \cup [key : {"m"}, type : Text, port : Nat, proto : Text, fmts : Seq(Int)]

\* Every line of a text is one of them.
LEMMA LinesOfText == SdpLines \subseteq TextLines
BY DEF SdpLines, TextLines, Text

\* What the program can hold.
SdpSection ==
  [type : Text, port : Nat, proto : Text, fmts : Seq(Int),
   text : [TextAttributes -> Text], rtpmap : Seq(Int \X Text)]
Description == [v : Text, o : Text, s : Text, media : Seq(SdpSection)]
ReadState == [thrown : BOOLEAN, sdp : Description]
NothingRead == [thrown |-> FALSE, sdp |-> EmptySdp]

\* A line by its key.
LEMMA LineKinds ==
  ASSUME NEW x \in TextLines
  PROVE  \/ x.key \in {"v", "o", "s", "t"} /\ x.value \in Text
         \/ x.key = "a" /\ x.name # "rtpmap" /\ x.value \in Text
         \/ x.key = "a" /\ x.name = "rtpmap" /\ x.pt \in Int \cup {NoNumber} /\ x.codec \in Text
         \/ x.key = "m" /\ MediaOf(x) \in SdpSection
<1>1. CASE x.key = "m"
  <2>1. x.type \in Text /\ x.port \in Nat /\ x.proto \in Text /\ x.fmts \in Seq(Int)
    BY <1>1 DEF TextLines
  <2>2. <<>> \in Seq(Int \X Text)
    OBVIOUS
  <2>3. [name \in TextAttributes |-> None] \in [TextAttributes -> Text]
    BY DEF Text
  <2>. QED BY <1>1, <2>1, <2>2, <2>3 DEF MediaOf, SdpSection
<1>2. CASE x.key # "m"
  BY <1>2 DEF TextLines
<1>. QED BY <1>1, <1>2

\* An attribute in a section.
LEMMA AttributeType ==
  ASSUME NEW m \in SdpSection, NEW x \in TextLines, x.key = "a",
         ~(x.name = "rtpmap" /\ x.pt = NoNumber)
  PROVE  WithAttribute(m, x) \in SdpSection
<1>1. CASE x.name = "rtpmap"
  <2>1. <<x.pt, x.codec>> \in Int \X Text
    BY <1>1, LineKinds
  <2>2. Append(m.rtpmap, <<x.pt, x.codec>>) \in Seq(Int \X Text)
    BY <2>1 DEF SdpSection
  <2>. QED BY <1>1, <2>2 DEF WithAttribute, SdpSection
<1>2. CASE x.name # "rtpmap"
  <2>1. x.value \in Text
    BY <1>2, LineKinds
  <2>. QED BY <1>2, <2>1 DEF WithAttribute, SdpSection
<1>. QED BY <1>1, <1>2

\* A line.
LEMMA LineType ==
  ASSUME NEW r \in ReadState, NEW x \in TextLines
  PROVE  ReadLine(r, x) \in ReadState
<1>. DEFINE d == r.sdp
<1>1. d \in Description /\ d.media \in Seq(SdpSection)
  BY DEF ReadState, Description
<1>2. CASE r.thrown \/ Throws(d, x)
  BY <1>2 DEF ReadLine, ReadState
<1>3. CASE ~r.thrown /\ ~Throws(d, x)
  <2>1. AfterLine(d, x) \in Description
    <3>1. CASE x.key = "m"
      <4>1. Append(d.media, MediaOf(x)) \in Seq(SdpSection)
        BY <1>1, <3>1, LineKinds
      <4>. QED BY <1>1, <3>1, <4>1 DEF AfterLine, Description
    <3>2. CASE x.key = "a" /\ d.media # <<>>
      <4>1. Len(d.media) \in DOMAIN d.media
        BY <1>1, <3>2
      <4>2. WithAttribute(d.media[Len(d.media)], x) \in SdpSection
        BY <1>1, <1>3, <3>2, <4>1, AttributeType DEF Throws
      <4>3. [d.media EXCEPT ![Len(d.media)] = WithAttribute(@, x)] \in Seq(SdpSection)
        BY <1>1, <4>1, <4>2
      <4>. QED BY <1>1, <3>2, <4>3 DEF AfterLine, Description
    <3>3. CASE x.key \in {"v", "o", "s", "t"} \/ (x.key = "a" /\ d.media = <<>>)
      BY <1>1, <3>3, LineKinds DEF AfterLine, Description
    <3>. QED BY <3>1, <3>2, <3>3, LineKinds
  <2>. QED BY <1>3, <2>1 DEF ReadLine, ReadState
<1>. QED BY <1>2, <1>3

\* The loop of parse.
LEMMA ParseRounds ==
  ASSUME NEW e \in Seq(TextLines)
  PROVE  \E r \in [0..Len(e) -> ReadState] :
           /\ r[0] = NothingRead /\ \A k \in 1..Len(e) : r[k] = ReadLine(r[k - 1], e[k])
           /\ ParseSdp(e) = r[Len(e)]
<1>. DEFINE n == Len(e)
            S == ReadState
            base == NothingRead
            Body(v, k) == ReadLine(v, e[k])
            Loop(r) == r = [k \in 0..n |-> IF k = 0 THEN base ELSE Body(r[k - 1], k)]
            step == [k \in 1..n |-> [v \in S |-> Body(v, k)]]
<1>1. n \in Nat
  OBVIOUS
<1>2. base \in S /\ \A k \in 1..n, v \in S : Body(v, k) \in S
  <2>1. <<>> \in Seq(SdpSection)
    OBVIOUS
  <2>2. "0" \in Text /\ "-" \in Text /\ None \in Text
    BY DEF Text
  <2>3. NothingRead \in ReadState
    BY <2>1, <2>2 DEF NothingRead, EmptySdp, ReadState, Description
  <2>4. \A k \in 1..n, v \in ReadState : ReadLine(v, e[k]) \in ReadState
    BY LineType
  <2>. QED BY <2>3, <2>4
<1>3. ParseSdp(e) = (CHOOSE r : Loop(r))[n]
  BY DEF ParseSdp, NothingRead
<1>. HIDE DEF n, S, base, Body
<1>4. step \in Steps(n, S)
  BY <1>2 DEF Steps
<1>5. Runs(n, S, base, step)
  <2>. HIDE DEF step
  <2>. QED BY <1>1, <1>2, <1>4, LoopRuns
<1>6. PICK s \in [0..n -> S] : s[0] = base /\ \A k \in 1..n : s[k] = step[k][s[k - 1]]
  BY <1>5 DEF Runs
<1>7. Loop(s)
  <2>1. \A k \in 1..n : s[k] = Body(s[k - 1], k)
    <3>. SUFFICES ASSUME NEW k \in 1..n PROVE s[k] = Body(s[k - 1], k)
      OBVIOUS
    <3>1. s[k - 1] \in S
      BY <1>1, <1>6
    <3>. QED BY <1>6, <3>1
  <2>2. \A k \in 0..n : s[k] = IF k = 0 THEN base ELSE Body(s[k - 1], k)
    <3>1. \A k \in 0..n : k = 0 \/ k \in 1..n
      BY <1>1
    <3>. SUFFICES ASSUME NEW k \in 0..n PROVE s[k] = IF k = 0 THEN base ELSE Body(s[k - 1], k)
      OBVIOUS
    <3>2. CASE k = 0
      BY <1>6, <3>2
    <3>3. CASE k \in 1..n
      <4>1. s[k] = Body(s[k - 1], k) /\ k # 0
        BY <1>1, <2>1, <3>3
      <4>. QED BY <4>1
    <3>. QED BY <3>1, <3>2, <3>3
  <2>. QED BY <2>2
<1>. DEFINE r == CHOOSE t : Loop(t)
<1>8. Loop(r)
  BY <1>7
<1>. HIDE DEF r
<1>9. \A k \in 0..n : r[k] = IF k = 0 THEN base ELSE Body(r[k - 1], k)
  BY <1>8, Zenon
<1>10. r[0] = base /\ \A k \in 1..n : r[k] = Body(r[k - 1], k)
  BY <1>1, <1>9
<1>11. \A k \in 0..n : r[k] \in S
  <2>. DEFINE T == {k \in 0..n : r[k] \in S}
  <2>1. 0 \in T
    BY <1>1, <1>2, <1>10
  <2>2. \A k \in 0..n : k < n /\ k \in T => k + 1 \in T
    <3>. SUFFICES ASSUME NEW k \in 0..n, k < n, k \in T PROVE k + 1 \in T
      OBVIOUS
    <3>1. k + 1 \in 1..n /\ (k + 1) - 1 = k /\ k + 1 \in 0..n
      BY <1>1
    <3>2. r[k + 1] = Body(r[k], k + 1)
      BY <1>10, <3>1
    <3>. QED BY <1>2, <3>1, <3>2
  <2>. HIDE DEF T
  <2>3. 0..n \subseteq T
    BY <1>1, <2>1, <2>2, UpTo
  <2>. QED BY <2>3 DEF T
<1>12. r \in [0..n -> S]
  <2>1. r = [k \in 0..n |-> r[k]]
    BY <1>8, Zenon
  <2>. QED BY <1>11, <2>1
<1>. QED BY <1>3, <1>10, <1>12 DEF n, S, base, Body, r

\* One more line.
LEMMA ParseAppend ==
  ASSUME NEW e \in Seq(TextLines), NEW x \in TextLines
  PROVE  /\ Append(e, x) \in Seq(TextLines)
         /\ ParseSdp(e) \in ReadState
         /\ ParseSdp(Append(e, x)) = ReadLine(ParseSdp(e), x)
<1>. DEFINE f == Append(e, x)
            n == Len(e)
<1>1. /\ f \in Seq(TextLines) /\ Len(f) = n + 1 /\ n \in Nat /\ f[n + 1] = x
      /\ \A k \in 1..n : f[k] = e[k]
  OBVIOUS
<1>. HIDE DEF f
<1>2. PICK r \in [0..n -> ReadState] :
        /\ r[0] = NothingRead /\ \A k \in 1..n : r[k] = ReadLine(r[k - 1], e[k])
        /\ ParseSdp(e) = r[n]
  BY ParseRounds
<1>3. PICK s \in [0..(n + 1) -> ReadState] :
        /\ s[0] = NothingRead /\ \A k \in 1..(n + 1) : s[k] = ReadLine(s[k - 1], f[k])
        /\ ParseSdp(f) = s[n + 1]
  BY <1>1, ParseRounds
<1>. DEFINE T == {k \in 0..n : s[k] = r[k]}
<1>4. 0 \in T
  BY <1>1, <1>2, <1>3
<1>5. \A k \in 0..n : k < n /\ k \in T => k + 1 \in T
  <2>. SUFFICES ASSUME NEW k \in 0..n, k < n, k \in T PROVE k + 1 \in T
    OBVIOUS
  <2>1. k + 1 \in 1..n /\ k + 1 \in 1..(n + 1) /\ (k + 1) - 1 = k /\ k + 1 \in 0..n
    BY <1>1
  <2>2. s[k + 1] = ReadLine(s[k], f[k + 1]) /\ r[k + 1] = ReadLine(r[k], e[k + 1])
    BY <1>2, <1>3, <2>1
  <2>. QED BY <1>1, <2>1, <2>2
<1>. HIDE DEF T
<1>6. 0..n \subseteq T
  BY <1>1, <1>4, <1>5, UpTo
<1>7. s[n] = r[n] /\ n + 1 \in 1..(n + 1) /\ (n + 1) - 1 = n /\ n \in 0..n
  BY <1>1, <1>6 DEF T
<1>8. s[n + 1] = ReadLine(s[n], f[n + 1])
  BY <1>3, <1>7
<1>. QED BY <1>1, <1>2, <1>3, <1>7, <1>8 DEF f

\* No line.
LEMMA ParseNothing == ParseSdp(<<>>) = NothingRead
<1>1. <<>> \in Seq(TextLines) /\ Len(<<>>) = 0
  OBVIOUS
<1>. QED BY <1>1, ParseRounds

-----------------------------------------------------------------------------
(* Session descriptions: the lines that count.                             *)

\* The largest of a set of places.
LEMMA Largest ==
  ASSUME NEW n \in Nat, NEW ks \in SUBSET (1..n), ks # {}
  PROVE  Max(ks) \in ks /\ \A k \in ks : k <= Max(ks)
<1>. DEFINE bounds == {b \in 0..n : \A k \in ks : k <= b}
            m == Min(bounds)
<1>1. n \in bounds /\ bounds \in SUBSET Nat
  OBVIOUS
<1>2. m \in bounds /\ \A b \in bounds : m <= b
  BY <1>1, Smallest
<1>. HIDE DEF m
<1>3. m \in ks
  <2>. SUFFICES ASSUME m \notin ks PROVE FALSE
    OBVIOUS
  <2>1. \A k \in ks : k <= m - 1
    BY <1>2
  <2>2. m - 1 \in 0..n
    <3>1. PICK k \in ks : TRUE
      OBVIOUS
    <3>2. k \in 1..n /\ k <= m - 1 /\ m \in 0..n
      BY <1>2, <2>1, <3>1
    <3>. QED BY <3>2
  <2>3. m - 1 \in bounds
    BY <2>1, <2>2
  <2>. QED BY <1>2, <2>3
<1>4. \E k \in ks : \A j \in ks : k >= j
  BY <1>2, <1>3
<1>5. Max(ks) \in ks /\ \A j \in ks : Max(ks) >= j
  BY <1>4 DEF Max
<1>. QED BY <1>5

\* One more place, behind the others.
LEMMA OneMorePlace ==
  ASSUME NEW n \in Nat, NEW ks \in SUBSET (1..n)
  PROVE  /\ Cardinality(ks) \in Nat /\ Cardinality(ks \cup {n + 1}) = Cardinality(ks) + 1
         /\ Place(ks \cup {n + 1}, n + 1) = Cardinality(ks) + 1
         /\ \A k \in ks : /\ Place(ks \cup {n + 1}, k) = Place(ks, k)
                          /\ Place(ks, k) \in 1..Cardinality(ks)
                          /\ Place(ks, k) = Cardinality(ks) <=> \A j \in ks : j <= k
<1>. DEFINE more == ks \cup {n + 1}
<1>1. IsFiniteSet(ks) /\ Cardinality(ks) \in Nat
  <2>1. IsFiniteSet(1..n)
    BY FS_Interval
  <2>. QED BY <2>1, FS_Subset, FS_CardinalityType
<1>2. Cardinality(more) = Cardinality(ks) + 1
  <2>1. n + 1 \notin ks
    OBVIOUS
  <2>. QED BY <1>1, <2>1, FS_AddElement
<1>3. Place(more, n + 1) = Cardinality(ks) + 1
  <2>1. \A i \in more : i <= n + 1
    OBVIOUS
  <2>. HIDE DEF more
  <2>2. {i \in more : i <= n + 1} = more
    BY <2>1
  <2>. QED BY <1>2, <2>2 DEF Place, more
<1>4. ASSUME NEW k \in ks
      PROVE  /\ Place(more, k) = Place(ks, k) /\ Place(ks, k) \in 1..Cardinality(ks)
             /\ Place(ks, k) = Cardinality(ks) <=> \A j \in ks : j <= k
  <2>. DEFINE low == {i \in ks : i <= k}
  <2>1. {i \in more : i <= k} = low /\ k \in low /\ low \subseteq ks
    OBVIOUS
  <2>2. low = ks <=> \A j \in ks : j <= k
    <3>1. \A j : j \in low <=> j \in ks /\ j <= k
      OBVIOUS
    <3>. HIDE DEF low
    <3>. QED BY <2>1, <3>1
  <2>3. Place(more, k) = Cardinality(low) /\ Place(ks, k) = Cardinality(low)
    BY <2>1 DEF Place
  <2>. HIDE DEF low
  <2>4. IsFiniteSet(low) /\ Cardinality(low) <= Cardinality(ks)
        /\ (Cardinality(low) = Cardinality(ks) => low = ks)
    BY <1>1, <2>1, FS_Subset
  <2>5. Cardinality(low) \in Nat /\ Cardinality(low) # 0
    BY <2>1, <2>4, FS_CardinalityType, FS_EmptySet
  <2>. QED BY <1>1, <2>2, <2>3, <2>4, <2>5
<1>. QED BY <1>1, <1>2, <1>3, <1>4

\* Of lines with the last one among them that is the last.
LEMMA LastIsNew ==
  ASSUME NEW f \in Seq(TextLines), NEW more \in SUBSET (1..Len(f)), Len(f) \in more, NEW default
  PROVE  LastOf(more, f, default) = f[Len(f)].value
<1>. DEFINE n == Len(f)
<1>1. n \in Nat /\ more \in SUBSET (1..n) /\ n \in more
  OBVIOUS
<1>. HIDE DEF n
<1>2. Max(more) \in more /\ \A k \in more : k <= Max(more)
  <2>1. more # {}
    BY <1>1
  <2>. QED BY <1>1, <2>1, Largest
<1>3. Max(more) = n
  <2>. DEFINE m == Max(more)
  <2>1. m \in 1..n /\ n <= m
    BY <1>1, <1>2
  <2>. HIDE DEF m
  <2>2. m = n
    BY <1>1, <2>1
  <2>. QED BY <2>2 DEF m
<1>4. more # {}
  BY <1>1
<1>. QED BY <1>3, <1>4 DEF LastOf, n

\* The last and the first of the lines at some places.
LEMMA LastAndFirst ==
  ASSUME NEW e \in Seq(TextLines), NEW x \in TextLines, NEW ks \in SUBSET (1..Len(e)), NEW default
  PROVE  LET f == Append(e, x)
             more == ks \cup {Len(e) + 1}
         IN  /\ LastOf(ks, f, default) = LastOf(ks, e, default)
             /\ FirstOf(ks, f, default) = FirstOf(ks, e, default)
             /\ LastOf(more, f, default) = x.value
             /\ FirstOf(more, f, default) = IF ks = {} THEN x.value ELSE FirstOf(ks, e, default)
<1>. DEFINE f == Append(e, x)
            n == Len(e)
            more == ks \cup {n + 1}
<1>1. n \in Nat /\ ks \in SUBSET (1..n) /\ f[n + 1] = x /\ \A k \in 1..n : f[k] = e[k]
  OBVIOUS
<1>. HIDE DEF f, n
<1>2. ks # {} => Max(ks) \in 1..n /\ Min(ks) \in ks /\ Min(ks) \in 1..n /\ \A k \in ks : Min(ks) <= k
  <2>1. ks \in SUBSET Nat
    BY <1>1
  <2>2. ks # {} => Max(ks) \in ks /\ Min(ks) \in ks /\ \A k \in ks : Min(ks) <= k
    BY <1>1, <2>1, Largest, Smallest
  <2>. QED BY <1>1, <2>2
<1>3. LastOf(more, f, default) = x.value
  <2>1. f \in Seq(TextLines) /\ Len(f) = n + 1
    BY DEF f, n
  <2>2. more \in SUBSET (1..(n + 1)) /\ n + 1 \in more
    BY <1>1
  <2>. HIDE DEF more
  <2>3. LastOf(more, f, default) = f[Len(f)].value
    BY <2>1, <2>2, LastIsNew
  <2>. QED BY <1>1, <2>1, <2>3
<1>4. Min(more) = IF ks = {} THEN n + 1 ELSE Min(ks)
  <2>1. Min(more) \in more /\ \A k \in more : Min(more) <= k
    <3>1. more \in SUBSET Nat /\ more # {}
      BY <1>1
    <3>. HIDE DEF more
    <3>. QED BY <3>1, Smallest
  <2>. DEFINE m == Min(more)
  <2>. HIDE DEF m
  <2>2. m \in more /\ \A k \in more : m <= k
    BY <2>1 DEF m
  <2>3. CASE ks = {}
    BY <2>2, <2>3 DEF m
  <2>4. CASE ks # {}
    <3>1. Min(ks) \in more /\ Min(ks) \in 1..n
      BY <1>2, <2>4
    <3>2. m <= Min(ks) /\ m # n + 1 /\ m \in ks
      BY <1>1, <2>2, <3>1
    <3>3. Min(ks) <= m /\ m \in 1..n
      BY <1>1, <1>2, <2>4, <3>2
    <3>. QED BY <2>4, <3>1, <3>2, <3>3 DEF m
  <2>. QED BY <2>3, <2>4
<1>5. more # {}
  OBVIOUS
<1>. HIDE DEF more
<1>6. /\ LastOf(ks, f, default) = LastOf(ks, e, default)
      /\ FirstOf(ks, f, default) = FirstOf(ks, e, default)
  BY <1>1, <1>2 DEF LastOf, FirstOf
<1>7. FirstOf(more, f, default) = IF ks = {} THEN x.value ELSE FirstOf(ks, e, default)
  BY <1>1, <1>2, <1>4, <1>5 DEF FirstOf
<1>. QED BY <1>3, <1>6, <1>7 DEF f, n, more

\* The lines with a key.
KeyLines(e, key) == {k \in DOMAIN e : e[k].key = key}

\* One more line may be one of them.
LEMMA KeysOfMore ==
  ASSUME NEW e \in Seq(TextLines), NEW x \in TextLines, NEW key
  PROVE  /\ KeyLines(e, key) \in SUBSET (1..Len(e))
         /\ KeyLines(Append(e, x), key) =
              IF x.key = key THEN KeyLines(e, key) \cup {Len(e) + 1} ELSE KeyLines(e, key)
<1>. DEFINE f == Append(e, x)
            n == Len(e)
<1>1. n \in Nat /\ f[n + 1] = x /\ (\A k \in 1..n : f[k] = e[k])
      /\ DOMAIN e = 1..n /\ DOMAIN f = 1..(n + 1)
  OBVIOUS
<1>. HIDE DEF f, n
<1>2. \A k : k \in KeyLines(e, key) <=> k \in 1..n /\ e[k].key = key
  BY <1>1 DEF KeyLines
<1>3. \A k : k \in KeyLines(f, key) <=> k \in 1..(n + 1) /\ f[k].key = key
  BY <1>1 DEF KeyLines
<1>4. \A k : k \in 1..(n + 1) <=> k \in 1..n \/ k = n + 1
  BY <1>1
<1>5. \A k : k \in KeyLines(f, key) <=> k \in KeyLines(e, key) \/ (k = n + 1 /\ x.key = key)
  BY <1>1, <1>2, <1>3, <1>4
<1>6. KeyLines(e, key) \in SUBSET (1..n)
  BY <1>2
<1>. QED BY <1>5, <1>6 DEF f, n

\* Each m line starts a section.
LEMMA StartsAre ==
  ASSUME NEW e
  PROVE  MediaStarts(e) = KeyLines(e, "m")
BY DEF MediaStarts, KeyLines

\* The attributes of the sections, with one more line.
LEMMA NamedOfMore ==
  ASSUME NEW e \in Seq(TextLines), NEW x \in TextLines, NEW m \in MediaStarts(e), NEW name
  PROVE  /\ Named(e, m, name) \in SUBSET (1..Len(e))
         /\ Named(Append(e, x), m, name) =
              IF x.key = "a" /\ x.name = name /\ \A j \in MediaStarts(e) : j <= m
              THEN Named(e, m, name) \cup {Len(e) + 1} ELSE Named(e, m, name)
<1>. DEFINE f == Append(e, x)
            n == Len(e)
            last == \A j \in MediaStarts(e) : j <= m
            Its(g, k) == m < k /\ g[k].key = "a" /\ g[k].name = name
            Between(g, k) == \E j \in MediaStarts(g) : m < j /\ j < k
<1>1. /\ n \in Nat /\ f[n + 1] = x /\ (\A k \in 1..n : f[k] = e[k])
      /\ DOMAIN e = 1..n /\ DOMAIN f = 1..(n + 1)
  OBVIOUS
<1>2. MediaStarts(e) \in SUBSET (1..n)
      /\ MediaStarts(f) = IF x.key = "m" THEN MediaStarts(e) \cup {n + 1} ELSE MediaStarts(e)
  BY KeysOfMore, StartsAre
<1>. HIDE DEF f, n
<1>3. m \in 1..n
  BY <1>2
<1>4. \A k : k \in Named(e, m, name) <=> k \in 1..n /\ Its(e, k) /\ ~Between(e, k)
  BY <1>1 DEF Named
<1>5. \A k : k \in Named(f, m, name) <=> k \in 1..(n + 1) /\ Its(f, k) /\ ~Between(f, k)
  BY <1>1 DEF Named
<1>6. \A k : k \in 1..(n + 1) <=> k \in 1..n \/ k = n + 1
  BY <1>1
<1>7. \A k \in 1..n : Its(f, k) <=> Its(e, k)
  BY <1>1
<1>8. \A k \in 1..(n + 1) : Between(f, k) <=> Between(e, k)
  BY <1>1, <1>2
<1>9. Its(f, n + 1) <=> x.key = "a" /\ x.name = name
  BY <1>1, <1>3
<1>10. Between(e, n + 1) <=> ~last
  BY <1>1, <1>2, <1>3
<1>11. n + 1 \notin 1..n /\ n + 1 \in 1..(n + 1) /\ \A k \in 1..n : k \in 1..(n + 1)
  BY <1>1
<1>. HIDE DEF Its, Between, last
<1>12. \A k : k \in Named(f, m, name) <=>
               k \in Named(e, m, name) \/ (k = n + 1 /\ x.key = "a" /\ x.name = name /\ last)
  BY <1>4, <1>5, <1>6, <1>7, <1>8, <1>9, <1>10, <1>11
<1>13. Named(e, m, name) \in SUBSET (1..n)
  BY <1>4
<1>. QED BY <1>12, <1>13 DEF f, n, last

\* A section to which the line adds nothing.
LEMMA SectionStays ==
  ASSUME NEW e \in Seq(TextLines), NEW x \in TextLines, NEW m \in MediaStarts(e),
         NEW s \in SdpSection, SectionIs(e, m, s),
         \A name \in TextAttributes \cup {"rtpmap"} : Named(Append(e, x), m, name) = Named(e, m, name)
  PROVE  SectionIs(Append(e, x), m, s)
<1>. DEFINE f == Append(e, x)
            n == Len(e)
<1>1. MediaStarts(e) \in SUBSET (1..n)
  BY KeysOfMore, StartsAre
<1>2. \A k \in 1..n : f[k] = e[k]
  OBVIOUS
<1>3. f[m] = e[m]
  BY <1>1, <1>2
<1>4. \A name \in TextAttributes \cup {"rtpmap"} :
        Named(f, m, name) = Named(e, m, name) /\ Named(e, m, name) \in SUBSET (1..n)
  BY NamedOfMore
<1>5. ASSUME NEW name \in TextAttributes \ {"candidate"}
      PROVE  s.text[name] = LastOf(Named(f, m, name), f, None)
  <2>. DEFINE ks == Named(e, m, name)
  <2>1. s.text[name] = LastOf(ks, e, None)
    BY DEF SectionIs
  <2>2. Named(f, m, name) = ks /\ ks \in SUBSET (1..n)
    BY <1>4
  <2>. HIDE DEF ks
  <2>3. LastOf(ks, f, None) = LastOf(ks, e, None)
    BY <2>2, LastAndFirst, ZenonT(30)
  <2>. QED BY <2>1, <2>2, <2>3
<1>6. s.text["candidate"] = FirstOf({k \in Named(f, m, "candidate") : f[k].value # None}, f, None)
  <2>. DEFINE ks == {k \in Named(e, m, "candidate") : e[k].value # None}
  <2>1. s.text["candidate"] = FirstOf(ks, e, None)
    BY DEF SectionIs
  <2>2. "candidate" \in TextAttributes
    BY DEF TextAttributes
  <2>3. {k \in Named(f, m, "candidate") : f[k].value # None} = ks /\ ks \in SUBSET (1..n)
    BY <1>2, <1>4, <2>2
  <2>. HIDE DEF ks
  <2>4. FirstOf(ks, f, None) = FirstOf(ks, e, None)
    BY <2>3, LastAndFirst
  <2>. QED BY <2>1, <2>3, <2>4
<1>7. LET maps == Named(f, m, "rtpmap")
      IN  Len(s.rtpmap) = Cardinality(maps)
          /\ \A k \in maps : s.rtpmap[Place(maps, k)] = <<f[k].pt, f[k].codec>>
  <2>1. LET maps == Named(e, m, "rtpmap")
        IN  Len(s.rtpmap) = Cardinality(maps)
            /\ \A k \in maps : s.rtpmap[Place(maps, k)] = <<e[k].pt, e[k].codec>>
    BY DEF SectionIs
  <2>. QED BY <1>2, <1>4, <2>1
<1>8. /\ s.type = e[m].type /\ s.port = e[m].port /\ s.proto = e[m].proto /\ s.fmts = e[m].fmts
  BY DEF SectionIs
<1>. HIDE DEF f
<1>. QED BY <1>3, <1>5, <1>6, <1>7, <1>8 DEF SectionIs, f

\* A section that begins.
LEMMA SectionBegins ==
  ASSUME NEW e \in Seq(TextLines), NEW x \in TextLines, x.key = "m"
  PROVE  SectionIs(Append(e, x), Len(e) + 1, MediaOf(x))
<1>. DEFINE f == Append(e, x)
            n == Len(e)
            s == MediaOf(x)
<1>1. f[n + 1] = x /\ DOMAIN f = 1..(n + 1) /\ n \in Nat
  OBVIOUS
<1>. HIDE DEF f, n
<1>2. \A name : Named(f, n + 1, name) = {}
  BY <1>1 DEF Named
<1>3. /\ s.type = x.type /\ s.port = x.port /\ s.proto = x.proto /\ s.fmts = x.fmts
      /\ (\A name \in TextAttributes : s.text[name] = None) /\ s.rtpmap = <<>>
  BY DEF MediaOf
<1>. HIDE DEF s
<1>4. \A name \in TextAttributes \ {"candidate"} :
        s.text[name] = LastOf(Named(f, n + 1, name), f, None)
  BY <1>2, <1>3 DEF LastOf
<1>5. s.text["candidate"] = FirstOf({k \in Named(f, n + 1, "candidate") : f[k].value # None}, f, None)
  <2>1. {k \in Named(f, n + 1, "candidate") : f[k].value # None} = {}
    BY <1>2
  <2>2. "candidate" \in TextAttributes
    BY DEF TextAttributes
  <2>. QED BY <1>3, <2>1, <2>2 DEF FirstOf
<1>6. Len(s.rtpmap) = Cardinality({})
  BY <1>3, FS_EmptySet
<1>. QED BY <1>1, <1>2, <1>3, <1>4, <1>5, <1>6 DEF SectionIs, f, n, s

\* What an attribute changes in its section.
LEMMA AttributeIs ==
  ASSUME NEW s \in SdpSection, NEW x \in TextLines, x.key = "a"
  PROVE  LET t == WithAttribute(s, x)
         IN  /\ t.type = s.type /\ t.port = s.port /\ t.proto = s.proto /\ t.fmts = s.fmts
             /\ \A name \in TextAttributes \ {"candidate"} :
                  t.text[name] = IF x.name = name THEN x.value ELSE s.text[name]
             /\ t.text["candidate"] =
                  IF x.name = "candidate" /\ s.text["candidate"] = None
                  THEN x.value ELSE s.text["candidate"]
             /\ t.rtpmap = IF x.name = "rtpmap" THEN Append(s.rtpmap, <<x.pt, x.codec>>)
                           ELSE s.rtpmap
<1>1. s.text \in [TextAttributes -> Text] /\ "candidate" \in TextAttributes
      /\ "rtpmap" \notin TextAttributes
  BY DEF SdpSection, TextAttributes
<1>2. s = [type |-> s.type, port |-> s.port, proto |-> s.proto, fmts |-> s.fmts,
           text |-> s.text, rtpmap |-> s.rtpmap]
  BY DEF SdpSection
<1>3. CASE x.name = "rtpmap"
  BY <1>1, <1>2, <1>3 DEF WithAttribute
<1>4. CASE x.name # "rtpmap" /\ x.name \notin TextAttributes
  BY <1>1, <1>2, <1>4 DEF WithAttribute
<1>5. CASE x.name = "candidate"
  BY <1>1, <1>2, <1>5 DEF WithAttribute
<1>6. CASE x.name \in TextAttributes \ {"candidate"}
  BY <1>1, <1>2, <1>6 DEF WithAttribute
<1>. QED BY <1>3, <1>4, <1>5, <1>6

\* The section to which the line belongs.
LEMMA SectionGrows ==
  ASSUME NEW e \in Seq(TextLines), NEW x \in TextLines, NEW m \in MediaStarts(e),
         NEW s \in SdpSection, SectionIs(e, m, s), x.key = "a", \A j \in MediaStarts(e) : j <= m
  PROVE  SectionIs(Append(e, x), m, WithAttribute(s, x))
<1>. DEFINE f == Append(e, x)
            n == Len(e)
            t == WithAttribute(s, x)
<1>1. MediaStarts(e) \in SUBSET (1..n)
  BY KeysOfMore, StartsAre
<1>2. n \in Nat /\ f[n + 1] = x /\ \A k \in 1..n : f[k] = e[k]
  OBVIOUS
<1>3. f[m] = e[m]
  BY <1>1, <1>2
<1>4. \A name : /\ Named(e, m, name) \in SUBSET (1..n)
                /\ Named(f, m, name) = IF x.name = name THEN Named(e, m, name) \cup {n + 1}
                                       ELSE Named(e, m, name)
  BY NamedOfMore
<1>5. /\ t.type = s.type /\ t.port = s.port /\ t.proto = s.proto /\ t.fmts = s.fmts
      /\ \A name \in TextAttributes \ {"candidate"} :
           t.text[name] = IF x.name = name THEN x.value ELSE s.text[name]
      /\ t.text["candidate"] = IF x.name = "candidate" /\ s.text["candidate"] = None
                               THEN x.value ELSE s.text["candidate"]
      /\ t.rtpmap = IF x.name = "rtpmap" THEN Append(s.rtpmap, <<x.pt, x.codec>>) ELSE s.rtpmap
  BY AttributeIs
<1>. HIDE DEF t
<1>6. ASSUME NEW name \in TextAttributes \ {"candidate"}
      PROVE  t.text[name] = LastOf(Named(f, m, name), f, None)
  <2>. DEFINE ks == Named(e, m, name)
  <2>1. s.text[name] = LastOf(ks, e, None)
    BY DEF SectionIs
  <2>2. ks \in SUBSET (1..n) /\ Named(f, m, name) = IF x.name = name THEN ks \cup {n + 1} ELSE ks
    BY <1>4
  <2>. HIDE DEF ks
  <2>3. LastOf(ks, f, None) = LastOf(ks, e, None) /\ LastOf(ks \cup {n + 1}, f, None) = x.value
    <3>1. ks \in SUBSET (1..Len(e))
      BY <2>2
    <3>2. LastOf(ks, f, None) = LastOf(ks, e, None)
      BY <3>1, LastAndFirst, ZenonT(30)
    <3>. DEFINE more == ks \cup {n + 1}
    <3>3. f \in Seq(TextLines) /\ Len(f) = n + 1 /\ f[n + 1] = x /\ n \in Nat
      OBVIOUS
    <3>4. \A k \in more : k \in 1..(n + 1)
      BY <2>2, <3>3
    <3>5. more \in SUBSET (1..Len(f)) /\ Len(f) \in more
      BY <3>3, <3>4
    <3>. HIDE DEF more
    <3>6. LastOf(more, f, None) = f[Len(f)].value
      BY <3>3, <3>5, LastIsNew
    <3>. QED BY <3>2, <3>3, <3>6 DEF more
  <2>. QED BY <1>5, <2>1, <2>2, <2>3
<1>7. t.text["candidate"] = FirstOf({k \in Named(f, m, "candidate") : f[k].value # None}, f, None)
  <2>. DEFINE ks == {k \in Named(e, m, "candidate") : e[k].value # None}
              more == {k \in Named(f, m, "candidate") : f[k].value # None}
  <2>1. s.text["candidate"] = FirstOf(ks, e, None)
    BY DEF SectionIs
  <2>2. ks \in SUBSET (1..n) /\ more = IF x.name = "candidate" /\ x.value # None
                                       THEN ks \cup {n + 1} ELSE ks
    <3>1. \A k \in Named(e, m, "candidate") : f[k] = e[k]
      BY <1>2, <1>4
    <3>2. CASE x.name = "candidate"
      <4>1. Named(f, m, "candidate") = Named(e, m, "candidate") \cup {n + 1}
        BY <1>4, <3>2
      <4>. QED BY <1>2, <1>4, <3>1, <3>2, <4>1
    <3>3. CASE x.name # "candidate"
      <4>1. Named(f, m, "candidate") = Named(e, m, "candidate")
        BY <1>4, <3>3
      <4>. QED BY <1>4, <3>1, <3>3, <4>1
    <3>. QED BY <3>2, <3>3
  <2>3. ks # {} => FirstOf(ks, e, None) # None
    <3>1. ks \in SUBSET Nat /\ \A k \in ks : e[k].value # None
      BY <2>2
    <3>. HIDE DEF ks
    <3>2. ks # {} => Min(ks) \in ks
      BY <3>1, Smallest
    <3>. QED BY <3>1, <3>2 DEF FirstOf
  <2>. HIDE DEF ks, more
  <2>4. /\ FirstOf(ks, f, None) = FirstOf(ks, e, None)
        /\ FirstOf(ks \cup {n + 1}, f, None) = IF ks = {} THEN x.value ELSE FirstOf(ks, e, None)
    BY <2>2, LastAndFirst
  <2>5. ks = {} => FirstOf(ks, e, None) = None
    BY DEF FirstOf
  <2>6. t.text["candidate"] = FirstOf(more, f, None)
    BY <1>5, <2>1, <2>2, <2>3, <2>4, <2>5
  <2>. QED BY <2>6 DEF more
<1>8. LET maps == Named(f, m, "rtpmap")
      IN  Len(t.rtpmap) = Cardinality(maps)
          /\ \A k \in maps : t.rtpmap[Place(maps, k)] = <<f[k].pt, f[k].codec>>
  <2>. DEFINE maps == Named(e, m, "rtpmap")
  <2>1. Len(s.rtpmap) = Cardinality(maps)
        /\ \A k \in maps : s.rtpmap[Place(maps, k)] = <<e[k].pt, e[k].codec>>
    BY DEF SectionIs
  <2>2. maps \in SUBSET (1..n)
    BY <1>4
  <2>3. s.rtpmap \in Seq(Int \X Text)
    BY DEF SdpSection
  <2>4. CASE x.name # "rtpmap"
    <3>1. Named(f, m, "rtpmap") = maps
      BY <1>4, <2>4
    <3>. QED BY <1>2, <1>5, <2>1, <2>2, <2>4, <3>1
  <2>5. CASE x.name = "rtpmap"
    <3>. DEFINE more == maps \cup {n + 1}
    <3>1. Named(f, m, "rtpmap") = more
      BY <1>4, <2>5
    <3>. HIDE DEF maps
    <3>2. /\ Cardinality(maps) \in Nat /\ Cardinality(more) = Cardinality(maps) + 1
          /\ Place(more, n + 1) = Cardinality(maps) + 1
          /\ \A k \in maps : Place(more, k) = Place(maps, k) /\ Place(maps, k) \in 1..Cardinality(maps)
      BY <1>2, <2>2, OneMorePlace
    <3>3. Len(t.rtpmap) = Cardinality(maps) + 1
          /\ t.rtpmap[Cardinality(maps) + 1] = <<x.pt, x.codec>>
          /\ \A i \in 1..Cardinality(maps) : t.rtpmap[i] = s.rtpmap[i]
      BY <1>5, <2>1, <2>3, <2>5
    <3>4. ASSUME NEW k \in more PROVE t.rtpmap[Place(more, k)] = <<f[k].pt, f[k].codec>>
      <4>1. CASE k \in maps
        BY <1>2, <2>1, <2>2, <3>2, <3>3, <4>1
      <4>2. CASE k = n + 1
        BY <1>2, <3>2, <3>3, <4>2
      <4>. QED BY <4>1, <4>2
    <3>. QED BY <3>1, <3>2, <3>3, <3>4
  <2>. QED BY <2>4, <2>5
<1>9. /\ s.type = e[m].type /\ s.port = e[m].port /\ s.proto = e[m].proto /\ s.fmts = e[m].fmts
  BY DEF SectionIs
<1>. HIDE DEF f
<1>. QED BY <1>3, <1>5, <1>6, <1>7, <1>8, <1>9 DEF SectionIs, f, t

-----------------------------------------------------------------------------
(* Session descriptions: what is read of the lines.                        *)

\* The description holds what the lines say.
Told(e, d) ==
  LET starts == MediaStarts(e)
  IN  /\ Len(d.media) = Cardinality(starts)
      /\ \A m \in starts : SectionIs(e, m, d.media[Place(starts, m)])
      /\ d.v = LastOf(KeyLines(e, "v"), e, "0")
      /\ d.o = LastOf(KeyLines(e, "o"), e, None)
      /\ d.s = LastOf(KeyLines(e, "s"), e, "-")

ReadInv(e, r) ==
  r \in ReadState /\ (r.thrown <=> BadMap(e)) /\ (~r.thrown => Told(e, r.sdp))

\* A line that cannot be read.
LEMMA BadMapOfMore ==
  ASSUME NEW e \in Seq(TextLines), NEW x \in TextLines
  PROVE  BadMap(Append(e, x)) <=>
           \/ BadMap(e)
           \/ MediaStarts(e) # {} /\ x.key = "a" /\ x.name = "rtpmap" /\ x.pt = NoNumber
<1>. DEFINE f == Append(e, x)
            n == Len(e)
            Bad(y) == y.key = "a" /\ y.name = "rtpmap" /\ y.pt = NoNumber
<1>1. /\ n \in Nat /\ f[n + 1] = x /\ (\A k \in 1..n : f[k] = e[k])
      /\ DOMAIN e = 1..n /\ DOMAIN f = 1..(n + 1)
  OBVIOUS
<1>2. MediaStarts(e) \in SUBSET (1..n)
      /\ MediaStarts(f) = IF x.key = "m" THEN MediaStarts(e) \cup {n + 1} ELSE MediaStarts(e)
  BY KeysOfMore, StartsAre
<1>. HIDE DEF f, n
<1>3. BadMap(e) <=> \E m \in MediaStarts(e), k \in 1..n : m < k /\ Bad(e[k])
  BY <1>1 DEF BadMap
<1>4. BadMap(f) <=> \E m \in MediaStarts(f), k \in 1..(n + 1) : m < k /\ Bad(f[k])
  BY <1>1 DEF BadMap
<1>. HIDE DEF Bad
<1>5. ASSUME BadMap(f) PROVE BadMap(e) \/ (MediaStarts(e) # {} /\ Bad(x))
  <2>1. PICK m \in MediaStarts(f), k \in 1..(n + 1) : m < k /\ Bad(f[k])
    BY <1>4, <1>5
  <2>2. m \in MediaStarts(e)
    BY <1>1, <1>2, <2>1
  <2>3. CASE k \in 1..n
    BY <1>1, <1>3, <2>1, <2>2, <2>3
  <2>4. CASE k = n + 1
    BY <1>1, <2>1, <2>2, <2>4
  <2>. QED BY <1>1, <2>3, <2>4
<1>6. ASSUME BadMap(e) PROVE BadMap(f)
  <2>1. PICK m \in MediaStarts(e), k \in 1..n : m < k /\ Bad(e[k])
    BY <1>3, <1>6
  <2>2. m \in MediaStarts(f) /\ k \in 1..(n + 1) /\ Bad(f[k])
    BY <1>1, <1>2, <2>1
  <2>. QED BY <1>4, <2>1, <2>2
<1>7. ASSUME MediaStarts(e) # {}, Bad(x) PROVE BadMap(f)
  <2>1. PICK m \in MediaStarts(e) : TRUE
    BY <1>7
  <2>2. m \in MediaStarts(f) /\ n + 1 \in 1..(n + 1) /\ m < n + 1 /\ Bad(f[n + 1])
    BY <1>1, <1>2, <1>7, <2>1
  <2>. QED BY <1>4, <2>2
<1>. QED BY <1>5, <1>6, <1>7 DEF f, Bad

\* One more line: the sections.
LEMMA SectionsTold ==
  ASSUME NEW e \in Seq(TextLines), NEW x \in TextLines, NEW d \in Description,
         Len(d.media) = Cardinality(MediaStarts(e)),
         \A m \in MediaStarts(e) : SectionIs(e, m, d.media[Place(MediaStarts(e), m)])
  PROVE  LET f == Append(e, x)
             a == AfterLine(d, x)
         IN  /\ Len(a.media) = Cardinality(MediaStarts(f))
             /\ \A m \in MediaStarts(f) : SectionIs(f, m, a.media[Place(MediaStarts(f), m)])
<1>. DEFINE f == Append(e, x)
            n == Len(e)
            a == AfterLine(d, x)
            starts == MediaStarts(e)
            media == d.media
            L == Len(media)
            at(m) == Place(starts, m)
<1>1. n \in Nat /\ starts \in SUBSET (1..n)
      /\ MediaStarts(f) = IF x.key = "m" THEN starts \cup {n + 1} ELSE starts
  BY KeysOfMore, StartsAre
<1>2. /\ L \in Nat /\ Cardinality(starts \cup {n + 1}) = L + 1
      /\ Place(starts \cup {n + 1}, n + 1) = L + 1
      /\ \A m \in starts : /\ Place(starts \cup {n + 1}, m) = at(m) /\ at(m) \in 1..L
                           /\ at(m) = L <=> \A j \in starts : j <= m
  <2>. HIDE DEF starts, n
  <2>. QED BY <1>1, OneMorePlace, ZenonT(30) DEF starts
<1>3. media \in Seq(SdpSection) /\ \A m \in starts : media[at(m)] \in SdpSection
  <2>1. media \in Seq(SdpSection)
    BY DEF Description
  <2>. QED BY <1>2, <2>1
<1>4. ASSUME NEW m \in starts, x.key # "a" \/ at(m) # L PROVE SectionIs(f, m, media[at(m)])
  <2>1. \A name \in TextAttributes \cup {"rtpmap"} : Named(f, m, name) = Named(e, m, name)
    <3>1. ~(x.key = "a" /\ \A j \in starts : j <= m)
      BY <1>2, <1>4
    <3>. QED BY <3>1, NamedOfMore
  <2>. QED BY <1>3, <2>1, SectionStays
<1>5. CASE x.key = "m"
  <2>1. a.media = Append(media, MediaOf(x))
    BY <1>5 DEF AfterLine, Description
  <2>2. Len(a.media) = L + 1 /\ a.media[L + 1] = MediaOf(x) /\ \A i \in 1..L : a.media[i] = media[i]
    BY <1>3, <2>1
  <2>3. \A m \in starts : SectionIs(f, m, a.media[Place(starts \cup {n + 1}, m)])
    BY <1>2, <1>4, <1>5, <2>2
  <2>4. SectionIs(f, n + 1, a.media[Place(starts \cup {n + 1}, n + 1)])
    BY <1>2, <1>5, <2>2, SectionBegins
  <2>. QED BY <1>1, <1>2, <1>5, <2>2, <2>3, <2>4, ZenonT(30)
<1>6. CASE x.key = "a" /\ media # <<>>
  <2>1. a.media = [media EXCEPT ![L] = WithAttribute(media[L], x)]
    BY <1>6 DEF AfterLine, Description
  <2>2. L \in 1..L
    BY <1>3, <1>6
  <2>3. Len(a.media) = L /\ a.media[L] = WithAttribute(media[L], x)
        /\ \A i \in 1..L : i # L => a.media[i] = media[i]
    BY <1>3, <2>1, <2>2
  <2>4. ASSUME NEW m \in starts PROVE SectionIs(f, m, a.media[at(m)])
    <3>1. CASE at(m) = L
      <4>1. (\A j \in starts : j <= m) /\ media[L] \in SdpSection /\ SectionIs(e, m, media[L])
        BY <1>2, <1>3, <3>1
      <4>2. SectionIs(f, m, WithAttribute(media[L], x))
        BY <1>6, <4>1, SectionGrows
      <4>. QED BY <2>3, <3>1, <4>2
    <3>2. CASE at(m) # L
      BY <1>2, <1>4, <2>3, <3>2
    <3>. QED BY <3>1, <3>2
  <2>. QED BY <1>1, <1>2, <1>6, <2>3, <2>4
<1>7. CASE x.key \in {"v", "o", "s", "t"} \/ (x.key = "a" /\ media = <<>>)
  <2>1. a.media = media
    BY <1>7 DEF AfterLine, Description
  <2>2. media = <<>> => starts = {}
    BY <1>2
  <2>. QED BY <1>1, <1>4, <1>7, <2>1, <2>2
<1>. QED BY <1>5, <1>6, <1>7, LineKinds

\* The last line with a key.
LEMMA LastOfKey ==
  ASSUME NEW e \in Seq(TextLines), NEW x \in TextLines, NEW key, NEW default
  PROVE  LastOf(KeyLines(Append(e, x), key), Append(e, x), default) =
           IF x.key = key THEN x.value ELSE LastOf(KeyLines(e, key), e, default)
<1>. DEFINE ks == KeyLines(e, key)
            more == ks \cup {Len(e) + 1}
<1>1. ks \in SUBSET (1..Len(e)) /\ KeyLines(Append(e, x), key) = IF x.key = key THEN more ELSE ks
  BY KeysOfMore
<1>. HIDE DEF ks
<1>2. LastOf(ks, Append(e, x), default) = LastOf(ks, e, default)
      /\ LastOf(more, Append(e, x), default) = x.value
  <2>1. ks \in SUBSET (1..Len(e))
    BY <1>1
  <2>2. LastOf(ks, Append(e, x), default) = LastOf(ks, e, default)
    BY <2>1, LastAndFirst, ZenonT(30)
  <2>. DEFINE f == Append(e, x)
  <2>3. f \in Seq(TextLines) /\ Len(f) = Len(e) + 1 /\ f[Len(e) + 1] = x
    OBVIOUS
  <2>. HIDE DEF f
  <2>4. more \in SUBSET (1..Len(f)) /\ Len(f) \in more
    <3>. DEFINE n == Len(e)
    <3>1. n \in Nat /\ ks \in SUBSET (1..n) /\ Len(f) = n + 1 /\ more = ks \cup {n + 1}
      BY <2>1, <2>3
    <3>. HIDE DEF n, more
    <3>2. \A k \in more : k \in 1..(n + 1)
      BY <3>1
    <3>. QED BY <3>1, <3>2
  <2>. HIDE DEF more
  <2>5. LastOf(more, f, default) = f[Len(f)].value
    BY <2>3, <2>4, LastIsNew
  <2>. QED BY <2>2, <2>3, <2>5 DEF f
<1>. HIDE DEF more
<1>. QED BY <1>1, <1>2 DEF ks

\* One more line: what stands before the sections.
LEMMA HeadTold ==
  ASSUME NEW e \in Seq(TextLines), NEW x \in TextLines, NEW d \in Description, Told(e, d)
  PROVE  LET f == Append(e, x)
             a == AfterLine(d, x)
         IN  /\ a.v = LastOf(KeyLines(f, "v"), f, "0")
             /\ a.o = LastOf(KeyLines(f, "o"), f, None)
             /\ a.s = LastOf(KeyLines(f, "s"), f, "-")
<1>. DEFINE f == Append(e, x)
            n == Len(e)
            a == AfterLine(d, x)
<1>1. /\ a.v = IF x.key = "v" THEN x.value ELSE d.v
      /\ a.o = IF x.key = "o" THEN x.value ELSE d.o
      /\ a.s = IF x.key = "s" THEN x.value ELSE d.s
  <2>1. x.key \in {"v", "o", "s", "t", "a", "m"}
    BY LineKinds
  <2>. QED BY <2>1 DEF AfterLine, Description
<1>2. \A key, default : LastOf(KeyLines(f, key), f, default) =
                          IF x.key = key THEN x.value ELSE LastOf(KeyLines(e, key), e, default)
  BY LastOfKey
<1>3. /\ d.v = LastOf(KeyLines(e, "v"), e, "0") /\ d.o = LastOf(KeyLines(e, "o"), e, None)
      /\ d.s = LastOf(KeyLines(e, "s"), e, "-")
  BY DEF Told
<1>. HIDE DEF a
<1>. QED BY <1>1, <1>2, <1>3 DEF a

\* One more line.
LEMMA LineKeeps ==
  ASSUME NEW e \in Seq(TextLines), NEW x \in TextLines, NEW r, ReadInv(e, r)
  PROVE  ReadInv(Append(e, x), ReadLine(r, x))
<1>. DEFINE f == Append(e, x)
            q == ReadLine(r, x)
            d == r.sdp
            bad == x.key = "a" /\ x.name = "rtpmap" /\ x.pt = NoNumber
<1>1. r \in ReadState /\ d \in Description /\ q \in ReadState
  BY LineType DEF ReadInv, ReadState
<1>2. BadMap(f) <=> BadMap(e) \/ (MediaStarts(e) # {} /\ bad)
  BY BadMapOfMore
<1>3. CASE r.thrown
  <2>1. q.thrown
    BY <1>1, <1>3 DEF ReadLine, ReadState
  <2>. QED BY <1>1, <1>2, <1>3, <2>1 DEF ReadInv
<1>4. CASE ~r.thrown
  <2>1. Told(e, d) /\ ~BadMap(e)
    BY <1>4 DEF ReadInv
  <2>2. MediaStarts(e) # {} <=> d.media # <<>>
    <3>1. MediaStarts(e) \in SUBSET (1..Len(e)) /\ Len(e) \in Nat
      BY KeysOfMore, StartsAre
    <3>2. IsFiniteSet(MediaStarts(e))
      <4>1. IsFiniteSet(1..Len(e))
        BY <3>1, FS_Interval
      <4>. QED BY <3>1, <4>1, FS_Subset
    <3>3. MediaStarts(e) = {} <=> Cardinality(MediaStarts(e)) = 0
      BY <3>2, FS_EmptySet
    <3>4. d.media = <<>> <=> Len(d.media) = 0
      BY <1>1 DEF Description
    <3>. QED BY <2>1, <3>3, <3>4 DEF Told
  <2>3. Throws(d, x) <=> BadMap(f)
    BY <1>2, <2>1, <2>2 DEF Throws
  <2>4. CASE Throws(d, x)
    <3>1. q.thrown
      BY <1>1, <2>4 DEF ReadLine, ReadState
    <3>. QED BY <1>1, <2>3, <2>4, <3>1 DEF ReadInv
  <2>5. CASE ~Throws(d, x)
    <3>1. ~q.thrown /\ q.sdp = AfterLine(d, x)
      BY <1>1, <1>4, <2>5 DEF ReadLine, ReadState
    <3>2. Told(f, AfterLine(d, x))
      <4>. DEFINE a == AfterLine(d, x)
      <4>1. /\ Len(a.media) = Cardinality(MediaStarts(f))
            /\ \A m \in MediaStarts(f) : SectionIs(f, m, a.media[Place(MediaStarts(f), m)])
        BY <1>1, <2>1, SectionsTold DEF Told
      <4>2. /\ a.v = LastOf(KeyLines(f, "v"), f, "0") /\ a.o = LastOf(KeyLines(f, "o"), f, None)
            /\ a.s = LastOf(KeyLines(f, "s"), f, "-")
        BY <1>1, <2>1, HeadTold
      <4>. HIDE DEF a, f
      <4>. QED BY <4>1, <4>2 DEF Told, a
    <3>. QED BY <1>1, <2>3, <2>5, <3>1, <3>2 DEF ReadInv
  <2>. QED BY <2>4, <2>5
<1>. QED BY <1>3, <1>4

\* No line.
LEMMA NothingTold == ReadInv(<<>>, NothingRead)
<1>1. ParseSdp(<<>>) \in ReadState /\ ParseSdp(<<>>) = NothingRead
  <2>1. <<>> \in Seq(TextLines)
    OBVIOUS
  <2>2. \E x : x \in TextLines
    <3>1. Line("t", "0") \in TextLines
      BY DEF Line, TextLines, Text
    <3>. QED BY <3>1
  <2>. QED BY <2>1, <2>2, ParseAppend, ParseNothing
<1>2. MediaStarts(<<>>) = {} /\ \A key : KeyLines(<<>>, key) = {}
  BY DEF MediaStarts, KeyLines
<1>3. ~BadMap(<<>>)
  BY <1>2 DEF BadMap
<1>4. Told(<<>>, EmptySdp)
  <2>1. Len(EmptySdp.media) = Cardinality({})
    BY FS_EmptySet DEF EmptySdp
  <2>. QED BY <1>2, <2>1 DEF Told, EmptySdp, LastOf
<1>. QED BY <1>1, <1>3, <1>4 DEF ReadInv, NothingRead

\* Every text.
LEMMA LinesAreTold ==
  ASSUME NEW e \in Seq(TextLines)
  PROVE  ReadInv(e, ParseSdp(e))
<1>. DEFINE n == Len(e)
            part(k) == SubSeq(e, 1, k)
            T == {k \in 0..n : ReadInv(part(k), ParseSdp(part(k)))}
<1>1. 0 \in T
  <2>1. part(0) = <<>>
    OBVIOUS
  <2>. HIDE DEF part
  <2>2. ReadInv(part(0), ParseSdp(part(0)))
    BY <2>1, NothingTold, ParseNothing
  <2>. QED BY <2>2
<1>2. \A k \in 0..n : k < n /\ k \in T => k + 1 \in T
  <2>. SUFFICES ASSUME NEW k \in 0..n, k < n, k \in T PROVE k + 1 \in T
    OBVIOUS
  <2>1. part(k) \in Seq(TextLines) /\ e[k + 1] \in TextLines /\ k + 1 \in 0..n
    OBVIOUS
  <2>2. part(k + 1) = Append(part(k), e[k + 1])
    OBVIOUS
  <2>3. ParseSdp(part(k + 1)) = ReadLine(ParseSdp(part(k)), e[k + 1])
    BY <2>1, <2>2, ParseAppend
  <2>. HIDE DEF part
  <2>4. ReadInv(part(k + 1), ParseSdp(part(k + 1)))
    BY <2>1, <2>2, <2>3, LineKeeps
  <2>. QED BY <2>1, <2>4
<1>. HIDE DEF T
<1>3. 0..n \subseteq T
  BY <1>1, <1>2, UpTo
<1>4. n \in T
  BY <1>3
<1>5. part(n) = e
  OBVIOUS
<1>. QED BY <1>4, <1>5 DEF T

-----------------------------------------------------------------------------
(* Session descriptions: what is written.                                  *)

\* What was read when the sections so far are these.
Read(d, media) == [thrown |-> FALSE, sdp |-> [d EXCEPT !.media = media]]

\* One line behind others.
LEMMA ConcatOne ==
  ASSUME NEW S, NEW e \in Seq(S), NEW x \in S
  PROVE  e \o <<x>> = Append(e, x)
OBVIOUS

\* A longer prefix.
LEMMA PrefixGrows ==
  ASSUME NEW S, NEW e \in Seq(S), NEW k \in 0..Len(e), k < Len(e)
  PROVE  /\ SubSeq(e, 1, k) \in Seq(S) /\ e[k + 1] \in S
         /\ SubSeq(e, 1, k + 1) = Append(SubSeq(e, 1, k), e[k + 1])
OBVIOUS

\* An attribute of the last section.
LEMMA AttributeRead ==
  ASSUME NEW d \in Description, NEW done \in Seq(SdpSection), NEW s \in SdpSection,
         NEW lines \in Seq(TextLines), ParseSdp(lines) = Read(d, Append(done, s)),
         NEW x \in TextLines, x.key = "a", ~(x.name = "rtpmap" /\ x.pt = NoNumber)
  PROVE  /\ WithAttribute(s, x) \in SdpSection /\ lines \o <<x>> \in Seq(TextLines)
         /\ ParseSdp(lines \o <<x>>) = Read(d, Append(done, WithAttribute(s, x)))
<1>. DEFINE M == Append(done, s)
            L == Len(M)
            t == WithAttribute(s, x)
            now == [d EXCEPT !.media = M]
<1>1. t \in SdpSection
  BY AttributeType
<1>2. lines \o <<x>> = Append(lines, x) /\ Append(lines, x) \in Seq(TextLines)
      /\ ParseSdp(Append(lines, x)) = ReadLine(Read(d, M), x)
  BY ConcatOne, ParseAppend
<1>. HIDE DEF t
<1>3. M \in Seq(SdpSection) /\ M # <<>> /\ L \in 1..L /\ M[L] = s
      /\ [M EXCEPT ![L] = t] = Append(done, t)
  <2>1. M \in Seq(SdpSection) /\ L = Len(done) + 1 /\ M[L] = s
    OBVIOUS
  <2>2. [M EXCEPT ![L] = t] = Append(done, t)
    <3>1. Append(done, t) \in Seq(SdpSection) /\ [M EXCEPT ![L] = t] \in Seq(SdpSection)
          /\ Len(Append(done, t)) = Len([M EXCEPT ![L] = t])
      BY <1>1, <2>1
    <3>2. \A i \in 1..Len(Append(done, t)) : [M EXCEPT ![L] = t][i] = Append(done, t)[i]
      <4>. SUFFICES ASSUME NEW i \in 1..(Len(done) + 1)
                    PROVE  [M EXCEPT ![L] = t][i] = Append(done, t)[i]
        BY <1>1
      <4>1. CASE i = Len(done) + 1
        BY <1>1, <2>1, <4>1
      <4>2. CASE i \in 1..Len(done)
        <5>1. i # L /\ i \in 1..L /\ M[i] = done[i] /\ Append(done, t)[i] = done[i]
          BY <1>1, <2>1, <4>2
        <5>2. DOMAIN M = 1..L
          BY <2>1
        <5>. HIDE DEF M, L
        <5>. QED BY <5>1, <5>2
      <4>. QED BY <4>1, <4>2
    <3>. QED BY <3>1, <3>2, SeqEqual
  <2>3. L \in 1..L /\ M # <<>>
    BY <2>1
  <2>. QED BY <2>1, <2>2, <2>3
<1>. HIDE DEF M, L
<1>4. now.media = M /\ [now EXCEPT !.media = Append(done, t)] = [d EXCEPT !.media = Append(done, t)]
      /\ AfterLine(now, x) = [now EXCEPT !.media = [M EXCEPT ![L] = t]]
  BY <1>3 DEF AfterLine, Description, t, L
<1>5. ~Throws(now, x)
  BY DEF Throws
<1>6. ReadLine(Read(d, M), x) = Read(d, Append(done, t))
  <2>1. Read(d, M).thrown = FALSE /\ Read(d, M).sdp = now
    BY DEF Read
  <2>2. ReadLine(Read(d, M), x) = [Read(d, M) EXCEPT !.sdp = AfterLine(now, x)]
    BY <1>5, <2>1 DEF ReadLine
  <2>. QED BY <1>3, <1>4, <2>2 DEF Read
<1>. QED BY <1>1, <1>2, <1>6 DEF M, t

WithText(s, name, value) == [s EXCEPT !.text = [@ EXCEPT ![name] = value]]

\* A text of the last section that has none of this name yet.
LEMMA TextRead ==
  ASSUME NEW d \in Description, NEW done \in Seq(SdpSection), NEW s \in SdpSection,
         NEW lines \in Seq(TextLines), ParseSdp(lines) = Read(d, Append(done, s)),
         NEW m \in SdpSection, NEW name \in TextAttributes, s.text[name] = None
  PROVE  LET t == WithText(s, name, m.text[name])
             more == lines \o TextLine(m, name)
         IN  t \in SdpSection /\ more \in Seq(TextLines) /\ ParseSdp(more) = Read(d, Append(done, t))
<1>. DEFINE t == WithText(s, name, m.text[name])
<1>1. m.text[name] \in Text /\ s.text \in [TextAttributes -> Text]
  BY DEF SdpSection
<1>2. CASE m.text[name] = None
  <2>1. [s.text EXCEPT ![name] = None] = s.text
    BY <1>1
  <2>2. t = s
    BY <1>2, <2>1 DEF SdpSection, WithText
  <2>3. lines \o TextLine(m, name) = lines
    <3>1. TextLine(m, name) = <<>>
      BY <1>2 DEF TextLine
    <3>. HIDE DEF t
    <3>. QED BY <3>1
  <2>. HIDE DEF t
  <2>4. t \in SdpSection /\ lines \o TextLine(m, name) \in Seq(TextLines)
        /\ ParseSdp(lines \o TextLine(m, name)) = Read(d, Append(done, t))
    BY <2>2, <2>3
  <2>. QED BY <2>4 DEF t
<1>3. CASE m.text[name] # None
  <2>. DEFINE x == AttrLine(name, m.text[name])
  <2>1. name # "rtpmap"
    BY DEF TextAttributes
  <2>2. x \in TextLines /\ x.key = "a" /\ x.name = name /\ x.value = m.text[name]
    BY <1>1, <2>1 DEF AttrLine, TextLines, Text
  <2>3. TextLine(m, name) = <<x>>
    BY <1>3 DEF TextLine
  <2>. HIDE DEF x
  <2>4. WithAttribute(s, x) = t
    BY <2>1, <2>2 DEF WithAttribute, WithText
  <2>. HIDE DEF t
  <2>5. t \in SdpSection /\ lines \o TextLine(m, name) \in Seq(TextLines)
        /\ ParseSdp(lines \o TextLine(m, name)) = Read(d, Append(done, t))
    BY <2>1, <2>2, <2>3, <2>4, AttributeRead
  <2>. QED BY <2>5 DEF t
<1>. QED BY <1>2, <1>3

\* The lines of the mapped payload types.
MapLines(m) == [k \in 1..Len(m.rtpmap) |-> RtpmapLine(m.rtpmap[k][1], m.rtpmap[k][2])]

\* They are a lines, as many as there are mapped types.
LEMMA MapLinesAre ==
  ASSUME NEW m \in SdpSection
  PROVE  /\ MapLines(m) \in Seq(TextLines) /\ Len(MapLines(m)) = Len(m.rtpmap)
         /\ \A k \in 1..Len(m.rtpmap) :
              LET x == MapLines(m)[k]
              IN  /\ x.key = "a" /\ x.name = "rtpmap" /\ x.pt \in Int
                  /\ <<x.pt, x.codec>> = m.rtpmap[k]
<1>. DEFINE n == Len(m.rtpmap)
            x(k) == RtpmapLine(m.rtpmap[k][1], m.rtpmap[k][2])
<1>1. m.rtpmap \in Seq(Int \X Text) /\ n \in Nat
  BY DEF SdpSection
<1>2. ASSUME NEW k \in 1..n
      PROVE  x(k) \in TextLines /\ x(k).key = "a" /\ x(k).name = "rtpmap" /\ x(k).pt \in Int
             /\ <<x(k).pt, x(k).codec>> = m.rtpmap[k]
  <2>1. m.rtpmap[k] \in Int \X Text
    BY <1>1
  <2>. QED BY <2>1 DEF RtpmapLine, TextLines
<1>. HIDE DEF x
<1>3. MapLines(m) = [k \in 1..n |-> x(k)]
  BY DEF MapLines, x
<1>. HIDE DEF n
<1>4. MapLines(m) \in Seq(TextLines) /\ Len(MapLines(m)) = n
  BY <1>1, <1>2, <1>3
<1>. QED BY <1>2, <1>3, <1>4 DEF n

\* They are read one by one.
LEMMA MapsRead ==
  ASSUME NEW d \in Description, NEW done \in Seq(SdpSection), NEW s \in SdpSection,
         NEW lines \in Seq(TextLines), ParseSdp(lines) = Read(d, Append(done, s)),
         NEW m \in SdpSection, s.rtpmap = <<>>
  PROVE  LET t == [s EXCEPT !.rtpmap = m.rtpmap]
         IN  ParseSdp(lines \o MapLines(m)) = Read(d, Append(done, t))
<1>. DEFINE n == Len(m.rtpmap)
            W == MapLines(m)
            part(k) == lines \o SubSeq(W, 1, k)
            sec(k) == [s EXCEPT !.rtpmap = SubSeq(m.rtpmap, 1, k)]
            Part(k) == part(k) \in Seq(TextLines) /\ ParseSdp(part(k)) = Read(d, Append(done, sec(k)))
            T == {k \in 0..n : Part(k)}
<1>1. m.rtpmap \in Seq(Int \X Text) /\ n \in Nat
  BY DEF SdpSection
<1>2. /\ W \in Seq(TextLines) /\ Len(W) = n
      /\ \A k \in 1..n : /\ W[k].key = "a" /\ W[k].name = "rtpmap" /\ W[k].pt \in Int
                         /\ <<W[k].pt, W[k].codec>> = m.rtpmap[k]
  BY MapLinesAre
<1>. HIDE DEF W
<1>3. 0 \in T
  <2>1. SubSeq(W, 1, 0) = <<>> /\ SubSeq(m.rtpmap, 1, 0) = <<>>
    BY <1>1, <1>2
  <2>2. part(0) = lines
    BY <2>1
  <2>3. sec(0) = s
    BY <2>1 DEF SdpSection
  <2>. HIDE DEF part, sec
  <2>4. Part(0)
    BY <2>2, <2>3
  <2>. HIDE DEF Part
  <2>. QED BY <1>1, <2>4
<1>4. \A k \in 0..n : k < n /\ k \in T => k + 1 \in T
  <2>. SUFFICES ASSUME NEW k \in 0..n, k < n, Part(k) PROVE Part(k + 1)
    <3>1. \A k \in 0..n : k < n => k + 1 \in 0..n
      BY <1>1
    <3>. HIDE DEF Part
    <3>. QED BY <3>1
  <2>. DEFINE x == W[k + 1]
  <2>1. /\ x \in TextLines /\ x.key = "a" /\ x.name = "rtpmap" /\ x.pt # NoNumber
        /\ <<x.pt, x.codec>> = m.rtpmap[k + 1]
    BY <1>1, <1>2, NoNumberAssumption
  <2>2. part(k + 1) = part(k) \o <<x>>
    <3>1. SubSeq(W, 1, k) \in Seq(TextLines) /\ SubSeq(W, 1, k + 1) = Append(SubSeq(W, 1, k), x)
      BY <1>1, <1>2, PrefixGrows
    <3>. DEFINE a == SubSeq(W, 1, k)
    <3>2. part(k + 1) = lines \o Append(a, x) /\ part(k) = lines \o a
      BY <3>1
    <3>. HIDE DEF a, x, part
    <3>3. a \in Seq(TextLines)
      BY <3>1 DEF a
    <3>4. lines \o Append(a, x) = (lines \o a) \o <<x>>
      BY <2>1, <3>3, SMTT(30)
    <3>. QED BY <3>2, <3>4
  <2>3. sec(k) \in SdpSection
    <3>1. SubSeq(m.rtpmap, 1, k) \in Seq(Int \X Text)
      BY <1>1
    <3>. QED BY <3>1 DEF SdpSection
  <2>4. WithAttribute(sec(k), x) = sec(k + 1)
    <3>1. SubSeq(m.rtpmap, 1, k + 1) = Append(SubSeq(m.rtpmap, 1, k), m.rtpmap[k + 1])
      BY <1>1
    <3>2. sec(k).rtpmap = SubSeq(m.rtpmap, 1, k)
      BY DEF SdpSection
    <3>3. WithAttribute(sec(k), x) = [sec(k) EXCEPT !.rtpmap = Append(sec(k).rtpmap, m.rtpmap[k + 1])]
      <4>. HIDE DEF sec
      <4>. QED BY <2>1 DEF WithAttribute
    <3>. QED BY <3>1, <3>2, <3>3 DEF SdpSection
  <2>. HIDE DEF part, sec, x
  <2>5. part(k) \in Seq(TextLines) /\ ParseSdp(part(k)) = Read(d, Append(done, sec(k)))
    OBVIOUS
  <2>6. part(k) \o <<x>> \in Seq(TextLines)
        /\ ParseSdp(part(k) \o <<x>>) = Read(d, Append(done, WithAttribute(sec(k), x)))
    BY <2>1, <2>3, <2>5, AttributeRead
  <2>. QED BY <2>2, <2>4, <2>6
<1>. HIDE DEF T
<1>5. 0..n \subseteq T
  BY <1>1, <1>3, <1>4, UpTo
<1>6. Part(n)
  <2>. HIDE DEF Part
  <2>. QED BY <1>1, <1>5 DEF T
<1>7. SubSeq(W, 1, n) = W /\ SubSeq(m.rtpmap, 1, n) = m.rtpmap
  BY <1>1, <1>2
<1>. QED BY <1>6, <1>7 DEF W

\* The m line.
LEMMA MediaLineRead ==
  ASSUME NEW d \in Description, NEW done \in Seq(SdpSection), NEW lines \in Seq(TextLines),
         ParseSdp(lines) = Read(d, done), NEW m \in SdpSection
  PROVE  LET s == MediaOf(MediaLine(m))
             more == lines \o <<MediaLine(m)>>
         IN  /\ s \in SdpSection /\ more \in Seq(TextLines)
             /\ ParseSdp(more) = Read(d, Append(done, s))
<1>. DEFINE x == MediaLine(m)
            now == [d EXCEPT !.media = done]
<1>1. x \in TextLines /\ x.key = "m"
  BY DEF SdpSection, MediaLine, TextLines, Text
<1>. HIDE DEF x
<1>2. MediaOf(x) \in SdpSection
  BY <1>1, LineKinds
<1>3. lines \o <<x>> = Append(lines, x) /\ Append(lines, x) \in Seq(TextLines)
      /\ ParseSdp(Append(lines, x)) = ReadLine(Read(d, done), x)
  BY <1>1, ConcatOne, ParseAppend
<1>4. AfterLine(now, x) = [now EXCEPT !.media = Append(done, MediaOf(x))]
  BY <1>1 DEF AfterLine, Description
<1>5. ReadLine(Read(d, done), x) = Read(d, Append(done, MediaOf(x)))
  <2>1. Read(d, done).thrown = FALSE /\ Read(d, done).sdp = now /\ ~Throws(now, x)
    BY <1>1 DEF Read, Throws
  <2>2. ReadLine(Read(d, done), x) = [Read(d, done) EXCEPT !.sdp = AfterLine(now, x)]
    BY <2>1 DEF ReadLine
  <2>. QED BY <1>4, <2>2 DEF Read
<1>. QED BY <1>2, <1>3, <1>5 DEF x

\* What comes back of a section.
Typed(m) == IF m.type = None THEN [m EXCEPT !.type = "0"] ELSE m

\* A whole section.
LEMMA SectionRead ==
  ASSUME NEW d \in Description, NEW done \in Seq(SdpSection), NEW lines \in Seq(TextLines),
         ParseSdp(lines) = Read(d, done), NEW m \in SdpSection
  PROVE  ParseSdp(WithMedia(lines, m)) = Read(d, Append(done, Typed(m))) /\ Typed(m) \in SdpSection
<1>. DEFINE l0 == lines \o <<MediaLine(m)>>
            l1 == l0 \o TextLine(m, "ice-ufrag")
            l2 == l1 \o TextLine(m, "ice-pwd")
            l3 == l2 \o TextLine(m, "fingerprint")
            l4 == l3 \o TextLine(m, "candidate")
            With(s, name) == WithText(s, name, m.text[name])
            s0 == MediaOf(MediaLine(m))
            s1 == With(s0, "ice-ufrag")
            s2 == With(s1, "ice-pwd")
            s3 == With(s2, "fingerprint")
            s4 == With(s3, "candidate")
            Good(l, s, got) ==
              /\ s \in SdpSection /\ l \in Seq(TextLines) /\ ParseSdp(l) = Read(d, Append(done, s))
              /\ s.type = Typed(m).type /\ s.port = m.port /\ s.proto = m.proto /\ s.fmts = m.fmts
              /\ s.rtpmap = <<>>
              /\ \A name \in TextAttributes : s.text[name] = IF name \in got THEN m.text[name] ELSE None
<1>1. {"ice-ufrag", "ice-pwd", "fingerprint", "candidate"} = TextAttributes
  BY DEF TextAttributes
<1>2. Good(l0, s0, {})
  <2>1. s0.rtpmap = <<>> /\ \A name \in TextAttributes : s0.text[name] = None
    BY DEF MediaOf
  <2>2. s0.type = Typed(m).type /\ s0.port = m.port /\ s0.proto = m.proto /\ s0.fmts = m.fmts
    BY DEF MediaOf, MediaLine, Typed, SdpSection
  <2>3. s0 \in SdpSection /\ l0 \in Seq(TextLines) /\ ParseSdp(l0) = Read(d, Append(done, s0))
    BY MediaLineRead
  <2>. HIDE DEF s0, l0
  <2>. QED BY <2>1, <2>2, <2>3
<1>. HIDE DEF l0, s0
<1>3. ASSUME NEW l, NEW s, NEW got, Good(l, s, got), NEW name \in TextAttributes, name \notin got
      PROVE  Good(l \o TextLine(m, name), With(s, name), got \cup {name})
  <2>1. s \in SdpSection /\ l \in Seq(TextLines) /\ ParseSdp(l) = Read(d, Append(done, s))
        /\ s.text[name] = None
    BY <1>3
  <2>2. With(s, name) \in SdpSection /\ l \o TextLine(m, name) \in Seq(TextLines)
        /\ ParseSdp(l \o TextLine(m, name)) = Read(d, Append(done, With(s, name)))
    BY <2>1, TextRead
  <2>3. s.text \in [TextAttributes -> Text]
    BY <2>1 DEF SdpSection
  <2>4. With(s, name).text = [s.text EXCEPT ![name] = m.text[name]]
        /\ With(s, name).type = s.type /\ With(s, name).port = s.port
        /\ With(s, name).proto = s.proto /\ With(s, name).fmts = s.fmts
        /\ With(s, name).rtpmap = s.rtpmap
    BY <2>1 DEF SdpSection, WithText
  <2>. HIDE DEF With
  <2>5. \A other \in TextAttributes :
          With(s, name).text[other] = IF other \in got \cup {name} THEN m.text[other] ELSE None
    BY <1>3, <2>3, <2>4
  <2>. QED BY <1>3, <2>2, <2>4, <2>5
<1>. HIDE DEF Good, With
<1>4. Good(l1, s1, {} \cup {"ice-ufrag"})
  BY <1>1, <1>2, <1>3
<1>. HIDE DEF l1, s1
<1>5. Good(l2, s2, {} \cup {"ice-ufrag"} \cup {"ice-pwd"})
  BY <1>1, <1>3, <1>4
<1>. HIDE DEF l2, s2
<1>6. Good(l3, s3, {} \cup {"ice-ufrag"} \cup {"ice-pwd"} \cup {"fingerprint"})
  BY <1>1, <1>3, <1>5
<1>. HIDE DEF l3, s3
<1>7. Good(l4, s4, {} \cup {"ice-ufrag"} \cup {"ice-pwd"} \cup {"fingerprint"} \cup {"candidate"})
  BY <1>1, <1>3, <1>6
<1>. HIDE DEF l4, s4
<1>. DEFINE s5 == [s4 EXCEPT !.rtpmap = m.rtpmap]
<1>8. ParseSdp(l4 \o MapLines(m)) = Read(d, Append(done, s5))
  BY <1>7, MapsRead DEF Good
<1>9. s5 = Typed(m) /\ Typed(m) \in SdpSection
  <2>1. \A name \in TextAttributes : s4.text[name] = m.text[name]
    BY <1>1, <1>7 DEF Good
  <2>2. s4.text \in [TextAttributes -> Text] /\ m.text \in [TextAttributes -> Text]
    BY <1>7 DEF Good, SdpSection
  <2>3. s4.text = m.text
    BY <2>1, <2>2
  <2>4. s4.type = Typed(m).type /\ s4.port = m.port /\ s4.proto = m.proto /\ s4.fmts = m.fmts
    BY <1>7 DEF Good
  <2>5. s4 \in SdpSection
    BY <1>7 DEF Good
  <2>6. s5 = [type |-> s4.type, port |-> s4.port, proto |-> s4.proto, fmts |-> s4.fmts,
              text |-> s4.text, rtpmap |-> m.rtpmap]
    <3>1. s4 = [type |-> s4.type, port |-> s4.port, proto |-> s4.proto, fmts |-> s4.fmts,
                text |-> s4.text, rtpmap |-> s4.rtpmap]
      BY <2>5 DEF SdpSection
    <3>. QED BY <3>1
  <2>7. m = [type |-> m.type, port |-> m.port, proto |-> m.proto, fmts |-> m.fmts,
             text |-> m.text, rtpmap |-> m.rtpmap]
    BY DEF SdpSection
  <2>8. Typed(m) = [type |-> Typed(m).type, port |-> m.port, proto |-> m.proto, fmts |-> m.fmts,
                    text |-> m.text, rtpmap |-> m.rtpmap]
    BY <2>7 DEF Typed
  <2>9. Typed(m).type \in Text
    BY DEF Typed, SdpSection, Text
  <2>10. Typed(m) \in SdpSection
    BY <2>8, <2>9 DEF SdpSection
  <2>. HIDE DEF s5
  <2>. QED BY <2>3, <2>4, <2>6, <2>8, <2>10
<1>10. WithMedia(lines, m) = l4 \o MapLines(m)
  BY DEF WithMedia, MapLines, l0, l1, l2, l3, l4
<1>. QED BY <1>8, <1>9, <1>10

\* The lines of a section are lines.
LEMMA WithMediaType ==
  ASSUME NEW lines \in Seq(TextLines), NEW m \in SdpSection
  PROVE  WithMedia(lines, m) \in Seq(TextLines)
<1>1. MediaLine(m) \in TextLines
  BY DEF SdpSection, MediaLine, TextLines, Text
<1>2. \A name \in TextAttributes : TextLine(m, name) \in Seq(TextLines)
  <2>. SUFFICES ASSUME NEW name \in TextAttributes PROVE TextLine(m, name) \in Seq(TextLines)
    OBVIOUS
  <2>1. m.text[name] \in Text /\ name # "rtpmap" /\ name \in Text
    BY DEF SdpSection, TextAttributes, Text
  <2>2. AttrLine(name, m.text[name]) \in TextLines
    BY <2>1 DEF AttrLine, TextLines
  <2>. QED BY <2>2 DEF TextLine
<1>3. {"ice-ufrag", "ice-pwd", "fingerprint", "candidate"} = TextAttributes
  BY DEF TextAttributes
<1>4. MapLines(m) \in Seq(TextLines)
  BY MapLinesAre
<1>5. <<MediaLine(m)>> \in Seq(TextLines)
  BY <1>1
<1>6. \A a, b \in Seq(TextLines) : a \o b \in Seq(TextLines)
  OBVIOUS
<1>7. WithMedia(lines, m) = lines \o <<MediaLine(m)>>
        \o TextLine(m, "ice-ufrag") \o TextLine(m, "ice-pwd")
        \o TextLine(m, "fingerprint") \o TextLine(m, "candidate") \o MapLines(m)
  BY DEF WithMedia, MapLines
<1>8. lines \o <<MediaLine(m)>> \in Seq(TextLines)
  BY <1>5, <1>6
<1>9. lines \o <<MediaLine(m)>> \o TextLine(m, "ice-ufrag") \o TextLine(m, "ice-pwd") \in Seq(TextLines)
  <2>1. lines \o <<MediaLine(m)>> \o TextLine(m, "ice-ufrag") \in Seq(TextLines)
    BY <1>2, <1>3, <1>6, <1>8
  <2>. QED BY <1>2, <1>3, <1>6, <2>1
<1>10. lines \o <<MediaLine(m)>> \o TextLine(m, "ice-ufrag") \o TextLine(m, "ice-pwd")
        \o TextLine(m, "fingerprint") \o TextLine(m, "candidate") \in Seq(TextLines)
  <2>1. lines \o <<MediaLine(m)>> \o TextLine(m, "ice-ufrag") \o TextLine(m, "ice-pwd")
          \o TextLine(m, "fingerprint") \in Seq(TextLines)
    BY <1>2, <1>3, <1>6, <1>9
  <2>. QED BY <1>2, <1>3, <1>6, <2>1
<1>. QED BY <1>4, <1>6, <1>7, <1>10

\* The lines before the sections.
HeadLines(d) == <<Line("v", d.v), Line("o", d.o), Line("s", d.s), Line("t", "0 0")>>

\* Four lines, one by one.
LEMMA FourLines ==
  ASSUME NEW a, NEW b, NEW c, NEW d
  PROVE  <<a, b, c, d>> = Append(Append(Append(Append(<<>>, a), b), c), d)
OBVIOUS

\* They are read first.
LEMMA HeadRead ==
  ASSUME NEW d \in Description
  PROVE  HeadLines(d) \in Seq(TextLines) /\ ParseSdp(HeadLines(d)) = Read(d, <<>>)
<1>. DEFINE v == Line("v", d.v)
            o == Line("o", d.o)
            s == Line("s", d.s)
            t == Line("t", "0 0")
            Has(line, key, value) == line \in TextLines /\ line.key = key /\ line.value = value
            r(a, b, c) == [thrown |-> FALSE, sdp |-> [v |-> a, o |-> b, s |-> c, media |-> <<>>]]
<1>1. d.v \in Text /\ d.o \in Text /\ d.s \in Text /\ "0 0" \in Text
  BY DEF Description, Text
<1>2. Has(v, "v", d.v) /\ Has(o, "o", d.o) /\ Has(s, "s", d.s) /\ Has(t, "t", "0 0")
  BY <1>1 DEF Line, TextLines
<1>3. HeadLines(d) = Append(Append(Append(Append(<<>>, v), o), s), t)
  <2>1. HeadLines(d) = <<v, o, s, t>>
    BY DEF HeadLines
  <2>. HIDE DEF v, o, s, t
  <2>. QED BY <2>1, FourLines
<1>. HIDE DEF v, o, s, t
<1>4. ParseSdp(<<>>) = r("0", None, "-") /\ <<>> \in Seq(TextLines)
  BY ParseNothing DEF NothingRead, EmptySdp
<1>5. \A a, b, c, x :
        /\ x.key = "v" => ReadLine(r(a, b, c), x) = r(x.value, b, c)
        /\ x.key = "o" => ReadLine(r(a, b, c), x) = r(a, x.value, c)
        /\ x.key = "s" => ReadLine(r(a, b, c), x) = r(a, b, x.value)
        /\ x.key = "t" => ReadLine(r(a, b, c), x) = r(a, b, c)
  <2>. SUFFICES ASSUME NEW a, NEW b, NEW c, NEW x, x.key \in {"v", "o", "s", "t"}
                PROVE  /\ x.key = "v" => ReadLine(r(a, b, c), x) = r(x.value, b, c)
                       /\ x.key = "o" => ReadLine(r(a, b, c), x) = r(a, x.value, c)
                       /\ x.key = "s" => ReadLine(r(a, b, c), x) = r(a, b, x.value)
                       /\ x.key = "t" => ReadLine(r(a, b, c), x) = r(a, b, c)
    <3>. HIDE DEF r
    <3>. QED OBVIOUS
  <2>. DEFINE q == r(a, b, c).sdp
  <2>1. ReadLine(r(a, b, c), x) = [thrown |-> FALSE, sdp |-> AfterLine(q, x)]
    <3>1. r(a, b, c).thrown = FALSE /\ ~Throws(q, x)
      BY DEF Throws
    <3>. QED BY <3>1 DEF ReadLine
  <2>2. /\ x.key = "v" => AfterLine(q, x) = [q EXCEPT !.v = x.value]
        /\ x.key = "o" => AfterLine(q, x) = [q EXCEPT !.o = x.value]
        /\ x.key = "s" => AfterLine(q, x) = [q EXCEPT !.s = x.value]
        /\ x.key = "t" => AfterLine(q, x) = q
    <3>. HIDE DEF q
    <3>. QED BY DEF AfterLine
  <2>. QED BY <2>1, <2>2
<1>6. ParseSdp(Append(<<>>, v)) = r(d.v, None, "-") /\ Append(<<>>, v) \in Seq(TextLines)
  <2>1. ParseSdp(Append(<<>>, v)) = ReadLine(r("0", None, "-"), v) /\ Append(<<>>, v) \in Seq(TextLines)
    BY <1>2, <1>4, ParseAppend
  <2>. HIDE DEF r
  <2>2. v.key = "v" /\ v.value = d.v
    BY <1>2
  <2>3. ReadLine(r("0", None, "-"), v) = r(v.value, None, "-")
    BY <1>5, <2>2
  <2>. QED BY <2>1, <2>2, <2>3
<1>. DEFINE a1 == Append(<<>>, v)
            a2 == Append(a1, o)
            a3 == Append(a2, s)
<1>. HIDE DEF a1, r
<1>7. ParseSdp(a2) = r(d.v, d.o, "-") /\ a2 \in Seq(TextLines)
  <2>1. ParseSdp(a2) = ReadLine(r(d.v, None, "-"), o) /\ a2 \in Seq(TextLines)
    BY <1>2, <1>6, ParseAppend DEF a1
  <2>2. o.key = "o" /\ o.value = d.o
    BY <1>2
  <2>3. ReadLine(r(d.v, None, "-"), o) = r(d.v, o.value, "-")
    BY <1>5, <2>2
  <2>. QED BY <2>1, <2>2, <2>3
<1>. HIDE DEF a2
<1>8. ParseSdp(a3) = r(d.v, d.o, d.s) /\ a3 \in Seq(TextLines)
  <2>1. ParseSdp(a3) = ReadLine(r(d.v, d.o, "-"), s) /\ a3 \in Seq(TextLines)
    BY <1>2, <1>7, ParseAppend
  <2>2. s.key = "s" /\ s.value = d.s
    BY <1>2
  <2>3. ReadLine(r(d.v, d.o, "-"), s) = r(d.v, d.o, s.value)
    BY <1>5, <2>2
  <2>. QED BY <2>1, <2>2, <2>3
<1>. HIDE DEF a3
<1>9. ParseSdp(Append(a3, t)) = r(d.v, d.o, d.s) /\ Append(a3, t) \in Seq(TextLines)
  <2>1. ParseSdp(Append(a3, t)) = ReadLine(r(d.v, d.o, d.s), t) /\ Append(a3, t) \in Seq(TextLines)
    BY <1>2, <1>8, ParseAppend
  <2>2. t.key = "t"
    BY <1>2
  <2>3. ReadLine(r(d.v, d.o, d.s), t) = r(d.v, d.o, d.s)
    BY <1>5, <2>2
  <2>. QED BY <2>1, <2>2, <2>3
<1>10. r(d.v, d.o, d.s) = Read(d, <<>>)
  <2>1. [d EXCEPT !.media = <<>>] = [v |-> d.v, o |-> d.o, s |-> d.s, media |-> <<>>]
    BY DEF Description
  <2>. QED BY <2>1 DEF Read, r
<1>. QED BY <1>3, <1>9, <1>10 DEF a1, a2, a3

\* The loop of serialize over the sections.
LEMMA WrittenRounds ==
  ASSUME NEW d \in Description
  PROVE  \E r \in [0..Len(d.media) -> Seq(TextLines)] :
           /\ r[0] = HeadLines(d) /\ \A k \in 1..Len(d.media) : r[k] = WithMedia(r[k - 1], d.media[k])
           /\ SerializeSdp(d) = r[Len(d.media)]
<1>. DEFINE n == Len(d.media)
            S == Seq(TextLines)
            base == HeadLines(d)
            Body(v, k) == WithMedia(v, d.media[k])
            Loop(r) == r = [k \in 0..n |-> IF k = 0 THEN base ELSE Body(r[k - 1], k)]
            step == [k \in 1..n |-> [v \in S |-> Body(v, k)]]
<1>1. n \in Nat
  BY DEF Description
<1>2. base \in S /\ \A k \in 1..n, v \in S : Body(v, k) \in S
  <2>1. \A k \in 1..n : d.media[k] \in SdpSection
    <3>1. d.media \in Seq(SdpSection)
      BY DEF Description
    <3>. QED BY <3>1
  <2>2. \A k \in 1..n, v \in S : WithMedia(v, d.media[k]) \in Seq(TextLines)
    BY <2>1, WithMediaType
  <2>. QED BY <2>2, HeadRead
<1>3. SerializeSdp(d) = (CHOOSE r : Loop(r))[n]
  BY DEF SerializeSdp, HeadLines
<1>. HIDE DEF n, S, base, Body
<1>4. step \in Steps(n, S)
  BY <1>2 DEF Steps
<1>5. Runs(n, S, base, step)
  <2>. HIDE DEF step
  <2>. QED BY <1>1, <1>2, <1>4, LoopRuns
<1>6. PICK s \in [0..n -> S] : s[0] = base /\ \A k \in 1..n : s[k] = step[k][s[k - 1]]
  BY <1>5 DEF Runs
<1>7. Loop(s)
  <2>1. \A k \in 1..n : s[k] = Body(s[k - 1], k)
    <3>. SUFFICES ASSUME NEW k \in 1..n PROVE s[k] = Body(s[k - 1], k)
      OBVIOUS
    <3>1. s[k - 1] \in S
      BY <1>1, <1>6
    <3>. QED BY <1>6, <3>1
  <2>2. \A k \in 0..n : s[k] = IF k = 0 THEN base ELSE Body(s[k - 1], k)
    <3>1. \A k \in 0..n : k = 0 \/ k \in 1..n
      BY <1>1
    <3>. SUFFICES ASSUME NEW k \in 0..n PROVE s[k] = IF k = 0 THEN base ELSE Body(s[k - 1], k)
      OBVIOUS
    <3>2. CASE k = 0
      BY <1>6, <3>2
    <3>3. CASE k \in 1..n
      <4>1. s[k] = Body(s[k - 1], k) /\ k # 0
        BY <1>1, <2>1, <3>3
      <4>. QED BY <4>1
    <3>. QED BY <3>1, <3>2, <3>3
  <2>. QED BY <2>2
<1>. DEFINE r == CHOOSE t : Loop(t)
<1>8. Loop(r)
  BY <1>7
<1>. HIDE DEF r
<1>9. \A k \in 0..n : r[k] = IF k = 0 THEN base ELSE Body(r[k - 1], k)
  BY <1>8, Zenon
<1>10. r[0] = base /\ \A k \in 1..n : r[k] = Body(r[k - 1], k)
  BY <1>1, <1>9
<1>11. \A k \in 0..n : r[k] \in S
  <2>. DEFINE T == {k \in 0..n : r[k] \in S}
  <2>1. 0 \in T
    BY <1>1, <1>2, <1>10
  <2>2. \A k \in 0..n : k < n /\ k \in T => k + 1 \in T
    <3>. SUFFICES ASSUME NEW k \in 0..n, k < n, k \in T PROVE k + 1 \in T
      OBVIOUS
    <3>1. k + 1 \in 1..n /\ (k + 1) - 1 = k /\ k + 1 \in 0..n
      BY <1>1
    <3>2. r[k + 1] = Body(r[k], k + 1)
      BY <1>10, <3>1
    <3>. QED BY <1>2, <3>1, <3>2
  <2>. HIDE DEF T
  <2>3. 0..n \subseteq T
    BY <1>1, <2>1, <2>2, UpTo
  <2>. QED BY <2>3 DEF T
<1>12. r \in [0..n -> S]
  <2>1. r = [k \in 0..n |-> r[k]]
    BY <1>8, Zenon
  <2>. QED BY <1>11, <2>1
<1>. QED BY <1>3, <1>10, <1>12 DEF n, S, base, Body, r

\* Whatever a description holds, it is read back as it was written, but for the
\* sections without a type.
LEMMA WrittenIsRead ==
  ASSUME NEW d \in Description
  PROVE  ParseSdp(SerializeSdp(d)) = [thrown |-> FALSE, sdp |-> ReadBack(d)]
<1>. DEFINE n == Len(d.media)
            back == [i \in 1..n |-> Typed(d.media[i])]
            done(k) == SubSeq(back, 1, k)
<1>1. d.media \in Seq(SdpSection) /\ n \in Nat /\ DOMAIN d.media = 1..n
  BY DEF Description
<1>2. PICK r \in [0..n -> Seq(TextLines)] :
        /\ r[0] = HeadLines(d) /\ \A k \in 1..n : r[k] = WithMedia(r[k - 1], d.media[k])
        /\ SerializeSdp(d) = r[n]
  BY WrittenRounds
<1>3. back \in Seq(SdpSection) /\ Len(back) = n /\ \A i \in 1..n : back[i] = Typed(d.media[i])
  <2>1. \A i \in 1..n : Typed(d.media[i]) \in SdpSection
    <3>. SUFFICES ASSUME NEW i \in 1..n PROVE Typed(d.media[i]) \in SdpSection
      OBVIOUS
    <3>1. d.media[i] \in SdpSection
      BY <1>1
    <3>. QED BY <3>1 DEF Typed, SdpSection, Text
  <2>. QED BY <1>1, <2>1
<1>4. back = ReadBack(d).media
  BY <1>1 DEF ReadBack, Typed, Description
<1>. HIDE DEF back
<1>. DEFINE T == {k \in 0..n : ParseSdp(r[k]) = Read(d, done(k))}
<1>5. 0 \in T
  <2>1. done(0) = <<>>
    BY <1>3
  <2>. HIDE DEF done
  <2>2. ParseSdp(r[0]) = Read(d, done(0))
    BY <1>2, <2>1, HeadRead
  <2>. QED BY <1>1, <2>2
<1>6. \A k \in 0..n : k < n /\ k \in T => k + 1 \in T
  <2>. SUFFICES ASSUME NEW k \in 0..n, k < n, k \in T PROVE k + 1 \in T
    OBVIOUS
  <2>1. k + 1 \in 0..n /\ k + 1 \in 1..n /\ (k + 1) - 1 = k
    BY <1>1
  <2>2. done(k) \in Seq(SdpSection) /\ d.media[k + 1] \in SdpSection
        /\ done(k + 1) = Append(done(k), Typed(d.media[k + 1]))
    BY <1>1, <1>3, <2>1, PrefixGrows
  <2>. HIDE DEF done
  <2>3. r[k] \in Seq(TextLines) /\ r[k + 1] = WithMedia(r[k], d.media[k + 1])
        /\ ParseSdp(r[k]) = Read(d, done(k))
    BY <1>2, <2>1
  <2>4. ParseSdp(WithMedia(r[k], d.media[k + 1])) = Read(d, Append(done(k), Typed(d.media[k + 1])))
    BY <2>2, <2>3, SectionRead
  <2>5. ParseSdp(r[k + 1]) = Read(d, done(k + 1))
    BY <2>2, <2>3, <2>4, Zenon
  <2>. QED BY <2>1, <2>5
<1>. HIDE DEF T
<1>7. 0..n \subseteq T
  BY <1>1, <1>5, <1>6, UpTo
<1>8. ParseSdp(r[n]) = Read(d, done(n)) /\ done(n) = back
  BY <1>1, <1>3, <1>7 DEF T
<1>9. [d EXCEPT !.media = back] = ReadBack(d)
  BY <1>4 DEF Description, ReadBack
<1>. QED BY <1>2, <1>8, <1>9 DEF Read

\* Only lines of a text are fed.
SdpInv == subject = "sdp" => input \in Seq(SdpLines)

\* Whatever stands in a text, and however many lines it has: parse throws if
\* and only if a section maps something that is no number; otherwise each
\* section holds what its own lines say, and the description is read back as it
\* is written, except that a section whose m line was empty comes back with the
\* type "0" (Sdp::parse, Sdp::serialize).
THEOREM SdpIsReadAsWritten == Spec => []SdpNormalForm
<1>1. Init => SubjectInv /\ SdpInv
  <2>1. <<>> \in Seq(SdpLines)
    OBVIOUS
  <2>. QED BY <2>1 DEF Init, SubjectInv, SdpInv
<1>2. SubjectInv /\ SdpInv /\ [Feed]_vars => (SubjectInv /\ SdpInv)'
  <2>. SUFFICES ASSUME SubjectInv, SdpInv, [Feed]_vars
                PROVE  SubjectInv' /\ SdpInv'
    OBVIOUS
  <2>1. CASE Feed
    <3>1. PICK x \in Inputs[subject] : input' = Append(input, x)
      BY <2>1 DEF Feed
    <3>2. subject' = subject
      BY <2>1 DEF Feed
    <3>3. CASE subject = "sdp"
      <4>1. input \in Seq(SdpLines) /\ x \in SdpLines
        BY <3>1, <3>3, InputsAssumption DEF SubjectInv, SdpInv
      <4>2. Append(input, x) \in Seq(SdpLines)
        BY <4>1
      <4>. QED BY <3>1, <3>2, <4>2 DEF SubjectInv, SdpInv
    <3>4. CASE subject # "sdp"
      BY <3>2, <3>4 DEF SubjectInv, SdpInv
    <3>. QED BY <3>3, <3>4
  <2>2. CASE UNCHANGED vars
    BY <2>2 DEF vars, SubjectInv, SdpInv
  <2>. QED BY <2>1, <2>2
<1>3. SdpInv => SdpNormalForm
  <2>. SUFFICES ASSUME SdpInv, subject = "sdp" PROVE SdpNormalForm
    BY DEF SdpNormalForm
  <2>. DEFINE r == ParseSdp(input)
  <2>1. input \in Seq(TextLines)
    BY LinesOfText DEF SdpInv
  <2>2. ReadInv(input, r)
    BY <2>1, LinesAreTold
  <2>. HIDE DEF r
  <2>3. r.thrown <=> BadMap(input)
    BY <2>2 DEF ReadInv
  <2>4. ~r.thrown => /\ Told(input, r.sdp)
                     /\ ParseSdp(SerializeSdp(r.sdp)) = [thrown |-> FALSE, sdp |-> ReadBack(r.sdp)]
    <3>1. ~r.thrown => r.sdp \in Description /\ Told(input, r.sdp)
      BY <2>2 DEF ReadInv, ReadState
    <3>. QED BY <3>1, WrittenIsRead
  <2>. QED BY <2>3, <2>4 DEF SdpNormalForm, Told, KeyLines, r
<1>. QED BY <1>1, <1>2, <1>3, PTL DEF Spec

-----------------------------------------------------------------------------
(* Sums.                                                                   *)

\* s holds the sums of the first numbers of f.
Sums(f, s) ==
  s \in [0..Len(f) -> Int] /\ s[0] = 0 /\ \A k \in 1..Len(f) : s[k] = s[k - 1] + f[k]

\* The loop adds one number after the other.
LEMMA TotalSums ==
  ASSUME NEW f \in Seq(Int)
  PROVE  \E s : Sums(f, s) /\ Total(f) = s[Len(f)]
<1>. DEFINE n == Len(f)
            Loop(s) == s = [k \in 0..n |-> IF k = 0 THEN 0 ELSE s[k - 1] + f[k]]
            step == [k \in 1..n |-> [v \in Int |-> v + f[k]]]
<1>1. n \in Nat /\ \A k \in 1..n : f[k] \in Int
  OBVIOUS
<1>2. Total(f) = (CHOOSE s : Loop(s))[n]
  BY DEF Total
<1>. HIDE DEF n
<1>3. step \in [1..n -> [Int -> Int]]
  BY <1>1
<1>4. \E s \in [0..n -> Int] : s[0] = 0 /\ \A k \in 1..n : s[k] = step[k][s[k - 1]]
  <2>1. step \in Steps(n, Int)
    BY <1>3 DEF Steps
  <2>. HIDE DEF step
  <2>2. n \in Nat /\ 0 \in Int
    BY <1>1
  <2>3. Runs(n, Int, 0, step)
    BY <2>1, <2>2, LoopRuns, ZenonT(30)
  <2>. QED BY <2>3 DEF Runs
<1>5. PICK s \in [0..n -> Int] : s[0] = 0 /\ \A k \in 1..n : s[k] = step[k][s[k - 1]]
  BY <1>4
<1>6. \A k \in 1..n : s[k] = s[k - 1] + f[k]
  <2>. SUFFICES ASSUME NEW k \in 1..n PROVE s[k] = s[k - 1] + f[k]
    OBVIOUS
  <2>1. k - 1 \in 0..n
    BY <1>1
  <2>. QED BY <1>1, <1>5, <2>1
<1>7. Loop(s)
  <2>1. \A k \in 0..n : s[k] = IF k = 0 THEN 0 ELSE s[k - 1] + f[k]
    BY <1>1, <1>5, <1>6
  <2>. QED BY <2>1
<1>. DEFINE r == CHOOSE t : Loop(t)
<1>8. Loop(r)
  BY <1>7
<1>. HIDE DEF r
<1>9. \A k \in 0..n : r[k] = IF k = 0 THEN 0 ELSE r[k - 1] + f[k]
  BY <1>8, Zenon
<1>10. r[0] = 0 /\ \A k \in 1..n : r[k] = r[k - 1] + f[k]
  BY <1>1, <1>9
<1>11. DOMAIN r = 0..n
  BY <1>8, Zenon
<1>12. \A k \in 0..n : r[k] \in Int
  <2>. DEFINE T == {k \in 0..n : r[k] \in Int}
  <2>1. 0 \in T
    BY <1>1, <1>10
  <2>2. ASSUME NEW k \in 0..n, k < n, k \in T PROVE k + 1 \in T
    <3>1. k + 1 \in 1..n /\ (k + 1) - 1 = k /\ k + 1 \in 0..n
      BY <1>1, <2>2
    <3>2. r[k + 1] = r[k] + f[k + 1]
      BY <1>10, <3>1
    <3>. QED BY <1>1, <2>2, <3>1, <3>2
  <2>3. 0..n \subseteq T
    <3>. HIDE DEF T
    <3>. QED BY <1>1, <2>1, <2>2, UpTo
  <2>. QED BY <2>3
<1>13. r \in [0..n -> Int]
  <2>1. r = [k \in 0..n |-> r[k]]
    BY <1>8, <1>11, Zenon
  <2>. QED BY <1>12, <2>1
<1>. QED BY <1>2, <1>10, <1>13 DEF Sums, n, r

\* The first terms of two sequences that agree on them have the same sums.
LEMMA SumsAgree ==
  ASSUME NEW f \in Seq(Int), NEW g \in Seq(Int), NEW s, NEW t, Sums(f, s), Sums(g, t),
         NEW n \in Nat, n <= Len(f), n <= Len(g), \A k \in 1..n : f[k] = g[k]
  PROVE  s[n] = t[n] /\ s[n] \in Int
<1>. DEFINE T == {k \in 0..n : s[k] = t[k]}
<1>1. 0 \in T
  BY DEF Sums
<1>2. ASSUME NEW k \in 0..n, k < n, k \in T PROVE k + 1 \in T
  <2>1. k + 1 \in 1..n /\ k + 1 \in 1..Len(f) /\ k + 1 \in 1..Len(g) /\ (k + 1) - 1 = k
        /\ k + 1 \in 0..n
    BY <1>2
  <2>2. s[k + 1] = s[k] + f[k + 1] /\ t[k + 1] = t[k] + g[k + 1]
    BY <2>1 DEF Sums
  <2>. QED BY <1>2, <2>1, <2>2
<1>3. 0..n \subseteq T
  <2>. HIDE DEF T
  <2>. QED BY <1>1, <1>2, UpTo
<1>4. n \in T
  BY <1>3
<1>5. n \in 0..Len(f)
  OBVIOUS
<1>. QED BY <1>4, <1>5 DEF Sums

\* The sum of nothing.
LEMMA TotalType ==
  ASSUME NEW f \in Seq(Int)
  PROVE  Total(f) \in Int /\ (Len(f) = 0 => Total(f) = 0)
<1>1. PICK s : Sums(f, s) /\ Total(f) = s[Len(f)]
  BY TotalSums
<1>2. Len(f) \in Nat /\ Len(f) \in 0..Len(f)
  OBVIOUS
<1>. QED BY <1>1, <1>2 DEF Sums

\* The sum of one number more.
LEMMA TotalNext ==
  ASSUME NEW f \in Seq(Int), NEW g \in Seq(Int), Len(f) = Len(g) + 1,
         \A k \in 1..Len(g) : f[k] = g[k]
  PROVE  Total(f) = Total(g) + f[Len(f)]
<1>1. PICK s : Sums(f, s) /\ Total(f) = s[Len(f)]
  BY TotalSums
<1>2. PICK t : Sums(g, t) /\ Total(g) = t[Len(g)]
  BY TotalSums
<1>3. Len(g) \in Nat /\ Len(g) <= Len(f) /\ Len(g) <= Len(g)
  OBVIOUS
<1>4. s[Len(g)] = t[Len(g)]
  <2>. DEFINE n == Len(g)
  <2>1. n \in Nat /\ n <= Len(f) /\ n <= Len(g) /\ \A k \in 1..n : f[k] = g[k]
    BY <1>3
  <2>. HIDE DEF n
  <2>2. s[n] = t[n]
    BY <1>1, <1>2, <2>1, SumsAgree
  <2>. QED BY <2>2 DEF n
<1>5. Len(f) \in 1..Len(f) /\ Len(f) - 1 = Len(g)
  BY <1>3
<1>6. s[Len(f)] = s[Len(g)] + f[Len(f)]
  BY <1>1, <1>5 DEF Sums
<1>. QED BY <1>1, <1>2, <1>4, <1>6

-----------------------------------------------------------------------------
(* The slope.                                                              *)

\* The sums a slope is made of, over the first m samples of w.
PlaceSum(m) == Total([k \in 1..m |-> k])
SampleSum(w, m) == Total([k \in 1..m |-> w[k]])
MixedSum(w, m) == Total([k \in 1..m |-> k * w[k]])

\* One sample more.
LEMMA SlopeSums ==
  ASSUME NEW n \in Nat, NEW w \in [1..n -> Int], NEW m \in 0..n
  PROVE  /\ PlaceSum(m) \in Int /\ SampleSum(w, m) \in Int /\ MixedSum(w, m) \in Int
         /\ m = 0 => PlaceSum(m) = 0 /\ SampleSum(w, m) = 0 /\ MixedSum(w, m) = 0
         /\ m > 0 => /\ PlaceSum(m) = PlaceSum(m - 1) + m
                     /\ SampleSum(w, m) = SampleSum(w, m - 1) + w[m]
                     /\ MixedSum(w, m) = MixedSum(w, m - 1) + m * w[m]
<1>. DEFINE p(j) == [k \in 1..j |-> k]
            s(j) == [k \in 1..j |-> w[k]]
            x(j) == [k \in 1..j |-> k * w[k]]
<1>1. \A k \in 1..m : w[k] \in Int /\ k * w[k] \in Int
  OBVIOUS
<1>2. \A j \in 0..m : /\ p(j) \in Seq(Int) /\ Len(p(j)) = j /\ \A k \in 1..j : p(j)[k] = k
                      /\ s(j) \in Seq(Int) /\ Len(s(j)) = j /\ \A k \in 1..j : s(j)[k] = w[k]
                      /\ x(j) \in Seq(Int) /\ Len(x(j)) = j /\ \A k \in 1..j : x(j)[k] = k * w[k]
  BY <1>1
<1>3. PlaceSum(m) = Total(p(m)) /\ SampleSum(w, m) = Total(s(m)) /\ MixedSum(w, m) = Total(x(m))
      /\ PlaceSum(m - 1) = Total(p(m - 1)) /\ SampleSum(w, m - 1) = Total(s(m - 1))
      /\ MixedSum(w, m - 1) = Total(x(m - 1))
  BY DEF PlaceSum, SampleSum, MixedSum
<1>. HIDE DEF p, s, x
<1>4. /\ PlaceSum(m) \in Int /\ SampleSum(w, m) \in Int /\ MixedSum(w, m) \in Int
      /\ m = 0 => PlaceSum(m) = 0 /\ SampleSum(w, m) = 0 /\ MixedSum(w, m) = 0
  <2>1. m \in 0..m
    OBVIOUS
  <2>. QED BY <1>2, <1>3, <2>1, TotalType
<1>5. ASSUME m > 0
      PROVE  /\ PlaceSum(m) = PlaceSum(m - 1) + m
             /\ SampleSum(w, m) = SampleSum(w, m - 1) + w[m]
             /\ MixedSum(w, m) = MixedSum(w, m - 1) + m * w[m]
  <2>1. m \in 0..m /\ m - 1 \in 0..m /\ m = (m - 1) + 1 /\ m \in 1..m
        /\ \A k \in 1..(m - 1) : k \in 1..m
    BY <1>5
  <2>2. Total(p(m)) = Total(p(m - 1)) + m
    <3>1. /\ p(m) \in Seq(Int) /\ p(m - 1) \in Seq(Int)
          /\ Len(p(m)) = m /\ Len(p(m - 1)) = m - 1 /\ Len(p(m)) = Len(p(m - 1)) + 1
          /\ \A k \in 1..(m - 1) : p(m)[k] = p(m - 1)[k]
      BY <1>2, <2>1
    <3>2. Total(p(m)) = Total(p(m - 1)) + p(m)[Len(p(m))]
      BY <3>1, TotalNext
    <3>. QED BY <1>2, <2>1, <3>1, <3>2
  <2>3. Total(s(m)) = Total(s(m - 1)) + w[m]
    <3>1. /\ s(m) \in Seq(Int) /\ s(m - 1) \in Seq(Int)
          /\ Len(s(m)) = m /\ Len(s(m - 1)) = m - 1 /\ Len(s(m)) = Len(s(m - 1)) + 1
          /\ \A k \in 1..(m - 1) : s(m)[k] = s(m - 1)[k]
      BY <1>2, <2>1
    <3>2. Total(s(m)) = Total(s(m - 1)) + s(m)[Len(s(m))]
      BY <3>1, TotalNext
    <3>. QED BY <1>2, <2>1, <3>1, <3>2
  <2>4. Total(x(m)) = Total(x(m - 1)) + m * w[m]
    <3>1. /\ x(m) \in Seq(Int) /\ x(m - 1) \in Seq(Int)
          /\ Len(x(m)) = m /\ Len(x(m - 1)) = m - 1 /\ Len(x(m)) = Len(x(m - 1)) + 1
          /\ \A k \in 1..(m - 1) : x(m)[k] = x(m - 1)[k]
      BY <1>2, <2>1
    <3>2. Total(x(m)) = Total(x(m - 1)) + x(m)[Len(x(m))]
      BY <3>1, TotalNext
    <3>. QED BY <1>2, <2>1, <3>1, <3>2
  <2>. QED BY <1>3, <2>2, <2>3, <2>4
<1>. QED BY <1>4, <1>5

\* The polynomial behind the next lemma.
LEMMA ProductOfSums ==
  ASSUME NEW a \in Int, NEW b \in Int, NEW c \in Int, NEW d \in Int,
         NEW x \in Int, NEW y \in Int, NEW z \in Int, NEW m \in Int, NEW v \in Int
  PROVE  a * c * z + a * d * x + b * c * y + b * d * m + (a * (m + 1) + b) * (c * v + d)
           = a * c * (z + (m + 1) * v) + a * d * (x + (m + 1)) + b * c * (y + v) + b * d * (m + 1)
OBVIOUS

Samples(n) == [1..n -> Int]

\* The terms of g are products of a linear term of the place and one of the
\* sample.
AreProducts(g, n, w, a, b, c, d) ==
  g \in Samples(n) /\ \A k \in 1..n : g[k] = (a * k + b) * (c * w[k] + d)

\* A sum of products of two linear terms, one of the place and one of the sample.
LEMMA SumOfProducts ==
  ASSUME NEW len \in Nat, NEW w \in Samples(len), NEW n \in 0..len,
         NEW a \in Int, NEW b \in Int, NEW c \in Int, NEW d \in Int,
         NEW g, AreProducts(g, n, w, a, b, c, d)
  PROVE  Total(g) = a * c * MixedSum(w, n) + a * d * PlaceSum(n)
                      + b * c * SampleSum(w, n) + b * d * n
<1>. DEFINE h(m) == [k \in 1..m |-> g[k]]
            Result(m) == a * c * MixedSum(w, m) + a * d * PlaceSum(m)
                           + b * c * SampleSum(w, m) + b * d * m
            T == {m \in 0..n : Total(h(m)) = Result(m)}
<1>0. /\ n \in Nat /\ g \in [1..n -> Int] /\ w \in [1..len -> Int]
      /\ \A k \in 1..n : g[k] = (a * k + b) * (c * w[k] + d)
  BY DEF AreProducts, Samples
<1>1. \A m \in 0..n : /\ h(m) \in Seq(Int) /\ Len(h(m)) = m
                      /\ \A k \in 1..m : h(m)[k] = g[k]
  BY <1>0
<1>2. h(n) = g
  BY <1>0
<1>. HIDE DEF h
<1>3. 0 \in T
  <2>1. Total(h(0)) = 0
    BY <1>1, TotalType
  <2>2. 0 \in 0..n /\ 0 \in 0..len
    OBVIOUS
  <2>3. PlaceSum(0) = 0 /\ SampleSum(w, 0) = 0 /\ MixedSum(w, 0) = 0
    BY <1>0, <2>2, SlopeSums
  <2>. QED BY <2>1, <2>2, <2>3
<1>4. ASSUME NEW m \in 0..n, m < n, m \in T PROVE m + 1 \in T
  <2>. DEFINE z == MixedSum(w, m)
              x == PlaceSum(m)
              y == SampleSum(w, m)
              v == w[m + 1]
  <2>1. m + 1 \in 0..n /\ m + 1 \in 1..n /\ m + 1 \in 0..len /\ m \in 0..len /\ m + 1 \in 1..len /\ (m + 1) - 1 = m /\ m + 1 \in 1..(m + 1) /\ m \in Int
        /\ \A k \in 1..m : k \in 1..(m + 1)
    BY <1>4
  <2>2. x \in Int /\ y \in Int /\ z \in Int /\ v \in Int
    BY <1>0, <2>1, SlopeSums
  <2>3. PlaceSum(m + 1) = x + (m + 1) /\ SampleSum(w, m + 1) = y + v
        /\ MixedSum(w, m + 1) = z + (m + 1) * v
    <3>. DEFINE i == m + 1
    <3>1. i \in 0..len /\ i > 0 /\ i - 1 = m
      BY <2>1
    <3>. HIDE DEF i
    <3>2. PlaceSum(i) = PlaceSum(i - 1) + i /\ SampleSum(w, i) = SampleSum(w, i - 1) + w[i]
          /\ MixedSum(w, i) = MixedSum(w, i - 1) + i * w[i]
      BY <1>0, <3>1, SlopeSums
    <3>. QED BY <3>1, <3>2 DEF i
  <2>4. Total(h(m + 1)) = Total(h(m)) + g[m + 1]
    <3>1. /\ h(m + 1) \in Seq(Int) /\ h(m) \in Seq(Int)
          /\ Len(h(m + 1)) = m + 1 /\ Len(h(m)) = m /\ Len(h(m + 1)) = Len(h(m)) + 1
          /\ \A k \in 1..m : h(m + 1)[k] = h(m)[k]
      BY <1>1, <2>1
    <3>2. Total(h(m + 1)) = Total(h(m)) + h(m + 1)[Len(h(m + 1))]
      BY <3>1, TotalNext
    <3>. QED BY <1>1, <2>1, <3>1, <3>2
  <2>5. Total(h(m)) = a * c * z + a * d * x + b * c * y + b * d * m
    BY <1>4
  <2>6. g[m + 1] = (a * (m + 1) + b) * (c * v + d)
    BY <1>0, <2>1
  <2>. HIDE DEF x, y, z, v
  <2>7. Total(h(m + 1)) = a * c * (z + (m + 1) * v) + a * d * (x + (m + 1)) + b * c * (y + v)
                            + b * d * (m + 1)
    BY <2>1, <2>2, <2>4, <2>5, <2>6, ProductOfSums
  <2>8. Total(h(m + 1)) = Result(m + 1)
    BY <2>3, <2>7
  <2>. QED BY <2>1, <2>8
<1>5. 0..n \subseteq T
  <2>1. \A m \in 0..n : m < n /\ m \in T => m + 1 \in T
    BY <1>4
  <2>. HIDE DEF T
  <2>. QED BY <1>3, <2>1, UpTo
<1>. QED BY <1>2, <1>5

\* The polynomial behind the next lemma.
LEMMA PairsOfOneMore ==
  ASSUME NEW x \in Int, NEW y \in Int, NEW z \in Int, NEW m \in Int, NEW v \in Int
  PROVE  m * z - x * y + ((-1) * (-1) * z + (-1) * v * x + (m + 1) * (-1) * y + (m + 1) * v * m)
           = (m + 1) * (z + (m + 1) * v) - (x + (m + 1)) * (y + v)
OBVIOUS

\* The sum over the pairs of one sample and those before it.
PairsWith(w, j) == Total([i \in 1..(j - 1) |-> (j - i) * (w[j] - w[i])])

\* The pairs of delay j with those before it, by three sums.
LEMMA PairsWithIs ==
  ASSUME NEW n \in Nat, NEW w \in [1..n -> Int], NEW j \in 1..n
  PROVE  PairsWith(w, j) = (-1) * (-1) * MixedSum(w, j - 1) + (-1) * w[j] * PlaceSum(j - 1)
                             + j * (-1) * SampleSum(w, j - 1) + j * w[j] * (j - 1)
<1>. DEFINE g == [i \in 1..(j - 1) |-> (j - i) * (w[j] - w[i])]
            m == j - 1
            v == w[j]
<1>1. m \in 0..n /\ -1 \in Int /\ j \in Int /\ v \in Int /\ \A i \in 1..m : w[i] \in Int
  OBVIOUS
<1>2. g \in [1..m -> Int]
  BY <1>1
<1>3. \A i \in 1..m : g[i] = (-1 * i + j) * (-1 * w[i] + v)
  <2>. SUFFICES ASSUME NEW i \in 1..m PROVE g[i] = (-1 * i + j) * (-1 * w[i] + v)
    OBVIOUS
  <2>1. g[i] = (j - i) * (v - w[i])
    OBVIOUS
  <2>2. j - i = -1 * i + j /\ v - w[i] = -1 * w[i] + v
    BY <1>1
  <2>. QED BY <2>1, <2>2
<1>4. PairsWith(w, j) = Total(g)
  BY DEF PairsWith
<1>. DEFINE a == -1
<1>6. a \in Int /\ a = -1 /\ AreProducts(g, m, w, a, j, a, v) /\ w \in Samples(n)
  BY <1>2, <1>3 DEF AreProducts, Samples
<1>. HIDE DEF g, m, v, a
<1>7. Total(g) = a * a * MixedSum(w, m) + a * v * PlaceSum(m) + j * a * SampleSum(w, m) + j * v * m
  BY <1>1, <1>2, <1>6, SumOfProducts
<1>5. Total(g) = (-1) * (-1) * MixedSum(w, m) + (-1) * v * PlaceSum(m)
                   + j * (-1) * SampleSum(w, m) + j * v * m
  BY <1>6, <1>7
<1>. QED BY <1>4, <1>5 DEF m, v

\* The sum over all pairs, in terms of the sums.
LEMMA PairsAre ==
  ASSUME NEW n \in Nat, NEW w \in [1..n -> Int]
  PROVE  Total([j \in 1..n |-> PairsWith(w, j)])
           = n * MixedSum(w, n) - PlaceSum(n) * SampleSum(w, n)
<1>. DEFINE h(m) == [j \in 1..m |-> PairsWith(w, j)]
            Result(m) == m * MixedSum(w, m) - PlaceSum(m) * SampleSum(w, m)
            T == {m \in 0..n : Total(h(m)) = Result(m)}
<1>1. \A j \in 1..n : PairsWith(w, j) \in Int
  <2>. SUFFICES ASSUME NEW j \in 1..n PROVE PairsWith(w, j) \in Int
    OBVIOUS
  <2>. DEFINE m == j - 1
              v == w[j]
              x == PlaceSum(m)
              y == SampleSum(w, m)
              z == MixedSum(w, m)
  <2>1. m \in 0..n
    OBVIOUS
  <2>2. PairsWith(w, j) = (-1) * (-1) * z + (-1) * v * x + j * (-1) * y + j * v * m
    BY PairsWithIs
  <2>3. m \in Int /\ j \in Int /\ v \in Int
    OBVIOUS
  <2>. HIDE DEF m
  <2>4. x \in Int /\ y \in Int /\ z \in Int
    BY <2>1, SlopeSums
  <2>. HIDE DEF v, x, y, z
  <2>. QED BY <2>2, <2>3, <2>4
<1>2. \A m \in 0..n : /\ h(m) \in Seq(Int) /\ Len(h(m)) = m
                      /\ \A k \in 1..m : h(m)[k] = PairsWith(w, k)
  BY <1>1
<1>. HIDE DEF h
<1>3. 0 \in T
  <2>1. 0 \in 0..n
    OBVIOUS
  <2>2. Total(h(0)) = 0
    BY <1>2, <2>1, TotalType
  <2>3. PlaceSum(0) = 0 /\ SampleSum(w, 0) = 0 /\ MixedSum(w, 0) = 0
    BY <2>1, SlopeSums
  <2>. QED BY <2>1, <2>2, <2>3
<1>4. ASSUME NEW m \in 0..n, m < n, m \in T PROVE m + 1 \in T
  <2>. DEFINE i == m + 1
              z == MixedSum(w, m)
              x == PlaceSum(m)
              y == SampleSum(w, m)
              v == w[i]
  <2>1. i \in 0..n /\ i \in 1..n /\ i > 0 /\ i - 1 = m /\ m \in Int /\ i = m + 1
    BY <1>4
  <2>2. Total(h(m)) = m * z - x * y
    BY <1>4
  <2>. HIDE DEF i
  <2>3. v \in Int
    BY <2>1
  <2>4. x \in Int /\ y \in Int /\ z \in Int
    BY SlopeSums
  <2>5. PlaceSum(i) = PlaceSum(i - 1) + i /\ SampleSum(w, i) = SampleSum(w, i - 1) + w[i]
        /\ MixedSum(w, i) = MixedSum(w, i - 1) + i * w[i]
    BY <2>1, SlopeSums
  <2>6. PairsWith(w, i) = (-1) * (-1) * MixedSum(w, i - 1) + (-1) * w[i] * PlaceSum(i - 1)
                            + i * (-1) * SampleSum(w, i - 1) + i * w[i] * (i - 1)
    BY <2>1, PairsWithIs
  <2>7. Total(h(i)) = Total(h(m)) + PairsWith(w, i)
    <3>1. /\ h(i) \in Seq(Int) /\ h(m) \in Seq(Int)
          /\ Len(h(i)) = i /\ Len(h(m)) = m /\ Len(h(i)) = Len(h(m)) + 1
          /\ \A k \in 1..m : h(i)[k] = h(m)[k]
      <4>1. \A k \in 1..m : k \in 1..i
        BY <2>1
      <4>. QED BY <1>2, <2>1, <4>1
    <3>2. Total(h(i)) = Total(h(m)) + h(i)[Len(h(i))]
      BY <3>1, TotalNext
    <3>3. i \in 1..i
      BY <2>1
    <3>. QED BY <1>2, <2>1, <3>1, <3>2, <3>3
  <2>8. Result(i) = i * (z + i * v) - (x + i) * (y + v)
    BY <2>1, <2>5
  <2>9. PairsWith(w, i) = (-1) * (-1) * z + (-1) * v * x + i * (-1) * y + i * v * m
    BY <2>1, <2>6
  <2>. HIDE DEF x, y, z, v, Result
  <2>10. Total(h(i)) = m * z - x * y
                         + ((-1) * (-1) * z + (-1) * v * x + (m + 1) * (-1) * y + (m + 1) * v * m)
    BY <2>1, <2>2, <2>7, <2>9
  <2>11. Total(h(i)) = (m + 1) * (z + (m + 1) * v) - (x + (m + 1)) * (y + v)
    BY <2>1, <2>3, <2>4, <2>10, PairsOfOneMore
  <2>. QED BY <2>1, <2>8, <2>11
<1>5. 0..n \subseteq T
  <2>1. \A m \in 0..n : m < n /\ m \in T => m + 1 \in T
    BY <1>4
  <2>. HIDE DEF T
  <2>. QED BY <1>3, <2>1, UpTo
<1>. QED BY <1>5 DEF h

\* The sums by definition and by pairs differ by the factor n, which the code
\* divides by and Num and Den do not.
LEMMA SumOverPairs ==
  ASSUME NEW n \in Nat, NEW w \in Samples(n),
         NEW g, AreProducts(g, n, w, n, -PlaceSum(n), n, -SampleSum(w, n))
  PROVE  Total(g) = n * Total([j \in 1..n |-> PairsWith(w, j)])
<1>. DEFINE x == PlaceSum(n)
            y == SampleSum(w, n)
            z == MixedSum(w, n)
            a == -x
            b == -y
<1>1. w \in [1..n -> Int] /\ n \in 0..n /\ n \in Int
  BY DEF Samples
<1>2. x \in Int /\ y \in Int /\ z \in Int
  BY <1>1, SlopeSums
<1>3. Total([j \in 1..n |-> PairsWith(w, j)]) = n * z - x * y
  BY <1>1, PairsAre
<1>4. AreProducts(g, n, w, n, a, n, b)
  OBVIOUS
<1>5. a = -x /\ b = -y
  OBVIOUS
<1>. HIDE DEF a, b
<1>6. a \in Int /\ b \in Int
  BY <1>2, <1>5
<1>7. Total(g) = n * n * z + n * b * x + a * n * y + a * b * n
  BY <1>1, <1>4, <1>6, SumOfProducts
<1>. HIDE DEF x, y, z
<1>8. Total(g) = n * n * z + n * (-y) * x + (-x) * n * y + (-x) * (-y) * n
  BY <1>5, <1>7
<1>9. n * n * z + n * (-y) * x + (-x) * n * y + (-x) * (-y) * n = n * (n * z - x * y)
  BY <1>1, <1>2
<1>. QED BY <1>3, <1>8, <1>9

\* A factor above 0 changes no comparison.
LEMMA Scaled ==
  ASSUME NEW n \in Nat, n > 0, NEW p \in Int, NEW q \in Int
  PROVE  2 * (n * p) > n * q <=> 2 * p > q
<1>1. CASE 2 * p > q
  <2>1. n * (2 * p - q) > 0
    BY <1>1
  <2>. QED BY <1>1, <2>1
<1>2. CASE 2 * p <= q
  <2>1. n * (2 * p - q) <= 0
    BY <1>2
  <2>. QED BY <1>2, <2>1
<1>. QED BY <1>1, <1>2

\* The state compute_trendline leads to is that of the slope by pairs.
LEMMA StateIsTrend ==
  ASSUME NEW w \in Seq(Int), Len(w) > 0
  PROVE  StateFor(w) = TrendState(w)
<1>. DEFINE n == Len(w)
            id == [k \in 1..n |-> k]
            num == Total([j \in 1..n |-> PairsWith(w, j)])
            den == Total([j \in 1..n |-> PairsWith(id, j)])
<1>1. n \in Nat /\ n > 0 /\ w \in Samples(n) /\ id \in Samples(n) /\ w = [k \in 1..n |-> w[k]]
  BY DEF Samples
<1>2. PlaceSum(n) \in Int /\ SampleSum(w, n) \in Int /\ SampleSum(id, n) = PlaceSum(n)
  <2>1. SampleSum(id, n) = PlaceSum(n)
    BY DEF SampleSum, PlaceSum
  <2>2. n \in 0..n /\ w \in [1..n -> Int]
    BY <1>1 DEF Samples
  <2>. HIDE DEF n
  <2>. QED BY <1>1, <2>1, <2>2, SlopeSums
<1>3. num \in Int /\ den \in Int
  <2>. SUFFICES ASSUME NEW v \in Samples(n)
                PROVE  Total([j \in 1..n |-> PairsWith(v, j)]) \in Int
    BY <1>1
  <2>1. v \in [1..n -> Int] /\ n \in 0..n
    BY <1>1 DEF Samples
  <2>. HIDE DEF n
  <2>2. Total([j \in 1..n |-> PairsWith(v, j)]) = n * MixedSum(v, n) - PlaceSum(n) * SampleSum(v, n)
    BY <1>1, <2>1, PairsAre
  <2>3. MixedSum(v, n) \in Int /\ PlaceSum(n) \in Int /\ SampleSum(v, n) \in Int
    BY <1>1, <2>1, SlopeSums
  <2>. QED BY <1>1, <2>2, <2>3
<1>4. Num(w) = n * num
  <2>. DEFINE xs == PlaceSum(n)
              ys == SampleSum(w, n)
              g == [k \in 1..n |-> (n * k - xs) * (n * w[k] - ys)]
  <2>1. Num(w) = Total(g)
    BY <1>1 DEF Num, PlaceSum, SampleSum
  <2>2. \A k \in 1..n : w[k] \in Int
    OBVIOUS
  <2>. HIDE DEF n, xs, ys
  <2>3. xs \in Int /\ ys \in Int
    BY <1>2 DEF xs, ys
  <2>4. g \in [1..n -> Int]
    BY <1>1, <2>2, <2>3
  <2>5. \A k \in 1..n : g[k] = (n * k + (-xs)) * (n * w[k] + (-ys))
    <3>. SUFFICES ASSUME NEW k \in 1..n PROVE g[k] = (n * k + (-xs)) * (n * w[k] + (-ys))
      OBVIOUS
    <3>. DEFINE nk == n * k
                nw == n * w[k]
    <3>1. nk \in Int /\ nw \in Int
      BY <1>1, <2>2
    <3>2. g[k] = (nk - xs) * (nw - ys)
      OBVIOUS
    <3>. HIDE DEF nk, nw
    <3>3. nk - xs = nk + (-xs) /\ nw - ys = nw + (-ys)
      BY <2>3, <3>1
    <3>. QED BY <3>2, <3>3 DEF nk, nw
  <2>6. AreProducts(g, n, w, n, -xs, n, -ys)
    BY <2>4, <2>5 DEF AreProducts, Samples
  <2>. HIDE DEF g
  <2>7. Total(g) = n * Total([j \in 1..n |-> PairsWith(w, j)])
    BY <1>1, <2>6, SumOverPairs DEF xs, ys
  <2>. QED BY <2>1, <2>7
<1>5. Den(w) = n * den
  <2>. DEFINE xs == PlaceSum(n)
              g == [k \in 1..n |-> (n * k - xs) * (n * k - xs)]
  <2>1. Den(w) = Total(g)
    BY DEF Den, PlaceSum
  <2>2. \A k \in 1..n : id[k] = k
    OBVIOUS
  <2>. HIDE DEF n, xs, id
  <2>3. xs \in Int /\ SampleSum(id, n) = xs
    BY <1>2 DEF xs
  <2>4. g \in [1..n -> Int]
    BY <1>1, <2>3
  <2>5. \A k \in 1..n : g[k] = (n * k + (-xs)) * (n * id[k] + (-xs))
    <3>. SUFFICES ASSUME NEW k \in 1..n PROVE g[k] = (n * k + (-xs)) * (n * id[k] + (-xs))
      OBVIOUS
    <3>. DEFINE nk == n * k
    <3>1. nk \in Int /\ n * id[k] = nk
      BY <1>1, <2>2
    <3>2. g[k] = (nk - xs) * (nk - xs)
      OBVIOUS
    <3>. HIDE DEF nk
    <3>3. nk - xs = nk + (-xs)
      BY <2>3, <3>1
    <3>4. g[k] = (nk + (-xs)) * (n * id[k] + (-xs))
      BY <3>1, <3>2, <3>3
    <3>. QED BY <3>4 DEF nk
  <2>6. AreProducts(g, n, id, n, -xs, n, -xs)
    BY <2>4, <2>5 DEF AreProducts, Samples
  <2>. HIDE DEF g
  <2>7. Total(g) = n * Total([j \in 1..n |-> PairsWith(id, j)])
    BY <1>1, <2>3, <2>6, SumOverPairs DEF xs
  <2>. QED BY <2>1, <2>7
<1>6. PairSum(w, LAMBDA i, j : (j - i) * (w[j] - w[i])) = num
  BY DEF PairSum, PairsWith
<1>7. PairSum(w, LAMBDA i, j : (j - i) * (j - i)) = den
  <2>1. \A j \in 1..n : \A i \in 1..(j - 1) : id[j] = j /\ id[i] = i
    OBVIOUS
  <2>2. \A j \in 1..n : Total([i \in 1..(j - 1) |-> (j - i) * (j - i)]) = PairsWith(id, j)
    <3>. SUFFICES ASSUME NEW j \in 1..n
                  PROVE  Total([i \in 1..(j - 1) |-> (j - i) * (j - i)]) = PairsWith(id, j)
      OBVIOUS
    <3>. HIDE DEF id
    <3>1. [i \in 1..(j - 1) |-> (j - i) * (j - i)] = [i \in 1..(j - 1) |-> (j - i) * (id[j] - id[i])]
      BY <2>1
    <3>. QED BY <3>1 DEF PairsWith
  <2>. HIDE DEF id
  <2>3. PairSum(w, LAMBDA i, j : (j - i) * (j - i))
          = Total([j \in 1..n |-> Total([i \in 1..(j - 1) |-> (j - i) * (j - i)])])
    BY DEF PairSum
  <2>4. [j \in 1..n |-> Total([i \in 1..(j - 1) |-> (j - i) * (j - i)])]
          = [j \in 1..n |-> PairsWith(id, j)]
    BY <2>2
  <2>. QED BY <2>3, <2>4
<1>8. TrendState(w) = IF 2 * num > den THEN "Overuse" ELSE IF 2 * num < -den THEN "Underuse"
                      ELSE "Normal"
  BY <1>6, <1>7 DEF TrendState
<1>9. StateFor(w) = IF 2 * (n * num) > n * den THEN "Overuse"
                    ELSE IF 2 * (n * num) < -(n * den) THEN "Underuse" ELSE "Normal"
  BY <1>4, <1>5 DEF StateFor
<1>. HIDE DEF n, num, den
<1>10. 2 * (n * num) > n * den <=> 2 * num > den
  BY <1>1, <1>3, Scaled
<1>11. 2 * (n * num) < -(n * den) <=> 2 * num < -den
  <2>. DEFINE p == -num
  <2>1. p \in Int /\ num = -p
    BY <1>3
  <2>. HIDE DEF p
  <2>2. 2 * (n * p) > n * den <=> 2 * p > den
    BY <1>1, <1>3, <2>1, Scaled
  <2>3. n * num = -(n * p) /\ n * p \in Int /\ n * den \in Int
    BY <1>1, <1>3, <2>1
  <2>4. 2 * num < -den <=> 2 * p > den
    BY <1>3, <2>1
  <2>5. 2 * (n * num) < -(n * den) <=> 2 * (n * p) > n * den
    BY <2>3
  <2>. QED BY <2>2, <2>4, <2>5
<1>. QED BY <1>8, <1>9, <1>10, <1>11

-----------------------------------------------------------------------------
(* The GccEstimator.                                                       *)

\* The last delays, as many as the window holds.
Window(e) == SubSeq(e, Larger(Len(e) - TrendlineWin, 0) + 1, Len(e))

\* The place in e of the last delay in front of the window.
Before(n) == IF n > TrendlineWin THEN n - TrendlineWin ELSE 0

\* The window counted from its first delay.
LEMMA WindowIs ==
  ASSUME NEW e \in Seq(Int)
  PROVE  /\ Window(e) \in Seq(Int) /\ Len(Window(e)) = Len(e) - Before(Len(e))
         /\ \A k \in 1..(Len(e) - Before(Len(e))) : Window(e)[k] = e[Before(Len(e)) + k]
<1>. DEFINE n == Len(e)
            b == Before(n)
<1>1. n \in Nat /\ TrendlineWin \in Nat
  BY TrendlineWinAssumption
<1>. HIDE DEF n
<1>2. b \in 0..n /\ Larger(n - TrendlineWin, 0) = b
  BY <1>1 DEF Larger, Before
<1>3. Window(e) = SubSeq(e, b + 1, n)
  BY <1>2 DEF Window, n
<1>. HIDE DEF b
<1>4. b + 1 \in 1..(n + 1) /\ n \in b..n
  BY <1>1, <1>2
<1>5. \A k \in (b + 1)..n : k \in 1..n
  BY <1>1, <1>2
<1>6. SubSeq(e, b + 1, n) \in Seq(Int) /\ Len(SubSeq(e, b + 1, n)) = n - b
      /\ \A k \in 1..(n - b) : SubSeq(e, b + 1, n)[k] = e[b + k]
  <2>1. SubSeq(e, b + 1, n) = [k \in 1..(n - b) |-> e[b + k]]
    BY <1>1, <1>2 DEF n
  <2>2. \A k \in 1..(n - b) : e[b + k] \in Int
    <3>1. \A k \in 1..(n - b) : b + k \in 1..n
      BY <1>1, <1>2
    <3>. QED BY <3>1 DEF n
  <2>3. n - b \in Nat
    BY <1>1, <1>2
  <2>. DEFINE m == n - b
              g == [k \in 1..m |-> e[b + k]]
  <2>. HIDE DEF m
  <2>4. g \in [1..m -> Int] /\ m \in Nat
    BY <2>2, <2>3 DEF m
  <2>5. g \in Seq(Int) /\ Len(g) = m
    BY <2>4, SeqDef
  <2>. QED BY <2>1, <2>5 DEF m
<1>. QED BY <1>3, <1>6 DEF n, b

\* One delay more pushes the oldest out of a full window.
LEMMA WindowMoves ==
  ASSUME NEW e \in Seq(Int), NEW x \in Int
  PROVE  Buffered(Window(e), x) = Window(Append(e, x))
<1>. DEFINE f == Append(e, x)
            n == Len(e)
            u == Window(e)
            v == Window(f)
            b == Before(n)
            c == Before(n + 1)
<1>1. f \in Seq(Int) /\ Len(f) = n + 1 /\ n \in Nat /\ f[n + 1] = x
      /\ \A k \in 1..n : f[k] = e[k] /\ e[k] \in Int
  OBVIOUS
<1>2. u \in Seq(Int) /\ Len(u) = n - b /\ \A k \in 1..(n - b) : u[k] = e[b + k]
  BY WindowIs
<1>3. v \in Seq(Int) /\ Len(v) = n + 1 - c /\ \A k \in 1..(n + 1 - c) : v[k] = f[c + k]
  <2>. DEFINE m == n + 1
  <2>1. Len(f) = m
    BY <1>1
  <2>. HIDE DEF f, m
  <2>2. v \in Seq(Int) /\ Len(v) = m - Before(m) /\ \A k \in 1..(m - Before(m)) : v[k] = f[Before(m) + k]
    BY <1>1, <2>1, WindowIs
  <2>3. m = n + 1 /\ m \in Nat
    BY <1>1 DEF m
  <2>4. Before(m) \in Int
    BY <2>3, TrendlineWinAssumption DEF Before
  <2>5. m - Before(m) = n + 1 - c
    BY <1>1, <2>3, <2>4
  <2>. QED BY <2>2, <2>3, <2>5
<1>4. TrendlineWin \in Nat \ {0}
  BY TrendlineWinAssumption
<1>. HIDE DEF f, n, u, v
<1>5. CASE n < TrendlineWin
  <2>1. b = 0 /\ c = 0
    BY <1>1, <1>4, <1>5 DEF Before
  <2>2. Buffered(u, x) = Append(u, x)
    BY <1>1, <1>2, <1>5, <2>1 DEF Buffered
  <2>3. Len(Append(u, x)) = n + 1 /\ \A k \in 1..(n + 1) : Append(u, x)[k] = v[k]
    <3>1. Len(Append(u, x)) = n + 1
      BY <1>1, <1>2, <2>1
    <3>2. Len(u) = n /\ \A k \in 1..n : u[k] = e[k]
      BY <1>1, <1>2, <2>1
    <3>3. Len(v) = n + 1 /\ \A k \in 1..(n + 1) : v[k] = f[k]
      <4>. HIDE DEF c
      <4>1. n + 1 - c = n + 1
        BY <1>1, <2>1
      <4>2. \A k \in 1..(n + 1) : c + k = k
        BY <2>1
      <4>. QED BY <1>3, <4>1, <4>2
    <3>4. Append(u, x)[n + 1] = x /\ \A k \in 1..n : Append(u, x)[k] = u[k]
      BY <1>1, <1>2, <3>2
    <3>5. ASSUME NEW k \in 1..(n + 1) PROVE Append(u, x)[k] = v[k]
      <4>1. CASE k = n + 1
        BY <1>1, <3>3, <3>4, <4>1
      <4>2. CASE k # n + 1
        <5>1. k \in 1..n
          BY <1>1, <4>2
        <5>. QED BY <1>1, <3>2, <3>3, <3>4, <5>1
      <4>. QED BY <4>1, <4>2
    <3>. QED BY <3>1, <3>5
  <2>4. Len(v) = n + 1
    BY <1>1, <1>3, <2>1
  <2>5. Append(u, x) \in Seq(Int)
    BY <1>2
  <2>6. Append(u, x) = v
    BY <1>3, <2>3, <2>4, <2>5, SeqEqual
  <2>. QED BY <2>2, <2>6 DEF u, v, f
<1>6. CASE n >= TrendlineWin
  <2>. DEFINE w == TrendlineWin
  <2>1. b = n - w /\ c = n + 1 - w /\ w \in Nat \ {0}
    BY <1>1, <1>4, <1>6 DEF Before
  <2>2. Buffered(u, x) = Append(Tail(u), x)
    BY <1>1, <1>2, <1>6, <2>1 DEF Buffered
  <2>. HIDE DEF w, b, c
  <2>3. Len(u) = w /\ Len(v) = w /\ b \in Nat /\ c = b + 1 /\ n = b + w
    BY <1>1, <1>2, <1>3, <1>6, <2>1 DEF w
  <2>4. Tail(u) \in Seq(Int) /\ Len(Tail(u)) = w - 1
        /\ \A k \in 1..(w - 1) : Tail(u)[k] = u[k + 1]
    <3>1. u # <<>>
      BY <1>2, <2>1, <2>3
    <3>. QED BY <1>2, <2>1, <2>3, <3>1, HeadTailProperties
  <2>. DEFINE t == Tail(u)
              q == Append(t, x)
  <2>. HIDE DEF t
  <2>5. q \in Seq(Int) /\ Len(q) = w /\ q[w] = x /\ \A k \in 1..(w - 1) : q[k] = t[k]
    BY <2>1, <2>4 DEF t
  <2>. HIDE DEF q
  <2>6. ASSUME NEW k \in 1..w PROVE q[k] = v[k]
    <3>1. v[k] = f[c + k]
      BY <1>3, <2>3
    <3>2. CASE k = w
      BY <1>1, <2>1, <2>3, <2>5, <3>1, <3>2
    <3>3. CASE k # w
      <4>1. k \in 1..(w - 1) /\ k + 1 \in 1..w /\ c + k \in 1..n /\ b + (k + 1) = c + k
        BY <2>1, <2>3, <3>3
      <4>2. q[k] = u[k + 1]
        BY <2>4, <2>5, <4>1 DEF t
      <4>3. u[k + 1] = e[b + (k + 1)]
        BY <1>2, <2>1, <2>3, <4>1
      <4>. QED BY <1>1, <3>1, <4>1, <4>2, <4>3
    <3>. QED BY <3>2, <3>3
  <2>7. q = v
    BY <1>3, <2>3, <2>5, <2>6, SeqEqual
  <2>. QED BY <2>2, <2>7 DEF u, v, f, q, t
<1>. QED BY <1>1, <1>4, <1>5, <1>6

\* The least rate in a state: outside an overuse the estimate has been raised
\* since the last cut.
LeastRate(state) == IF state = "Overuse" THEN LowestRate ELSE 666666

\* The state after the delays e.
StateAfter(e) == IF Len(e) < 4 THEN "Normal" ELSE TrendState(Window(e))

\* An estimator that was given the delays e.
TrendKept(e, est) ==
  /\ est.buf = Window(e)
  /\ est.state = StateAfter(e)
  /\ est.bps \in Int
  /\ est.bps >= LeastRate(est.state)

\* The inductive invariant.
TrendInv ==
  subject = "delays" => input \in Seq(Int) /\ TrendKept(input, object)

\* One cut from 666666 or more leaves 566666; one raise leads back.
LEMMA RateStep ==
  ASSUME NEW prev \in States, NEW state \in States, NEW bps \in Int,
         bps >= LeastRate(prev)
  PROVE  /\ RateAfter(prev, state, bps) \in Int
         /\ RateAfter(prev, state, bps) >= LeastRate(state)
<1>. USE DEF LowestRate, LeastRate
<1>1. CASE state # "Overuse"
  BY <1>1 DEF RateAfter
<1>2. CASE state = "Overuse" /\ prev = "Overuse"
  BY <1>2 DEF RateAfter
<1>3. CASE state = "Overuse" /\ prev # "Overuse"
  <2>1. bps * 17 >= 11333322
    BY <1>3
  <2>2. (bps * 17) \div 20 >= 566666
    BY <2>1
  <2>3. RateAfter(prev, state, bps) = Larger((bps * 17) \div 20, 50000)
    BY <1>3 DEF RateAfter
  <2>. QED BY <1>3, <2>2, <2>3 DEF Larger
<1>. QED BY <1>1, <1>2, <1>3

\* Only the three states occur.
LEMMA StatesOnly ==
  ASSUME NEW e PROVE StateAfter(e) \in States
<1>1. \A w : TrendState(w) \in States
  BY DEF TrendState, States
<1>. QED BY <1>1 DEF StateAfter, States

\* One delay.
LEMMA DelayKeeps ==
  ASSUME NEW e \in Seq(Int), NEW est, NEW x \in Int, TrendKept(e, est)
  PROVE  TrendKept(Append(e, x), OnPacketArrival(est, x))
<1>. DEFINE f == Append(e, x)
            w == Window(f)
            state == IF Len(w) < 4 THEN est.state ELSE StateFor(w)
            bps == IF Len(w) < 4 THEN est.bps ELSE RateAfter(est.state, state, est.bps)
            a == OnPacketArrival(est, x)
<1>1. /\ est.buf = Window(e) /\ est.state = StateAfter(e)
      /\ est.bps \in Int /\ est.bps >= LeastRate(est.state)
  BY DEF TrendKept
<1>2. Buffered(est.buf, x) = w
  BY <1>1, WindowMoves
<1>3. a.buf = w /\ a.state = state /\ a.bps = bps
  BY <1>2 DEF OnPacketArrival
<1>4. f \in Seq(Int) /\ Len(f) = Len(e) + 1 /\ Len(e) \in Nat
  OBVIOUS
<1>5. w \in Seq(Int) /\ (Len(w) < 4 <=> Len(f) < 4)
  <2>. DEFINE n == Len(f)
  <2>1. w \in Seq(Int) /\ Len(w) = n - Before(n)
    BY <1>4, WindowIs
  <2>2. n \in Nat
    BY <1>4
  <2>. HIDE DEF n
  <2>3. n - Before(n) < 4 <=> n < 4
    BY <2>2, TrendlineWinAssumption DEF Before
  <2>. QED BY <2>1, <2>3 DEF n
<1>6. est.state \in States /\ StateAfter(f) \in States
  BY <1>1, StatesOnly
<1>. HIDE DEF a, f
<1>7. state = StateAfter(f)
  <2>. HIDE DEF w
  <2>1. CASE Len(f) < 4
    <3>1. Len(e) < 4
      BY <1>4, <2>1
    <3>. QED BY <1>1, <1>5, <2>1, <3>1 DEF StateAfter
  <2>2. CASE ~(Len(f) < 4)
    <3>1. Len(w) > 0
      BY <1>5, <2>2
    <3>2. StateFor(w) = TrendState(w)
      BY <1>5, <3>1, StateIsTrend
    <3>. QED BY <1>5, <2>2, <3>2 DEF StateAfter, w
  <2>. QED BY <2>1, <2>2
<1>8. bps \in Int /\ bps >= LeastRate(state)
  <2>1. CASE Len(w) < 4
    BY <1>1, <2>1
  <2>2. CASE ~(Len(w) < 4)
    <3>1. bps = RateAfter(est.state, state, est.bps)
      BY <2>2
    <3>2. state \in States
      BY <1>6, <1>7
    <3>. HIDE DEF bps, state
    <3>. QED BY <1>1, <1>6, <3>1, <3>2, RateStep
  <2>. QED BY <2>1, <2>2
<1>. HIDE DEF state, bps
<1>9. TrendKept(f, a)
  BY <1>3, <1>7, <1>8 DEF TrendKept, w
<1>. QED BY <1>9 DEF f, a

\* Whatever the delays and the size of the window: the state is that of the
\* slope of the last delays, what was dropped leaves no trace, and the estimate
\* stays at 566666 bps or more, since an overuse is cut once and leaving it
\* raises the estimate before the next cut; the floor of 50000 in the code is
\* never met (on_packet_arrival, compute_trendline).
THEOREM EstimateFollowsTrend == Spec => []RateFollowsTrend
<1>1. Init => SubjectInv /\ TrendInv
  <2>. SUFFICES ASSUME Init, subject = "delays"
                PROVE  input \in Seq(Int) /\ TrendKept(input, object)
    BY DEF Init, SubjectInv, TrendInv
  <2>1. input = <<>> /\ object = EstimatorInit
    BY DEF Init, Fresh
  <2>2. <<>> \in Seq(Int) /\ Len(<<>>) = 0
    OBVIOUS
  <2>3. Window(<<>>) = <<>>
    <3>0. Before(0) = 0
      BY TrendlineWinAssumption DEF Before
    <3>1. 0 - Before(0) = 0
      BY <3>0
    <3>2. Window(<<>>) \in Seq(Int) /\ Len(Window(<<>>)) = 0
      BY <2>2, <3>1, WindowIs
    <3>. QED BY <3>2
  <2>4. StateAfter(<<>>) = "Normal"
    BY <2>2 DEF StateAfter
  <2>. QED BY <2>1, <2>2, <2>3, <2>4 DEF TrendKept, EstimatorInit, LeastRate
<1>2. SubjectInv /\ TrendInv /\ [Feed]_vars => (SubjectInv /\ TrendInv)'
  <2>. SUFFICES ASSUME SubjectInv, TrendInv, [Feed]_vars
                PROVE  SubjectInv' /\ TrendInv'
    OBVIOUS
  <2>1. subject' = subject
    BY DEF Feed, vars
  <2>2. SubjectInv'
    BY <2>1 DEF SubjectInv
  <2>3. CASE Feed /\ subject = "delays"
    <3>1. PICK x \in Inputs["delays"] :
            input' = Append(input, x) /\ object' = OnPacketArrival(object, x)
      BY <2>3 DEF Feed, Advanced
    <3>2. x \in Int
      BY <2>3, InputsAssumption DEF SubjectInv
    <3>3. input \in Seq(Int) /\ TrendKept(input, object)
      BY <2>3 DEF TrendInv
    <3>4. input' \in Seq(Int)
      BY <3>1, <3>2, <3>3
    <3>5. TrendKept(input', object')
      BY <3>1, <3>2, <3>3, DelayKeeps
    <3>. QED BY <2>2, <3>4, <3>5 DEF TrendInv
  <2>4. CASE subject # "delays"
    BY <2>1, <2>2, <2>4 DEF TrendInv
  <2>5. CASE UNCHANGED vars
    BY <2>2, <2>5 DEF TrendInv, vars
  <2>. QED BY <2>3, <2>4, <2>5
<1>3. SubjectInv /\ TrendInv => RateFollowsTrend
  <2>. SUFFICES ASSUME TrendInv, subject = "delays" PROVE RateFollowsTrend
    BY DEF RateFollowsTrend
  <2>1. TrendKept(input, object)
    BY DEF TrendInv
  <2>2. object.bps >= LowestRate
    BY <2>1 DEF TrendKept, LeastRate, LowestRate
  <2>3. object.state = StateAfter(input)
    BY <2>1 DEF TrendKept
  <2>. QED BY <2>2, <2>3 DEF RateFollowsTrend, StateAfter, Window
<1>. QED BY <1>1, <1>2, <1>3, PTL DEF Spec

-----------------------------------------------------------------------------
(* The packets of the JitterBuffer: when they arrived.                     *)

Event == Nat \cup Pops

\* The first place of an item.
LEMMA ArrivalIs ==
  ASSUME NEW e \in Seq(Event), NEW x \in ToSet(e)
  PROVE  /\ ArrivalOf(e, x) \in 1..Len(e) /\ e[ArrivalOf(e, x)] = x
         /\ \A k \in 1..Len(e) : e[k] = x => ArrivalOf(e, x) <= k
<1>. DEFINE K == {k \in DOMAIN e : e[k] = x}
<1>1. K \in SUBSET Nat /\ K # {} /\ DOMAIN e = 1..Len(e)
  BY DEF ToSet
<1>2. Min(K) \in K /\ \A y \in K : Min(K) <= y
  <2>. HIDE DEF K
  <2>. QED BY <1>1, Smallest
<1>. QED BY <1>1, <1>2 DEF ArrivalOf

\* One more event does not change when the others arrived, and comes last.
LEMMA ArrivalAppend ==
  ASSUME NEW e \in Seq(Event), NEW x \in Event
  PROVE  /\ \A y \in ToSet(e) : ArrivalOf(Append(e, x), y) = ArrivalOf(e, y)
                                /\ ArrivalOf(e, y) \in 1..Len(e)
         /\ x \notin ToSet(e) => ArrivalOf(Append(e, x), x) = Len(e) + 1
<1>. DEFINE f == Append(e, x)
<1>1. /\ f \in Seq(Event) /\ Len(f) = Len(e) + 1 /\ Len(e) \in Nat
      /\ \A k \in 1..Len(e) : f[k] = e[k]
      /\ f[Len(e) + 1] = x
      /\ ToSet(f) = ToSet(e) \cup {x}
  BY ToSetAppend
<1>. HIDE DEF f
<1>2. ASSUME NEW y \in ToSet(e)
      PROVE  ArrivalOf(f, y) = ArrivalOf(e, y) /\ ArrivalOf(e, y) \in 1..Len(e)
  <2>. DEFINE a == ArrivalOf(e, y)
              b == ArrivalOf(f, y)
  <2>1. a \in 1..Len(e) /\ e[a] = y /\ \A k \in 1..Len(e) : e[k] = y => a <= k
    BY ArrivalIs
  <2>2. b \in 1..Len(f) /\ f[b] = y /\ \A k \in 1..Len(f) : f[k] = y => b <= k
    BY <1>1, ArrivalIs
  <2>. HIDE DEF a, b
  <2>3. a \in 1..Len(f) /\ f[a] = y
    BY <1>1, <2>1
  <2>4. b <= a
    BY <2>2, <2>3
  <2>5. b \in 1..Len(e) /\ e[b] = y
    BY <1>1, <2>1, <2>2, <2>4
  <2>6. a = b
    BY <2>1, <2>4, <2>5
  <2>. QED BY <2>1, <2>6 DEF a, b
<1>3. ASSUME x \notin ToSet(e) PROVE ArrivalOf(f, x) = Len(e) + 1
  <2>. DEFINE b == ArrivalOf(f, x)
  <2>1. b \in 1..Len(f) /\ f[b] = x
    BY <1>1, ArrivalIs
  <2>. HIDE DEF b
  <2>2. \A k \in 1..Len(e) : e[k] # x
    BY <1>3 DEF ToSet
  <2>3. b = Len(e) + 1
    BY <1>1, <2>1, <2>2
  <2>. QED BY <2>3 DEF b
<1>. QED BY <1>2, <1>3 DEF f

-----------------------------------------------------------------------------
(* The packets of the JitterBuffer: the inductive invariant.               *)

\* What arrived waits or was handed out.
Accounted(e, buf, out) == ToSet(e) \ Pops = buf \cup ToSet(out)

\* A packet that was handed out while one with a lower number waits arrived
\* before that one; and so for two that were handed out.
LateOnesOvertaken(e, buf, out) ==
  ArriveOnce(e) =>
    /\ buf \cap ToSet(out) = {}
    /\ \A y \in ToSet(out), z \in buf : z < y => ArrivalOf(e, y) < ArrivalOf(e, z)
    /\ \A i, j \in DOMAIN out :
         i < j /\ out[i] > out[j] => ArrivalOf(e, out[i]) < ArrivalOf(e, out[j])

\* As long as no call is due a packet is handed out only when more than Limit
\* have arrived that are not before it.
PushedOut(e, out) ==
  DuePop \notin ToSet(e) =>
    \A y \in ToSet(out) : Cardinality({t \in ToSet(e) : t >= y}) > Limit

InOrder(buf, out) ==
  /\ \A i, j \in DOMAIN out : i < j => out[i] < out[j]
  /\ \A y \in ToSet(out), z \in buf : y < z

HardlyOvertaken(e) ==
  /\ ArriveOnce(e) /\ DuePop \notin ToSet(e)
  /\ \A s \in ToSet(e) \ Pops : Cardinality(Ahead(e, s)) <= Limit

WaitingInv(e, buf, out) ==
  /\ buf \in SUBSET Nat /\ IsFiniteSet(buf) /\ out \in Seq(Nat)
  /\ Accounted(e, buf, out) /\ LateOnesOvertaken(e, buf, out) /\ PushedOut(e, out)
  /\ HardlyOvertaken(e) => InOrder(buf, out)

\* Everything that held of the events so far still does when one more came.
LEMMA OneMoreEvent ==
  ASSUME NEW e \in Seq(Event), NEW x \in Event
  PROVE  /\ ArriveOnce(Append(e, x)) =>
              ArriveOnce(e) /\ (x \notin Pops => x \notin ToSet(e))
         /\ HardlyOvertaken(Append(e, x)) => HardlyOvertaken(e)
<1>. DEFINE f == Append(e, x)
<1>1. /\ f \in Seq(Event) /\ Len(f) = Len(e) + 1 /\ Len(e) \in Nat
      /\ \A k \in 1..Len(e) : f[k] = e[k]
      /\ f[Len(e) + 1] = x
      /\ ToSet(f) = ToSet(e) \cup {x}
      /\ DOMAIN f = 1..(Len(e) + 1) /\ DOMAIN e = 1..Len(e)
  BY ToSetAppend
<1>2. /\ \A y \in ToSet(e) : ArrivalOf(f, y) = ArrivalOf(e, y) /\ ArrivalOf(e, y) \in 1..Len(e)
      /\ x \notin ToSet(e) => ArrivalOf(f, x) = Len(e) + 1
  BY ArrivalAppend
<1>. HIDE DEF f
<1>3. ASSUME ArriveOnce(f)
      PROVE  ArriveOnce(e) /\ (x \notin Pops => x \notin ToSet(e))
  <2>1. ArriveOnce(e)
    BY <1>1, <1>3 DEF ArriveOnce
  <2>2. ASSUME x \notin Pops, x \in ToSet(e) PROVE FALSE
    <3>1. PICK k \in 1..Len(e) : e[k] = x
      BY <1>1, <2>2, Zenon DEF ToSet
    <3>2. k # Len(e) + 1 /\ f[k] = f[Len(e) + 1] /\ k \in DOMAIN f /\ Len(e) + 1 \in DOMAIN f
      BY <1>1, <3>1
    <3>. QED BY <1>1, <1>3, <2>2, <3>1, <3>2 DEF ArriveOnce
  <2>. QED BY <2>1, <2>2
<1>4. ASSUME HardlyOvertaken(f) PROVE HardlyOvertaken(e)
  <2>1. ArriveOnce(f) /\ DuePop \notin ToSet(f)
    BY <1>4 DEF HardlyOvertaken
  <2>2. x \in Pops \/ x \notin ToSet(e)
    BY <1>3, <2>1
  <2>3. ASSUME NEW s \in ToSet(e) \ Pops PROVE Cardinality(Ahead(e, s)) <= Limit
    <3>1. Ahead(f, s) = Ahead(e, s)
      <4>1. \A t \in ToSet(e) : t \in Ahead(f, s) <=> t \in Ahead(e, s)
        BY <1>1, <1>2 DEF Ahead
      <4>2. x \notin Ahead(f, s) /\ x \notin Ahead(e, s)
        <5>1. CASE x \in Pops
          <6>1. s \in Nat
            <7>1. e \in Seq(Event) /\ ToSet(e) \subseteq Event
              BY DEF ToSet
            <7>. QED BY <7>1 DEF Event
          <6>2. x \in Int /\ x < 0
            BY <5>1 DEF Pops, EarlyPop, DuePop
          <6>3. ~(x > s)
            BY <6>1, <6>2
          <6>. QED BY <6>3 DEF Ahead
        <5>2. CASE x \notin ToSet(e)
          BY <1>1, <1>2, <5>2 DEF Ahead
        <5>. QED BY <2>2, <5>1, <5>2
      <4>3. Ahead(f, s) \subseteq ToSet(e) \cup {x} /\ Ahead(e, s) \subseteq ToSet(e)
        BY <1>1 DEF Ahead
      <4>. QED BY <4>1, <4>2, <4>3
    <3>2. s \in ToSet(f)
      BY <1>1
    <3>. QED BY <1>4, <3>1, <3>2 DEF HardlyOvertaken
  <2>. QED BY <1>1, <1>3, <2>1, <2>3 DEF HardlyOvertaken
<1>. QED BY <1>3, <1>4 DEF f

\* push: the packet waits with the others.
LEMMA PushKeeps ==
  ASSUME NEW e \in Seq(Event), NEW x \in Nat, NEW buf, NEW out, WaitingInv(e, buf, out)
  PROVE  WaitingInv(Append(e, x), buf \cup {x}, out)
<1>. DEFINE f == Append(e, x)
            b == buf \cup {x}
<1>. USE LimitAssumption
<1>1. x \in Event /\ x \notin Pops
  BY DEF Event, Pops, EarlyPop, DuePop
<1>2. /\ f \in Seq(Event) /\ Len(f) = Len(e) + 1 /\ Len(e) \in Nat
      /\ ToSet(f) = ToSet(e) \cup {x}
  BY <1>1, ToSetAppend
<1>3. /\ \A y \in ToSet(e) : ArrivalOf(f, y) = ArrivalOf(e, y) /\ ArrivalOf(e, y) \in 1..Len(e)
      /\ x \notin ToSet(e) => ArrivalOf(f, x) = Len(e) + 1
  BY <1>1, ArrivalAppend
<1>4. ArriveOnce(f) => ArriveOnce(e) /\ x \notin ToSet(e)
  BY <1>1, OneMoreEvent
<1>5. HardlyOvertaken(f) => HardlyOvertaken(e)
  BY <1>1, OneMoreEvent
<1>6. buf \in SUBSET Nat /\ IsFiniteSet(buf) /\ out \in Seq(Nat) /\ DOMAIN out = 1..Len(out)
  BY DEF WaitingInv
<1>7. ToSet(e) \ Pops = buf \cup ToSet(out)
  BY DEF WaitingInv, Accounted
<1>8. IsFiniteSet(ToSet(f))
  BY <1>2, ToSetBound
<1>. HIDE DEF f
<1>9. \A i \in DOMAIN out : out[i] \in ToSet(out) /\ out[i] \in Nat
  BY <1>6 DEF ToSet
<1>10. ToSet(out) \subseteq Nat
  BY <1>6 DEF ToSet
<1>11. b \in SUBSET Nat /\ IsFiniteSet(b)
  BY <1>6, FS_AddElement
<1>12. Accounted(f, b, out)
  BY <1>1, <1>2, <1>7 DEF Accounted
<1>13. LateOnesOvertaken(f, b, out)
  <2>. SUFFICES ASSUME ArriveOnce(f)
                PROVE  /\ b \cap ToSet(out) = {}
                       /\ \A y \in ToSet(out), z \in b : z < y => ArrivalOf(f, y) < ArrivalOf(f, z)
                       /\ \A i, j \in DOMAIN out :
                            i < j /\ out[i] > out[j] => ArrivalOf(f, out[i]) < ArrivalOf(f, out[j])
    BY DEF LateOnesOvertaken
  <2>1. /\ buf \cap ToSet(out) = {}
        /\ \A y \in ToSet(out), z \in buf : z < y => ArrivalOf(e, y) < ArrivalOf(e, z)
        /\ \A i, j \in DOMAIN out :
             i < j /\ out[i] > out[j] => ArrivalOf(e, out[i]) < ArrivalOf(e, out[j])
    BY <1>4 DEF WaitingInv, LateOnesOvertaken
  <2>2. b \cap ToSet(out) = {}
    BY <1>4, <1>7, <2>1
  <2>3. ASSUME NEW y \in ToSet(out), NEW z \in b, z < y
        PROVE  ArrivalOf(f, y) < ArrivalOf(f, z)
    <3>1. y \in ToSet(e)
      BY <1>7
    <3>2. CASE z = x
      BY <1>2, <1>3, <1>4, <3>1, <3>2
    <3>3. CASE z \in buf
      <4>1. z \in ToSet(e)
        BY <1>7, <3>3
      <4>. QED BY <1>3, <2>1, <2>3, <3>1, <3>3, <4>1
    <3>. QED BY <3>2, <3>3
  <2>4. ASSUME NEW i \in DOMAIN out, NEW j \in DOMAIN out, i < j, out[i] > out[j]
        PROVE  ArrivalOf(f, out[i]) < ArrivalOf(f, out[j])
    <3>1. out[i] \in ToSet(e) /\ out[j] \in ToSet(e)
      BY <1>7, <1>9
    <3>. QED BY <1>3, <2>1, <2>4, <3>1
  <2>. QED BY <2>2, <2>3, <2>4
<1>14. PushedOut(f, out)
  <2>. SUFFICES ASSUME DuePop \notin ToSet(f), NEW y \in ToSet(out)
                PROVE  Cardinality({t \in ToSet(f) : t >= y}) > Limit
    BY DEF PushedOut
  <2>. DEFINE A == {t \in ToSet(e) : t >= y}
              B == {t \in ToSet(f) : t >= y}
  <2>1. Cardinality(A) > Limit
    BY <1>2 DEF WaitingInv, PushedOut
  <2>2. A \in SUBSET B /\ IsFiniteSet(B)
    BY <1>2, <1>8, FS_Subset
  <2>. HIDE DEF A, B
  <2>3. Cardinality(A) <= Cardinality(B) /\ Cardinality(A) \in Nat /\ Cardinality(B) \in Nat
    BY <2>2, FS_Subset, FS_CardinalityType
  <2>4. Cardinality(B) > Limit
    BY <2>1, <2>3
  <2>. QED BY <2>4 DEF B
<1>15. ASSUME HardlyOvertaken(f) PROVE InOrder(b, out)
  <2>1. InOrder(buf, out)
    BY <1>5, <1>15 DEF WaitingInv
  <2>2. ArriveOnce(f) /\ DuePop \notin ToSet(f) /\ x \in ToSet(f) \ Pops /\ x \notin ToSet(e)
    BY <1>1, <1>2, <1>4, <1>15 DEF HardlyOvertaken
  <2>3. ASSUME NEW y \in ToSet(out) PROVE y < x
    <3>. SUFFICES ASSUME x <= y PROVE FALSE
      BY <1>10
    <3>. DEFINE A == {t \in ToSet(e) : t >= y}
                B == Ahead(f, x)
    <3>1. Cardinality(A) > Limit
      BY <1>2, <2>2 DEF WaitingInv, PushedOut
    <3>2. A \subseteq B
      <4>. SUFFICES ASSUME NEW t \in ToSet(e), t >= y PROVE t \in Ahead(f, x)
        OBVIOUS
      <4>0. t \notin Pops
        BY <1>10 DEF Pops, EarlyPop, DuePop
      <4>1. t \in buf \cup ToSet(out) /\ t \in Nat /\ y \in Nat
        BY <1>2, <1>6, <1>7, <1>10, <4>0
      <4>2. t > x
        BY <2>2, <4>1
      <4>3. ArrivalOf(f, t) < ArrivalOf(f, x)
        BY <1>2, <1>3, <2>2
      <4>. QED BY <1>2, <4>2, <4>3 DEF Ahead
    <3>3. B \in SUBSET ToSet(f)
      BY DEF Ahead
    <3>4. Cardinality(B) <= Limit
      BY <1>15, <2>2 DEF HardlyOvertaken
    <3>. HIDE DEF A, B
    <3>5. IsFiniteSet(B)
      BY <1>8, <3>3, FS_Subset
    <3>6. Cardinality(A) <= Cardinality(B) /\ Cardinality(A) \in Nat /\ Cardinality(B) \in Nat
      BY <3>2, <3>5, FS_Subset, FS_CardinalityType
    <3>. QED BY <3>1, <3>4, <3>6
  <2>. QED BY <2>1, <2>3 DEF InOrder
<1>. QED BY <1>6, <1>11, <1>12, <1>13, <1>14, <1>15 DEF WaitingInv, f

\* pop: the packet with the lowest number, if too many wait or a call was due.
LEMMA PopKeeps ==
  ASSUME NEW e \in Seq(Event), NEW buf, NEW out, WaitingInv(e, buf, out), buf # {},
         DuePop \in ToSet(e) \/ Cardinality(buf) > Limit
  PROVE  WaitingInv(e, buf \ {Min(buf)}, Append(out, Min(buf)))
<1>. DEFINE m == Min(buf)
            b == buf \ {m}
            q == Append(out, m)
<1>. USE LimitAssumption
<1>1. buf \in SUBSET Nat /\ IsFiniteSet(buf) /\ out \in Seq(Nat) /\ DOMAIN out = 1..Len(out)
  BY DEF WaitingInv
<1>2. m \in buf /\ m \in Nat /\ \A y \in buf : m <= y
  BY <1>1, Smallest
<1>. HIDE DEF m
<1>3. /\ q \in Seq(Nat) /\ Len(q) = Len(out) + 1 /\ Len(out) \in Nat
      /\ \A k \in 1..Len(out) : q[k] = out[k]
      /\ q[Len(out) + 1] = m
      /\ ToSet(q) = ToSet(out) \cup {m}
  BY <1>1, <1>2, ToSetAppend
<1>4. DOMAIN q = 1..(Len(out) + 1)
  BY <1>3
<1>. HIDE DEF q
<1>5. ToSet(e) \ Pops = buf \cup ToSet(out) /\ ToSet(out) \subseteq Nat
  <2>1. ToSet(out) \subseteq Nat
    BY <1>1 DEF ToSet
  <2>. QED BY <2>1 DEF WaitingInv, Accounted
<1>6. b \in SUBSET Nat /\ IsFiniteSet(b)
  BY <1>1, FS_RemoveElement
<1>7. Accounted(e, b, q)
  BY <1>2, <1>3, <1>5 DEF Accounted
<1>8. LateOnesOvertaken(e, b, q)
  <2>. SUFFICES ASSUME ArriveOnce(e)
                PROVE  /\ b \cap ToSet(q) = {}
                       /\ \A y \in ToSet(q), z \in b : z < y => ArrivalOf(e, y) < ArrivalOf(e, z)
                       /\ \A i, j \in DOMAIN q :
                            i < j /\ q[i] > q[j] => ArrivalOf(e, q[i]) < ArrivalOf(e, q[j])
    BY DEF LateOnesOvertaken
  <2>1. /\ buf \cap ToSet(out) = {}
        /\ \A y \in ToSet(out), z \in buf : z < y => ArrivalOf(e, y) < ArrivalOf(e, z)
        /\ \A i, j \in DOMAIN out :
             i < j /\ out[i] > out[j] => ArrivalOf(e, out[i]) < ArrivalOf(e, out[j])
    BY DEF WaitingInv, LateOnesOvertaken
  <2>2. b \cap ToSet(q) = {}
    BY <1>2, <1>3, <2>1
  <2>3. ASSUME NEW y \in ToSet(q), NEW z \in b, z < y
        PROVE  ArrivalOf(e, y) < ArrivalOf(e, z)
    <3>1. m <= z /\ z \in Nat
      BY <1>1, <1>2
    <3>2. y # m
      BY <1>2, <2>3, <3>1
    <3>. QED BY <1>3, <2>1, <2>3, <3>2
  <2>4. ASSUME NEW i \in DOMAIN q, NEW j \in DOMAIN q, i < j, q[i] > q[j]
        PROVE  ArrivalOf(e, q[i]) < ArrivalOf(e, q[j])
    <3>1. i \in DOMAIN out /\ q[i] = out[i]
      BY <1>1, <1>3, <1>4, <2>4
    <3>2. CASE j \in DOMAIN out
      BY <1>1, <1>3, <2>1, <2>4, <3>1, <3>2
    <3>3. CASE j \notin DOMAIN out
      <4>1. j = Len(out) + 1
        BY <1>1, <1>3, <1>4, <3>3
      <4>2. q[j] = m /\ q[i] \in ToSet(out) /\ m < q[i]
        BY <1>2, <1>3, <1>5, <2>4, <3>1, <4>1 DEF ToSet
      <4>. QED BY <1>2, <2>1, <4>2
    <3>. QED BY <3>2, <3>3
  <2>. QED BY <2>2, <2>3, <2>4
<1>9. PushedOut(e, q)
  <2>. SUFFICES ASSUME DuePop \notin ToSet(e), NEW y \in ToSet(q)
                PROVE  Cardinality({t \in ToSet(e) : t >= y}) > Limit
    BY DEF PushedOut
  <2>1. CASE y \in ToSet(out)
    BY <2>1 DEF WaitingInv, PushedOut
  <2>2. CASE y = m
    <3>. DEFINE B == {t \in ToSet(e) : t >= y}
    <3>1. buf \in SUBSET B
      BY <1>1, <1>2, <1>5, <2>2
    <3>2. IsFiniteSet(B)
      BY ToSetBound, FS_Subset
    <3>. HIDE DEF B
    <3>3. Cardinality(buf) <= Cardinality(B) /\ Cardinality(buf) \in Nat /\ Cardinality(B) \in Nat
      BY <3>1, <3>2, FS_Subset, FS_CardinalityType
    <3>4. Cardinality(B) > Limit
      BY <3>3
    <3>. QED BY <3>4 DEF B
  <2>. QED BY <1>3, <2>1, <2>2
<1>10. ASSUME HardlyOvertaken(e) PROVE InOrder(b, q)
  <2>1. InOrder(buf, out)
    BY <1>10 DEF WaitingInv
  <2>2. \A y \in ToSet(q), z \in b : y < z
    BY <1>1, <1>2, <1>3, <2>1 DEF InOrder
  <2>3. ASSUME NEW i \in DOMAIN q, NEW j \in DOMAIN q, i < j PROVE q[i] < q[j]
    <3>1. i \in DOMAIN out /\ q[i] = out[i] /\ out[i] \in ToSet(out)
      BY <1>1, <1>3, <1>4, <2>3 DEF ToSet
    <3>2. CASE j \in DOMAIN out
      BY <1>1, <1>3, <2>1, <2>3, <3>1, <3>2 DEF InOrder
    <3>3. CASE j \notin DOMAIN out
      <4>1. j = Len(out) + 1
        BY <1>1, <1>3, <1>4, <3>3
      <4>. QED BY <1>2, <1>3, <2>1, <3>1, <4>1 DEF InOrder
    <3>. QED BY <3>2, <3>3
  <2>. QED BY <2>2, <2>3 DEF InOrder
<1>. QED BY <1>3, <1>6, <1>7, <1>8, <1>9, <1>10 DEF WaitingInv, q, m

\* A call of pop is no packet.
LEMMA CallKeeps ==
  ASSUME NEW e \in Seq(Event), NEW x \in Pops, NEW buf, NEW out, WaitingInv(e, buf, out)
  PROVE  WaitingInv(Append(e, x), buf, out)
<1>. DEFINE f == Append(e, x)
<1>1. x \in Event /\ x \in Int /\ x < 0
  BY DEF Event, Pops, EarlyPop, DuePop
<1>2. /\ f \in Seq(Event) /\ ToSet(f) = ToSet(e) \cup {x}
      /\ \A y \in ToSet(e) : ArrivalOf(f, y) = ArrivalOf(e, y)
      /\ ArriveOnce(f) => ArriveOnce(e)
      /\ HardlyOvertaken(f) => HardlyOvertaken(e)
  BY <1>1, ToSetAppend, ArrivalAppend, OneMoreEvent
<1>. HIDE DEF f
<1>3. ToSet(e) \ Pops = buf \cup ToSet(out) /\ out \in Seq(Nat)
  BY DEF WaitingInv, Accounted
<1>4. \A i \in DOMAIN out : out[i] \in ToSet(out)
  BY DEF ToSet
<1>5. LateOnesOvertaken(f, buf, out)
  BY <1>2, <1>3, <1>4 DEF WaitingInv, LateOnesOvertaken
<1>6. Accounted(f, buf, out)
  BY <1>2, <1>3 DEF Accounted
<1>7. PushedOut(f, out)
  <2>. SUFFICES ASSUME DuePop \notin ToSet(f), NEW y \in ToSet(out)
                PROVE  Cardinality({t \in ToSet(f) : t >= y}) > Limit
    BY DEF PushedOut
  <2>1. y \in Nat
    BY <1>3 DEF ToSet
  <2>2. {t \in ToSet(f) : t >= y} = {t \in ToSet(e) : t >= y}
    BY <1>1, <1>2, <2>1
  <2>. QED BY <1>2, <2>2 DEF WaitingInv, PushedOut
<1>. QED BY <1>2, <1>5, <1>6, <1>7 DEF WaitingInv, f

-----------------------------------------------------------------------------
(* The packets of the JitterBuffer: how many wait.                         *)

\* Since some earlier moment the packets outnumbered the calls of pop by what
\* waits beyond Limit.
InBurst(e, buf) == \E k \in 0..Len(e) : Cardinality(buf) <= Limit + Backlog(e, k)

\* One more event counts for every earlier moment, and behind it is nothing.
LEMMA BacklogAppend ==
  ASSUME NEW e \in Seq(Event), NEW x \in Event
  PROVE  LET f == Append(e, x)
         IN  /\ \A k \in 0..Len(e) : /\ Backlog(e, k) \in Int
                                     /\ Backlog(f, k) = Backlog(e, k) + (IF x \in Pops THEN -1 ELSE 1)
             /\ Backlog(f, Len(f)) = 0
<1>. DEFINE f == Append(e, x)
            n == Len(e)
            In(g, k) == {i \in (k + 1)..Len(g) : g[i] \notin Pops}
            Out(g, k) == {i \in (k + 1)..Len(g) : g[i] \in Pops}
<1>1. /\ Len(f) = n + 1 /\ n \in Nat /\ f[n + 1] = x
      /\ \A k \in 1..n : f[k] = e[k]
  BY ToSetAppend
<1>. HIDE DEF f, n
<1>3. ASSUME NEW k \in 0..n
      PROVE  /\ Backlog(e, k) \in Int
             /\ Backlog(f, k) = Backlog(e, k) + (IF x \in Pops THEN -1 ELSE 1)
  <2>. DEFINE ie == In(e, k)
              oe == Out(e, k)
              if == In(f, k)
              of == Out(f, k)
  <2>0. /\ Backlog(e, k) = Cardinality(ie) - Cardinality(oe)
        /\ Backlog(f, k) = Cardinality(if) - Cardinality(of)
    BY DEF Backlog
  <2>1. IsFiniteSet((k + 1)..Len(e))
    <3>1. k + 1 \in Int /\ Len(e) \in Int
      BY <1>1 DEF n
    <3>. QED BY <3>1, FS_Interval
  <2>2. IsFiniteSet(ie) /\ IsFiniteSet(oe)
    BY <2>1, FS_Subset
  <2>3. Cardinality(ie) \in Nat /\ Cardinality(oe) \in Nat
    BY <2>2, FS_CardinalityType
  <2>4. \A i : i \in (k + 1)..Len(f) <=> i \in (k + 1)..Len(e) \/ i = n + 1
    BY <1>1 DEF n
  <2>5. \A i \in (k + 1)..Len(e) : f[i] = e[i] /\ i # n + 1
    BY <1>1 DEF n
  <2>6. CASE x \in Pops
    <3>1. if = ie /\ of = oe \cup {n + 1} /\ n + 1 \notin oe
      BY <1>1, <2>4, <2>5, <2>6
    <3>. HIDE DEF ie, oe, if, of
    <3>2. Cardinality(of) = Cardinality(oe) + 1
      BY <2>2, <3>1, FS_AddElement
    <3>. QED BY <2>0, <2>3, <2>6, <3>1, <3>2
  <2>7. CASE x \notin Pops
    <3>1. of = oe /\ if = ie \cup {n + 1} /\ n + 1 \notin ie
      BY <1>1, <2>4, <2>5, <2>7
    <3>. HIDE DEF ie, oe, if, of
    <3>2. Cardinality(if) = Cardinality(ie) + 1
      BY <2>2, <3>1, FS_AddElement
    <3>. QED BY <2>0, <2>3, <2>7, <3>1, <3>2
  <2>. QED BY <2>6, <2>7
<1>4. Backlog(f, Len(f)) = 0
  <2>1. In(f, Len(f)) = {} /\ Out(f, Len(f)) = {}
    BY <1>1
  <2>2. Backlog(f, Len(f)) = Cardinality(In(f, Len(f))) - Cardinality(Out(f, Len(f)))
    BY DEF Backlog
  <2>3. Cardinality({}) = 0
    BY FS_EmptySet
  <2>. HIDE DEF In, Out
  <2>. QED BY <2>1, <2>2, <2>3
<1>. QED BY <1>3, <1>4 DEF f, n

\* A call that finds more than Limit takes one away; one that does not leaves
\* at most Limit.
LEMMA BurstKeeps ==
  ASSUME NEW e \in Seq(Event), NEW x \in Event, NEW b,
         b.buf \in SUBSET Nat, IsFiniteSet(b.buf), InBurst(e, b.buf)
  PROVE  InBurst(Append(e, x), AfterEvent(b, x).buf)
<1>. USE LimitAssumption
<1>. DEFINE f == Append(e, x)
            buf == AfterEvent(b, x).buf
            c == Cardinality(b.buf)
            d == Cardinality(buf)
            m == PopsSeq(b.buf)
<1>1. Len(f) = Len(e) + 1 /\ Len(e) \in Nat
  OBVIOUS
<1>2. c \in Nat
  BY FS_CardinalityType
<1>3. PICK k \in 0..Len(e) : c <= Limit + Backlog(e, k)
  BY DEF InBurst
<1>4. /\ Backlog(e, k) \in Int
      /\ Backlog(f, k) = Backlog(e, k) + (IF x \in Pops THEN -1 ELSE 1)
      /\ Backlog(f, Len(f)) = 0
  BY BacklogAppend
<1>5. k \in 0..Len(f) /\ Len(f) \in 0..Len(f)
  BY <1>1
<1>. HIDE DEF f
<1>6. CASE x \notin Pops
  <2>1. buf = b.buf \cup {x}
    BY <1>6 DEF AfterEvent, JitterPushed
  <2>2. d = IF x \in b.buf THEN c ELSE c + 1
    BY <2>1, FS_AddElement
  <2>3. d <= Limit + Backlog(f, k)
    BY <1>2, <1>3, <1>4, <1>6, <2>2
  <2>. QED BY <1>5, <2>3 DEF InBurst, f
<1>7. CASE x \in Pops /\ MayPop(b.buf, x = DuePop)
  <2>1. buf = b.buf \ {m} /\ b.buf # {}
    BY <1>7 DEF AfterEvent, MayPop
  <2>2. m \in b.buf
    BY <2>1, Smallest DEF PopsSeq
  <2>3. d = c - 1
    <3>. HIDE DEF m, buf
    <3>. QED BY <2>1, <2>2, FS_RemoveElement
  <2>4. d <= Limit + Backlog(f, k)
    BY <1>2, <1>3, <1>4, <1>7, <2>3
  <2>. QED BY <1>5, <2>4 DEF InBurst, f
<1>8. CASE x \in Pops /\ ~MayPop(b.buf, x = DuePop)
  <2>1. buf = b.buf
    BY <1>8 DEF AfterEvent
  <2>2. c <= Limit
    BY <1>2, <1>8, FS_EmptySet DEF MayPop
  <2>3. d <= Limit + Backlog(f, Len(f))
    BY <1>2, <1>4, <2>1, <2>2
  <2>. QED BY <1>5, <2>3 DEF InBurst, f
<1>. QED BY <1>6, <1>7, <1>8

\* The inductive invariant: what a trial of the JitterBuffer keeps.
JitterInv ==
  subject = "jitter" =>
    /\ input \in Seq(Event) /\ object \in [buf : SUBSET Nat, out : Seq(Nat)]
    /\ WaitingInv(input, object.buf, object.out) /\ InBurst(input, object.buf)

\* One event: push or pop.
LEMMA EventKeeps ==
  ASSUME NEW e \in Seq(Event), NEW b \in [buf : SUBSET Nat, out : Seq(Nat)], NEW x \in Event,
         WaitingInv(e, b.buf, b.out)
  PROVE  LET a == AfterEvent(b, x)
         IN  a \in [buf : SUBSET Nat, out : Seq(Nat)] /\ WaitingInv(Append(e, x), a.buf, a.out)
<1>. DEFINE f == Append(e, x)
            a == AfterEvent(b, x)
            m == PopsSeq(b.buf)
<1>1. f \in Seq(Event) /\ x \in ToSet(f)
  BY ToSetAppend
<1>2. CASE x \notin Pops
  <2>1. x \in Nat
    BY <1>2 DEF Event
  <2>2. a = [buf |-> b.buf \cup {x}, out |-> b.out]
    BY <1>2 DEF AfterEvent, JitterPushed
  <2>. HIDE DEF a
  <2>. QED BY <2>1, <2>2, PushKeeps DEF f, a
<1>3. CASE x \in Pops
  <2>1. WaitingInv(f, b.buf, b.out)
    BY <1>3, CallKeeps
  <2>. HIDE DEF f
  <2>2. CASE MayPop(b.buf, x = DuePop)
    <3>1. b.buf # {} /\ (DuePop \in ToSet(f) \/ Cardinality(b.buf) > Limit)
      BY <1>1, <2>2 DEF MayPop
    <3>2. WaitingInv(f, b.buf \ {m}, Append(b.out, m))
      BY <1>1, <2>1, <3>1, PopKeeps DEF PopsSeq
    <3>3. m \in Nat
      BY <3>1, Smallest DEF PopsSeq
    <3>. HIDE DEF m
    <3>4. a = [buf |-> b.buf \ {m}, out |-> Append(b.out, m)]
      BY <1>3, <2>2 DEF AfterEvent, m
    <3>. HIDE DEF a
    <3>. QED BY <3>2, <3>3, <3>4 DEF f, a
  <2>3. CASE ~MayPop(b.buf, x = DuePop)
    <3>1. a = b
      BY <1>3, <2>3 DEF AfterEvent
    <3>. QED BY <2>1, <3>1 DEF f
  <2>. QED BY <2>2, <2>3
<1>. QED BY <1>2, <1>3

\* Before the first event.
LEMMA NothingWaits == WaitingInv(<<>>, {}, <<>>) /\ InBurst(<<>>, {})
<1>1. ToSet(<<>>) = {} /\ <<>> \in Seq(Nat) /\ DOMAIN <<>> = {} /\ IsFiniteSet({})
  BY FS_EmptySet DEF ToSet
<1>2. Accounted(<<>>, {}, <<>>) /\ LateOnesOvertaken(<<>>, {}, <<>>) /\ PushedOut(<<>>, <<>>)
  BY <1>1 DEF Accounted, LateOnesOvertaken, PushedOut
<1>3. InOrder({}, <<>>)
  BY <1>1 DEF InOrder
<1>4. InBurst(<<>>, {})
  <2>1. Cardinality({}) = 0 /\ Len(<<>>) = 0 /\ 0 \in 0..0
    BY FS_EmptySet
  <2>2. Backlog(<<>>, 0) = 0
    <3>. DEFINE later == (0 + 1)..Len(<<>>)
    <3>1. later = {}
      OBVIOUS
    <3>. HIDE DEF later
    <3>2. {i \in later : <<>>[i] \notin Pops} = {} /\ {i \in later : <<>>[i] \in Pops} = {}
      BY <3>1
    <3>. QED BY <2>1, <3>2 DEF Backlog, later
  <2>. QED BY <2>1, <2>2, LimitAssumption DEF InBurst
<1>. QED BY <1>1, <1>2, <1>3, <1>4 DEF WaitingInv

\* However long the stream is, whatever the limit and however the calls of pop
\* fall among the packets: more than Limit wait only in a burst that the calls
\* have not caught up with, a packet that at most Limit newer ones overtook
\* comes out in order, and one that comes out late arrived late
\* (JitterBuffer::push, pop).
THEOREM JitterBufferKeepsOrder == Spec => []JitterDepth
<1>1. Init => SubjectInv /\ JitterInv
  <2>. SUFFICES ASSUME Init, subject = "jitter"
                PROVE  /\ input \in Seq(Event) /\ object \in [buf : SUBSET Nat, out : Seq(Nat)]
                       /\ WaitingInv(input, object.buf, object.out)
                       /\ InBurst(input, object.buf)
    BY DEF Init, SubjectInv, JitterInv
  <2>1. input = <<>> /\ object = [buf |-> {}, out |-> <<>>]
    BY DEF Init, Fresh
  <2>2. <<>> \in Seq(Event) /\ <<>> \in Seq(Nat)
    OBVIOUS
  <2>. QED BY <2>1, <2>2, NothingWaits
<1>2. SubjectInv /\ JitterInv /\ [Feed]_vars => (SubjectInv /\ JitterInv)'
  <2>. SUFFICES ASSUME SubjectInv, JitterInv, [Feed]_vars
                PROVE  SubjectInv' /\ JitterInv'
    OBVIOUS
  <2>1. subject' = subject
    BY DEF Feed, vars
  <2>2. SubjectInv'
    BY <2>1 DEF SubjectInv
  <2>3. CASE Feed /\ subject = "jitter"
    <3>1. PICK x \in Inputs["jitter"] : input' = Append(input, x) /\ object' = AfterEvent(object, x)
      BY <2>3 DEF Feed, Advanced
    <3>2. x \in Event
      BY <2>3, InputsAssumption, SeqSpaceAssumption DEF SubjectInv, Event, Seqs
    <3>3. /\ input \in Seq(Event) /\ object \in [buf : SUBSET Nat, out : Seq(Nat)]
          /\ WaitingInv(input, object.buf, object.out) /\ InBurst(input, object.buf)
      BY <2>3 DEF JitterInv
    <3>4. input' \in Seq(Event)
      BY <3>1, <3>2, <3>3
    <3>5. /\ object' \in [buf : SUBSET Nat, out : Seq(Nat)]
          /\ WaitingInv(input', object'.buf, object'.out)
      BY <3>1, <3>2, <3>3, EventKeeps
    <3>6. InBurst(input', object'.buf)
      <4>1. object.buf \in SUBSET Nat /\ IsFiniteSet(object.buf)
        BY <3>3 DEF WaitingInv
      <4>. QED BY <3>1, <3>2, <3>3, <4>1, BurstKeeps
    <3>. QED BY <2>2, <3>4, <3>5, <3>6 DEF JitterInv
  <2>4. CASE subject # "jitter"
    BY <2>1, <2>2, <2>4 DEF JitterInv
  <2>5. CASE UNCHANGED vars
    BY <2>2, <2>5 DEF JitterInv, vars
  <2>. QED BY <2>3, <2>4, <2>5
<1>3. SubjectInv /\ JitterInv => JitterDepth
  <2>. SUFFICES ASSUME JitterInv, subject = "jitter" PROVE JitterDepth
    BY DEF JitterDepth
  <2>. DEFINE buf == object.buf
              out == object.out
              n == Len(out)
  <2>1. WaitingInv(input, buf, out) /\ InBurst(input, buf)
    BY DEF JitterInv
  <2>2. out \in Seq(Nat) /\ DOMAIN out = 1..n /\ \A i \in 1..n : out[i] \in ToSet(out)
    BY <2>1 DEF WaitingInv, ToSet
  <2>. HIDE DEF buf, out
  <2>3. ASSUME ArriveOnce(input), DuePop \notin ToSet(input),
               \A s \in ToSet(input) \ Pops : Cardinality(Ahead(input, s)) <= Limit
        PROVE  /\ \A i, j \in 1..n : i < j => out[i] < out[j]
               /\ \A i \in 1..n, s \in buf : out[i] < s
    <3>1. InOrder(buf, out)
      BY <2>1, <2>3 DEF WaitingInv, HardlyOvertaken
    <3>. QED BY <2>2, <3>1 DEF InOrder
  <2>4. ASSUME ArriveOnce(input)
        PROVE  \A i, j \in DOMAIN out :
                 i < j /\ out[i] > out[j] => ArrivalOf(input, out[i]) < ArrivalOf(input, out[j])
    BY <2>1, <2>4 DEF WaitingInv, LateOnesOvertaken
  <2>5. /\ ToSet(input) \ Pops = buf \cup ToSet(out)
        /\ \E k \in 0..Len(input) : Cardinality(buf) <= Limit + Backlog(input, k)
    BY <2>1 DEF WaitingInv, Accounted, InBurst
  <2>. QED BY <2>3, <2>4, <2>5 DEF JitterDepth, buf, out
<1>. QED BY <1>1, <1>2, <1>3, PTL DEF Spec
=============================================================================
