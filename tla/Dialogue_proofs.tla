--------------------------- MODULE Dialogue_proofs ---------------------------
(***************************************************************************)
(* Proofs about Conversation, as Dialogue composes it with IntentSolver,   *)
(* for every set of requests, sentences, intents and filters, every depth  *)
(* of the conversation and all delays.                                     *)
(***************************************************************************)
EXTENDS Dialogue, SequenceTheorems, FiniteSetTheorems, WellFoundedInduction, TLAPS

------------------------------------------------------------------------------
(* Sequences.  The induction theorems of the library take an operator; here   *)
(* induction is over a set, from the least-element principle.                 *)

\* A set that has 0 and the successor of each of its numbers has all of Nat.
LEMMA Induction ==
    ASSUME NEW S, 0 \in S, \A n \in Nat : n \in S => n + 1 \in S
    PROVE  Nat \subseteq S
<1> DEFINE T == Nat \ S
<1> SUFFICES ASSUME T # {} PROVE FALSE
  OBVIOUS
<1>1. PICK x \in T : \A y \in T : <<y, x>> \notin OpToRel(<, Nat)
  BY WFMin, NatLessThanWellFounded
<1>2. \A y \in T : ~(y < x)
  BY <1>1 DEF OpToRel
<1>3. x \in Nat /\ x # 0 /\ x \notin S
  OBVIOUS
<1>4. x - 1 \in Nat /\ (x - 1) + 1 = x
  BY <1>3
<1>5. x - 1 \in S
  BY <1>2, <1>4
<1> QED
  BY <1>3, <1>4, <1>5

\* s has the elements of seq at positions in K, in their order, at tells from
\* where.
Selects(at, s, seq, K) ==
    /\ at \in [DOMAIN s -> DOMAIN seq \cap K]
    /\ \A j, k \in DOMAIN s : j < k => at[j] < at[k]
    /\ \A k \in DOMAIN s : s[k] = seq[at[k]]
    /\ \A i \in DOMAIN seq \cap K : \E k \in DOMAIN s : at[k] = i

\* s has all elements of seq at positions in K.
Covers(s, seq, K) ==
    \A i \in DOMAIN seq \cap K : \E k \in DOMAIN s : s[k] = seq[i]

\* Keep has the elements of seq at the positions in K, in their order.
LEMMA KeepFacts ==
    ASSUME NEW A, NEW seq \in Seq(A), NEW K
    PROVE  /\ Keep(seq, K) \in Seq(A)
           /\ Covers(Keep(seq, K), seq, K)
           /\ \E at : Selects(at, Keep(seq, K), seq, K)
<1> DEFINE N == Len(seq)
           Step(f, m) ==
               f = [n \in 0 .. m |->
                      IF n = 0 THEN <<>>
                      ELSE IF n \in K THEN Append(f[n - 1], seq[n]) ELSE f[n - 1]]
<1>n. N \in Nat /\ DOMAIN seq = 1 .. N /\ \A i \in 1 .. N : seq[i] \in A
  BY LenProperties, ElementOfSeq
<1>1. \E f : Step(f, N)
  <2> DEFINE S == {m \in Nat : \E f : Step(f, m)}
  <2>1. 0 \in S
    <3>1. Step([n \in {0} |-> <<>>], 0)
      OBVIOUS
    <3> QED
      BY <3>1
  <2>2. ASSUME NEW m \in Nat, m \in S PROVE m + 1 \in S
    <3>1. PICK f : Step(f, m)
      BY <2>2
    <3>2. \A n \in 0 .. m :
             f[n] = IF n = 0 THEN <<>>
                    ELSE IF n \in K THEN Append(f[n - 1], seq[n]) ELSE f[n - 1]
      BY <3>1
    <3> DEFINE g == [n \in 0 .. m + 1 |->
                       IF n <= m THEN f[n]
                       ELSE IF n \in K THEN Append(f[n - 1], seq[n]) ELSE f[n - 1]]
    <3>3. /\ \A n \in 0 .. m : g[n] = f[n]
          /\ g[m + 1] = IF m + 1 \in K THEN Append(f[m], seq[m + 1]) ELSE f[m]
          /\ g = [n \in 0 .. m + 1 |-> g[n]]
      OBVIOUS
    <3> HIDE DEF g
    <3>4. \A n \in 0 .. m + 1 :
             g[n] = IF n = 0 THEN <<>>
                    ELSE IF n \in K THEN Append(g[n - 1], seq[n]) ELSE g[n - 1]
      <4> TAKE n \in 0 .. m + 1
      <4>0. (m + 1) - 1 = m /\ m \in 0 .. m /\ m + 1 # 0
        OBVIOUS
      <4>1. CASE n = m + 1
        <5>1. g[n - 1] = f[m]
          BY <4>0, <4>1, <3>3
        <5> QED
          BY <4>0, <4>1, <5>1, <3>3
      <4>2. CASE n \in 0 .. m
        <5>0. n # 0 => n - 1 \in 0 .. m
          BY <4>2
        <5>1. g[n] = f[n] /\ (n # 0 => g[n - 1] = f[n - 1])
          BY <4>2, <5>0, <3>3
        <5> QED
          BY <4>2, <5>1, <3>2
      <4> QED
        BY <4>1, <4>2
    <3>5. Step(g, m + 1)
      BY <3>3, <3>4
    <3> HIDE DEF Step
    <3> QED
      BY <3>5
  <2> QED
    BY <2>1, <2>2, <1>n, Induction
<1>2. PICK f : f = (CHOOSE h : Step(h, N)) /\ Step(f, N)
  BY <1>1
<1>3. Keep(seq, K) = f[N]
  BY <1>2 DEF Keep
<1>4. /\ f[0] = <<>>
      /\ \A n \in 1 .. N : f[n] = IF n \in K THEN Append(f[n - 1], seq[n]) ELSE f[n - 1]
  <2>1. \A n \in 0 .. N : f[n] = IF n = 0 THEN <<>>
                                ELSE IF n \in K THEN Append(f[n - 1], seq[n]) ELSE f[n - 1]
    BY <1>2
  <2> QED
    BY <2>1, <1>n
<1> HIDE DEF Step, N
<1> DEFINE From(s, m, at) ==
               /\ at \in [DOMAIN s -> (1 .. m) \cap K]
               /\ \A j, k \in DOMAIN s : j < k => at[j] < at[k]
               /\ \A k \in DOMAIN s : s[k] = seq[at[k]]
               /\ \A i \in (1 .. m) \cap K : \E k \in DOMAIN s : at[k] = i
           Good(m) == f[m] \in Seq(A) /\ \E at : From(f[m], m, at)
           S == {m \in Nat : m <= N => Good(m)}
<1> HIDE DEF Good
<1>5. 0 \in S
  <2>1. From(<<>>, 0, <<>>) /\ <<>> \in Seq(A)
    BY EmptySeq
  <2> HIDE DEF From
  <2>2. Good(0)
    BY <2>1, <1>4 DEF Good
  <2> QED
    BY <2>2
<1>6. ASSUME NEW m \in Nat, m \in S PROVE m + 1 \in S
  <2> SUFFICES ASSUME m + 1 <= N PROVE Good(m + 1)
    OBVIOUS
  <2>1. Good(m) /\ m + 1 \in 1 .. N /\ (m + 1) - 1 = m
    BY <1>6, <1>n
  <2>2. PICK at : From(f[m], m, at)
    BY <2>1 DEF Good
  <2>3. CASE m + 1 \notin K
    <3>1. f[m + 1] = f[m]
      BY <2>1, <2>3, <1>4
    <3>2. (1 .. m + 1) \cap K = (1 .. m) \cap K
      BY <2>3
    <3>3. From(f[m], m + 1, at)
      BY <2>1, <2>2, <3>2
    <3> HIDE DEF From
    <3> QED
      BY <2>1, <3>1, <3>3 DEF Good
  <2>4. CASE m + 1 \in K
    <3>1. f[m + 1] = Append(f[m], seq[m + 1])
      BY <2>1, <2>4, <1>4
    <3> DEFINE s == f[m]
               t == Append(s, seq[m + 1])
               L == Len(s)
               to == [k \in 1 .. L + 1 |-> IF k <= L THEN at[k] ELSE m + 1]
    <3>2. /\ s \in Seq(A) /\ L \in Nat /\ DOMAIN s = 1 .. L
      BY <2>1, LenProperties DEF Good
    <3>3. /\ t \in Seq(A) /\ DOMAIN t = 1 .. L + 1
          /\ \A k \in 1 .. L : t[k] = s[k]
          /\ t[L + 1] = seq[m + 1]
      BY <3>2, <2>1, <1>n, AppendProperties
    <3>4. /\ \A k \in 1 .. L : to[k] = at[k]
          /\ to[L + 1] = m + 1
          /\ DOMAIN to = 1 .. L + 1
          /\ to = [k \in 1 .. L + 1 |-> to[k]]
      BY <3>2
    <3> HIDE DEF s, t, L, to
    <3>5. \A i \in (1 .. m + 1) \cap K : \E k \in DOMAIN t : to[k] = i
      <4> SUFFICES ASSUME NEW i \in (1 .. m + 1) \cap K PROVE \E k \in DOMAIN t : to[k] = i
        OBVIOUS
      <4>1. CASE i = m + 1
        BY <4>1, <3>2, <3>3, <3>4
      <4>2. CASE i # m + 1
        <5>1. i \in (1 .. m) \cap K
          BY <4>2
        <5>2. PICK k \in DOMAIN s : at[k] = i
          BY <5>1, <2>2 DEF s
        <5>3. k \in 1 .. L /\ k \in 1 .. L + 1
          BY <3>2
        <5> QED
          BY <5>2, <5>3, <3>3, <3>4
      <4> QED
        BY <4>1, <4>2
    <3>6. \A k \in 1 .. L : at[k] \in (1 .. m) \cap K
      BY <2>2, <3>2 DEF s
    <3>7. to \in [1 .. L + 1 -> (1 .. m + 1) \cap K]
      <4>1. \A k \in 1 .. L + 1 : to[k] \in (1 .. m + 1) \cap K
        <5> TAKE k \in 1 .. L + 1
        <5>1. CASE k = L + 1
          BY <5>1, <3>4, <2>4
        <5>2. CASE k \in 1 .. L
          <6>1. to[k] \in 1 .. m /\ to[k] \in K
            BY <5>2, <3>4, <3>6
          <6> QED
            BY <6>1
        <5> QED
          BY <5>1, <5>2, <3>2
      <4> QED
        BY <3>4, <4>1
    <3>8. \A j, k \in 1 .. L + 1 : j < k => to[j] < to[k]
      <4> TAKE j, k \in 1 .. L + 1
      <4> HAVE j < k
      <4>0. j \in 1 .. L
        BY <3>2
      <4>1. j \in 1 .. L /\ to[j] = at[j] /\ at[j] \in 1 .. m
        BY <4>0, <3>4, <3>6
      <4>2. CASE k = L + 1
        BY <4>1, <4>2, <3>4
      <4>3. CASE k \in 1 .. L
        BY <4>1, <4>3, <3>4, <2>2, <3>2 DEF s
      <4> QED
        BY <4>2, <4>3, <3>2
    <3>9. \A k \in 1 .. L + 1 : t[k] = seq[to[k]]
      <4> TAKE k \in 1 .. L + 1
      <4>1. CASE k = L + 1
        BY <4>1, <3>3, <3>4
      <4>2. CASE k \in 1 .. L
        BY <4>2, <3>2, <3>3, <3>4, <2>2 DEF s
      <4> QED
        BY <4>1, <4>2, <3>2
    <3>10. From(t, m + 1, to)
      BY <3>3, <3>5, <3>7, <3>8, <3>9
    <3>11. f[m + 1] = t
      BY <3>1 DEF s, t
    <3> HIDE DEF From
    <3> QED
      BY <3>3, <3>10, <3>11 DEF Good
  <2> QED
    BY <2>3, <2>4
<1>7. Good(N)
  <2>1. Nat \subseteq S
    BY <1>5, <1>6, Induction
  <2> QED
    BY <2>1, <1>n
<1>8. f[N] \in Seq(A) /\ \E at : From(f[N], N, at)
  BY <1>7 DEF Good
<1>9. \E at : Selects(at, f[N], seq, K)
  BY <1>8, <1>n DEF Selects
<1>10. Covers(f[N], seq, K)
  BY <1>9 DEF Selects, Covers
<1> QED
  BY <1>3, <1>8, <1>9, <1>10

\* FlattenSeq has the elements of all the sequences.
LEMMA FlattenFacts ==
    ASSUME NEW A, NEW seqs \in Seq(Seq(A))
    PROVE  /\ FlattenSeq(seqs) \in Seq(A)
           /\ ToSet(FlattenSeq(seqs)) = UNION {ToSet(seqs[i]) : i \in DOMAIN seqs}
<1> DEFINE N == Len(seqs)
           Step(f, m) == f = [i \in 1 .. m |-> IF i = 1 THEN seqs[i] ELSE f[i - 1] \o seqs[i]]
<1>n. N \in Nat /\ DOMAIN seqs = 1 .. N /\ \A i \in 1 .. N : seqs[i] \in Seq(A)
  BY LenProperties, ElementOfSeq
<1>0. CASE N = 0
  <2>1. FlattenSeq(seqs) = seqs /\ seqs = <<>>
    BY <1>0, EmptySeq DEF FlattenSeq
  <2> QED
    BY <2>1, EmptySeq DEF ToSet
<1> SUFFICES ASSUME N # 0
             PROVE  /\ FlattenSeq(seqs) \in Seq(A)
                    /\ ToSet(FlattenSeq(seqs)) = UNION {ToSet(seqs[i]) : i \in DOMAIN seqs}
  BY <1>0
<1>1. \E f : Step(f, N)
  <2> DEFINE S == {m \in Nat : \E f : Step(f, m)}
  <2>1. 0 \in S
    <3>1. Step([i \in {} |-> <<>>], 0)
      OBVIOUS
    <3> QED
      BY <3>1
  <2>2. ASSUME NEW m \in Nat, m \in S PROVE m + 1 \in S
    <3>1. PICK f : Step(f, m)
      BY <2>2
    <3>2. \A i \in 1 .. m : f[i] = IF i = 1 THEN seqs[i] ELSE f[i - 1] \o seqs[i]
      BY <3>1
    <3> DEFINE g == [i \in 1 .. m + 1 |->
                       IF i <= m THEN f[i] ELSE IF i = 1 THEN seqs[i] ELSE f[i - 1] \o seqs[i]]
    <3>3. /\ \A i \in 1 .. m : g[i] = f[i]
          /\ g[m + 1] = IF m = 0 THEN seqs[m + 1] ELSE f[m] \o seqs[m + 1]
          /\ g = [i \in 1 .. m + 1 |-> g[i]]
      <4>1. m + 1 \in 1 .. m + 1 /\ ~(m + 1 <= m) /\ (m + 1 = 1 <=> m = 0) /\ (m + 1) - 1 = m
        OBVIOUS
      <4>2. g[m + 1] = IF m = 0 THEN seqs[m + 1] ELSE f[m] \o seqs[m + 1]
        BY <4>1
      <4>3. \A i \in 1 .. m : i \in 1 .. m + 1 /\ i <= m
        OBVIOUS
      <4> QED
        BY <4>2, <4>3
    <3> HIDE DEF g
    <3>4. \A i \in 1 .. m + 1 : g[i] = IF i = 1 THEN seqs[i] ELSE g[i - 1] \o seqs[i]
      <4> TAKE i \in 1 .. m + 1
      <4>0. (m + 1) - 1 = m /\ (m # 0 => m \in 1 .. m) /\ (m + 1 = 1 <=> m = 0)
        OBVIOUS
      <4>1. CASE i = m + 1
        <5>1. m # 0 => g[i - 1] = f[m]
          BY <4>0, <4>1, <3>3
        <5> QED
          BY <4>0, <4>1, <5>1, <3>3
      <4>2. CASE i \in 1 .. m
        <5>0. i # 1 => i - 1 \in 1 .. m
          BY <4>2
        <5>1. g[i] = f[i] /\ (i # 1 => g[i - 1] = f[i - 1])
          BY <4>2, <5>0, <3>3
        <5> QED
          BY <4>2, <5>1, <3>2
      <4> QED
        BY <4>1, <4>2
    <3>5. Step(g, m + 1)
      BY <3>3, <3>4
    <3> HIDE DEF Step
    <3> QED
      BY <3>5
  <2> QED
    BY <2>1, <2>2, <1>n, Induction
<1>2. PICK f : f = (CHOOSE h : Step(h, N)) /\ Step(f, N)
  BY <1>1
<1>3. FlattenSeq(seqs) = f[N]
  BY <1>2 DEF FlattenSeq
<1>4. /\ f[1] = seqs[1]
      /\ \A i \in 1 .. N : i # 1 => f[i] = f[i - 1] \o seqs[i]
  <2>1. \A i \in 1 .. N : f[i] = IF i = 1 THEN seqs[i] ELSE f[i - 1] \o seqs[i]
    BY <1>2
  <2>2. 1 \in 1 .. N
    BY <1>n
  <2> HIDE DEF N, Step
  <2> QED
    BY <2>1, <2>2
<1> HIDE DEF Step, N
<1> DEFINE Good(m) ==
              /\ f[m] \in Seq(A)
              /\ ToSet(f[m]) = UNION {ToSet(seqs[i]) : i \in 1 .. m}
           S == {m \in Nat : m + 1 <= N => Good(m + 1)}
<1> HIDE DEF Good
<1>5. 0 \in S
  <2>1. UNION {ToSet(seqs[i]) : i \in 1 .. 1} = ToSet(seqs[1])
    <3>1. 1 .. 1 = {1}
      OBVIOUS
    <3> QED
      BY <3>1
  <2>2. Good(1)
    BY <2>1, <1>4, <1>n DEF Good
  <2> QED
    BY <2>2
<1>6. ASSUME NEW m \in Nat, m \in S PROVE m + 1 \in S
  <2> SUFFICES ASSUME (m + 1) + 1 <= N PROVE Good((m + 1) + 1)
    OBVIOUS
  <2> DEFINE k == m + 1
  <2>1. Good(k) /\ k \in 1 .. N /\ k + 1 \in 1 .. N /\ k + 1 # 1 /\ (k + 1) - 1 = k
    BY <1>6, <1>n
  <2> HIDE DEF k
  <2>2. f[k + 1] = f[k] \o seqs[k + 1] /\ f[k] \in Seq(A) /\ seqs[k + 1] \in Seq(A)
    BY <2>1, <1>4, <1>n DEF Good
  <2>3. f[k + 1] \in Seq(A) /\ ToSet(f[k + 1]) = ToSet(f[k]) \cup ToSet(seqs[k + 1])
    <3>1. f[k] \o seqs[k + 1] \in Seq(A)
      BY <2>2
    <3>2. Range(f[k] \o seqs[k + 1]) = Range(f[k]) \cup Range(seqs[k + 1])
      BY <2>2, RangeConcatenation
    <3> QED
      BY <2>2, <3>1, <3>2 DEF ToSet, Range
  <2>4. UNION {ToSet(seqs[i]) : i \in 1 .. k + 1}
          = (UNION {ToSet(seqs[i]) : i \in 1 .. k}) \cup ToSet(seqs[k + 1])
    <3>1. 1 .. k + 1 = (1 .. k) \cup {k + 1}
      BY <2>1
    <3> QED
      BY <3>1
  <2>5. Good(k + 1)
    BY <2>1, <2>3, <2>4 DEF Good
  <2> QED
    BY <2>5 DEF k
<1>7. Good(N)
  <2>1. Nat \subseteq S
    BY <1>5, <1>6, Induction
  <2>2. N - 1 \in Nat /\ (N - 1) + 1 = N
    BY <1>n DEF N
  <2> QED
    BY <2>1, <2>2
<1> QED
  BY <1>3, <1>7, <1>n DEF Good

------------------------------------------------------------------------------
(* The memory of a conversation. *)

Token == [req : Req, vrn : Nat, idx : Nat, el : Element]
Holder == [tok : Token, age : Nat]
MemoryType ==
    [stm : Seq(Seq(Holder)), lastUsed : Seq(SUBSET Token), ctx : Seq(Seq(Token)),
     idle : 0 .. Delay + 1, attempt : 0 .. MaxDepth + 1]

LEMMA Bounds == MaxDepth \in Nat \ {0} /\ Delay \in Nat \ {0} /\ Timeout \in Nat /\ None \notin Conv
BY ConvAssumption DEF ConvAssumption

\* The holders of a memory.
Holders(stm) == UNION {ToSet(stm[i]) : i \in DOMAIN stm}

\* What TypeOK says of a memory.
MemoryOK(m) ==
    /\ m \in MemoryType
    /\ Len(m.lastUsed) <= MaxDepth
    /\ \A i \in DOMAIN m.stm : m.stm[i] # <<>>
    /\ \A h \in Holders(m.stm) : h.age \in m.idle .. Delay + 1

\* What OneItemPerGroup says of a memory.
Distinct(stm) ==
    \A i, j \in DOMAIN stm : i # j =>
        \A g \in ToSet(stm[i]), h \in ToSet(stm[j]) : GetGroup(g.tok) # GetGroup(h.tok)

LEMMA MemoryHolders ==
    ASSUME NEW m, m.stm \in Seq(Seq(Holder))
    PROVE  Memory(m) = {h.tok : h \in Holders(m.stm)}
<1>1. \A i \in DOMAIN m.stm : ToSet(Toks(m.stm[i])) = {h.tok : h \in ToSet(m.stm[i])}
  BY DEF Toks, ToSet
<1>2. ASSUME NEW t \in Memory(m) PROVE t \in {h.tok : h \in Holders(m.stm)}
  <2>1. PICK i \in DOMAIN m.stm : t \in ToSet(Toks(m.stm[i]))
    BY <1>2 DEF Memory
  <2>2. PICK h \in ToSet(m.stm[i]) : t = h.tok
    BY <2>1, <1>1
  <2>3. h \in Holders(m.stm)
    BY DEF Holders
  <2> QED
    BY <2>2, <2>3
<1>3. ASSUME NEW h \in Holders(m.stm) PROVE h.tok \in Memory(m)
  <2>1. PICK i \in DOMAIN m.stm : h \in ToSet(m.stm[i])
    BY <1>3 DEF Holders
  <2>2. h.tok \in ToSet(Toks(m.stm[i]))
    BY <2>1, <1>1
  <2> QED
    BY <2>2 DEF Memory
<1> QED
  BY <1>2, <1>3

\* squeeze removes the items without holders and nothing else.
LEMMA SqueezeFacts ==
    ASSUME NEW A, NEW stm \in Seq(Seq(A))
    PROVE  /\ squeeze(stm) \in Seq(Seq(A))
           /\ \A i \in DOMAIN squeeze(stm) : squeeze(stm)[i] # <<>>
           /\ Holders(squeeze(stm)) = Holders(stm)
           /\ Distinct(stm) => Distinct(squeeze(stm))
<1> DEFINE K == {i \in DOMAIN stm : stm[i] # <<>>}
           s == Keep(stm, K)
<1>1. squeeze(stm) = s
  BY DEF squeeze
<1>k. DOMAIN stm \cap K = K
  OBVIOUS
<1>2. /\ s \in Seq(Seq(A))
      /\ \A i \in K : \E k \in DOMAIN s : s[k] = stm[i]
      /\ \E at : Selects(at, s, stm, K)
  <2> HIDE DEF K
  <2>1. Keep(stm, K) \in Seq(Seq(A))
    BY KeepFacts
  <2>2. Covers(Keep(stm, K), stm, K)
    BY KeepFacts
  <2>3. \E at : Selects(at, Keep(stm, K), stm, K)
    BY KeepFacts
  <2> QED
    BY <1>k, <2>1, <2>2, <2>3 DEF Covers
<1> HIDE DEF s
<1>3. PICK at : Selects(at, s, stm, K)
  BY <1>2
<1> USE <1>3 DEF Selects
<1>4. \A i \in DOMAIN s : s[i] # <<>>
  BY <1>3
<1>5. Holders(s) \subseteq Holders(stm)
  BY <1>3 DEF Holders
<1>6. Holders(stm) \subseteq Holders(s)
  <2> SUFFICES ASSUME NEW i \in DOMAIN stm, NEW h \in ToSet(stm[i]) PROVE h \in Holders(s)
    BY DEF Holders
  <2>1. i \in K
    <3>1. stm[i] # <<>>
      BY EmptySeq DEF ToSet
    <3> QED
      BY <3>1
  <2> QED
    BY <2>1, <1>2 DEF Holders
<1>7. ASSUME Distinct(stm) PROVE Distinct(s)
  <2>1. \A j, k \in DOMAIN s : j # k => at[j] # at[k]
    <3>1. DOMAIN s \subseteq Nat /\ DOMAIN stm \subseteq Nat
      <4>1. DOMAIN s = 1 .. Len(s) /\ DOMAIN stm = 1 .. Len(stm)
        BY <1>2, LenProperties
      <4>2. Len(s) \in Nat /\ Len(stm) \in Nat
        BY <1>2, LenProperties
      <4> QED
        BY <4>1, <4>2
    <3>2. \A j \in DOMAIN s : at[j] \in Nat
      BY <1>3, <3>1
    <3> TAKE j, k \in DOMAIN s
    <3>3. at[j] \in Nat /\ at[k] \in Nat /\ j \in Nat /\ k \in Nat
      BY <3>1, <3>2
    <3>4. (j < k => at[j] < at[k]) /\ (k < j => at[k] < at[j])
      BY <1>3
    <3> QED
      BY <3>3, <3>4
  <2> QED
    BY <1>3, <1>7, <2>1 DEF Distinct
<1> QED
  BY <1>1, <1>2, <1>4, <1>5, <1>6, <1>7

\* Keeping fewer tokens in each item.
LEMMA TrimFacts ==
    ASSUME NEW stm \in Seq(Seq(Holder)), NEW F, DOMAIN F = DOMAIN stm,
           \A i \in DOMAIN stm :
               F[i] \in Seq(Holder) /\ \A h \in ToSet(F[i]) : \E g \in ToSet(stm[i]) : g.tok = h.tok,
           F = [i \in DOMAIN stm |-> F[i]]
    PROVE  /\ F \in Seq(Seq(Holder))
           /\ Distinct(stm) => Distinct(F)
<1>1. F \in Seq(Seq(Holder))
  <2>1. DOMAIN stm = 1 .. Len(stm) /\ Len(stm) \in Nat
    BY LenProperties
  <2>2. F \in [1 .. Len(stm) -> Seq(Holder)]
    BY <2>1
  <2> QED
    BY <2>1, <2>2, IsASeq
<1>2. ASSUME Distinct(stm) PROVE Distinct(F)
  <2> SUFFICES ASSUME NEW i \in DOMAIN stm, NEW j \in DOMAIN stm, i # j,
                      NEW g \in ToSet(F[i]), NEW h \in ToSet(F[j])
               PROVE  GetGroup(g.tok) # GetGroup(h.tok)
    BY DEF Distinct
  <2>1. PICK g0 \in ToSet(stm[i]) : g0.tok = g.tok
    OBVIOUS
  <2>2. PICK h0 \in ToSet(stm[j]) : h0.tok = h.tok
    OBVIOUS
  <2> QED
    BY <1>2, <2>1, <2>2 DEF Distinct
<1> QED
  BY <1>1, <1>2

\* The elements Keep keeps.
LEMMA KeepElements ==
    ASSUME NEW A, NEW seq \in Seq(A), NEW K
    PROVE  /\ Keep(seq, K) \in Seq(A)
           /\ ToSet(Keep(seq, K)) = {seq[i] : i \in DOMAIN seq \cap K}
<1>1. PICK at : Selects(at, Keep(seq, K), seq, K)
  BY KeepFacts
<1>2. \A i \in DOMAIN seq \cap K : \E k \in DOMAIN Keep(seq, K) : Keep(seq, K)[k] = seq[i]
  BY KeepFacts DEF Covers
<1> QED
  BY <1>1, <1>2, KeepFacts DEF ToSet, Selects

LEMMA AgeFacts ==
    ASSUME NEW cap \in Nat, NEW age \in 0 .. cap
    PROVE  Older(age, cap) \in 0 .. cap /\ Older(age, cap) >= age /\ Older(age, cap) <= age + 1
BY DEF Older

LEMMA MemoryFields ==
    ASSUME NEW m, MemoryOK(m)
    PROVE  /\ m.stm \in Seq(Seq(Holder))
           /\ m.lastUsed \in Seq(SUBSET Token) /\ m.ctx \in Seq(Seq(Token))
           /\ m.idle \in 0 .. Delay + 1 /\ m.attempt \in 0 .. MaxDepth + 1
BY DEF MemoryOK, MemoryType

\* The tokens of the items.
LEMMA ToksFacts ==
    ASSUME NEW stm \in Seq(Seq(Holder))
    PROVE  /\ [i \in DOMAIN stm |-> Toks(stm[i])] \in Seq(Seq(Token))
           /\ UNION {ToSet(Toks(stm[i])) : i \in DOMAIN stm}
                = UNION {ToSet([i \in DOMAIN stm |-> Toks(stm[i])][j]) :
                            j \in DOMAIN [i \in DOMAIN stm |-> Toks(stm[i])]}
<1>1. Len(stm) \in Nat /\ DOMAIN stm = 1 .. Len(stm)
  BY LenProperties
<1>2. \A i \in DOMAIN stm : Toks(stm[i]) \in Seq(Token)
  <2> TAKE i \in DOMAIN stm
  <2> DEFINE q == stm[i]
  <2>1. q \in Seq(Holder)
    BY <1>1, ElementOfSeq
  <2> HIDE DEF q
  <2>2. Len(q) \in Nat /\ DOMAIN q = 1 .. Len(q)
    BY <2>1, LenProperties
  <2>3. \A k \in 1 .. Len(q) : q[k] \in Holder
    BY <2>1, ElementOfSeq
  <2>4. \A k \in 1 .. Len(q) : q[k].tok \in Token
    BY <2>3 DEF Holder
  <2>5. Toks(q) \in [1 .. Len(q) -> Token]
    BY <2>2, <2>4 DEF Toks
  <2> DEFINE p == Toks(q)
             n == Len(q)
  <2>6. p \in [1 .. n -> Token] /\ n \in Nat
    BY <2>2, <2>5
  <2> HIDE DEF p, n
  <2>7. p \in Seq(Token)
    BY <2>6, IsASeq
  <2> QED
    BY <2>7 DEF p, q
<1>3. [i \in DOMAIN stm |-> Toks(stm[i])] \in [1 .. Len(stm) -> Seq(Token)]
  BY <1>1, <1>2
<1>4. [i \in DOMAIN stm |-> Toks(stm[i])] \in Seq(Seq(Token))
  BY <1>1, <1>3, IsASeq
<1> QED
  BY <1>4

\* NCConversation.update.
LEMMA UpdateFacts ==
    ASSUME NEW m, MemoryOK(m)
    PROVE  /\ MemoryOK(update(m))
           /\ update(m).lastUsed = m.lastUsed
           /\ update(m).attempt = Older(m.attempt, MaxDepth + 1)
           /\ Context(update(m)) = Memory(update(m))
           /\ Memory(update(m)) \subseteq Memory(m)
           /\ \A t \in Memory(update(m)) :
                 ~Reset(m) /\ \E i \in DOMAIN m.lastUsed : t \in m.lastUsed[i]
           /\ Distinct(m.stm) => Distinct(update(m).stm)
<1> USE MemoryFields
<1> DEFINE F == [i \in DOMAIN m.stm |->
                    Keep(m.stm[i], {k \in DOMAIN m.stm[i] : Stays(m, m.stm[i][k])})]
           stm == IF Reset(m) THEN <<>> ELSE squeeze(F)
           n == update(m)
<1>0. n = [m EXCEPT !.stm = stm, !.idle = 0, !.attempt = Older(@, MaxDepth + 1),
                    !.ctx = [i \in DOMAIN stm |-> Toks(stm[i])]]
  BY DEF update
<1>1. \A i \in DOMAIN m.stm : m.stm[i] \in Seq(Holder)
  BY LenProperties, ElementOfSeq
<1>2. \A i \in DOMAIN m.stm :
         /\ F[i] \in Seq(Holder)
         /\ \A h \in ToSet(F[i]) : h \in ToSet(m.stm[i]) /\ Stays(m, h)
  <2> TAKE i \in DOMAIN m.stm
  <2> DEFINE q == m.stm[i]
             K == {k \in DOMAIN q : Stays(m, q[k])}
  <2>1. F[i] = Keep(q, K) /\ q \in Seq(Holder)
    BY <1>1
  <2>2. \A k \in DOMAIN q \cap K : q[k] \in ToSet(q) /\ Stays(m, q[k])
    BY DEF ToSet
  <2> HIDE DEF F, q, K
  <2>3. F[i] \in Seq(Holder) /\ ToSet(F[i]) = {q[k] : k \in DOMAIN q \cap K}
    BY <2>1, KeepElements
  <2> QED
    BY <2>2, <2>3 DEF q
<1>3. F = [i \in DOMAIN m.stm |-> F[i]] /\ DOMAIN F = DOMAIN m.stm
  OBVIOUS
<1> HIDE DEF F
<1>4. F \in Seq(Seq(Holder)) /\ (Distinct(m.stm) => Distinct(F))
  BY <1>2, <1>3, TrimFacts
<1>5. \A h \in Holders(F) : h \in Holders(m.stm) /\ Stays(m, h)
  BY <1>2, <1>3 DEF Holders
<1>6. /\ stm \in Seq(Seq(Holder))
      /\ \A i \in DOMAIN stm : stm[i] # <<>>
      /\ \A h \in Holders(stm) : h \in Holders(m.stm) /\ Stays(m, h) /\ ~Reset(m)
      /\ Distinct(m.stm) => Distinct(stm)
  <2>1. CASE Reset(m)
    <3>1. stm = <<>> /\ DOMAIN stm = {} /\ stm \in Seq(Seq(Holder))
      BY <2>1, EmptySeq
    <3>2. Holders(stm) = {}
      BY <3>1 DEF Holders
    <3>3. Distinct(stm)
      BY <3>1 DEF Distinct
    <3> QED
      BY <3>1, <3>2, <3>3
  <2>2. CASE ~Reset(m)
    <3>1. stm = squeeze(F)
      BY <2>2
    <3> QED
      BY <3>1, <2>2, <1>4, <1>5, SqueezeFacts
  <2> QED
    BY <2>1, <2>2
<1> HIDE DEF stm
<1>7. /\ n.stm = stm /\ n.idle = 0 /\ n.attempt = Older(m.attempt, MaxDepth + 1)
      /\ n.lastUsed = m.lastUsed /\ n.ctx = [i \in DOMAIN stm |-> Toks(stm[i])]
      /\ n = [stm |-> n.stm, lastUsed |-> n.lastUsed, ctx |-> n.ctx,
              idle |-> n.idle, attempt |-> n.attempt]
  BY <1>0 DEF MemoryOK, MemoryType
<1> HIDE DEF n
<1>c. n.ctx \in Seq(Seq(Token))
  <2>1. [i \in DOMAIN stm |-> Toks(stm[i])] \in Seq(Seq(Token))
    BY <1>6, ToksFacts
  <2> QED
    BY <1>7, <2>1
<1>8. MemoryOK(n)
  <2>1. n.attempt \in 0 .. MaxDepth + 1
    <3>1. MaxDepth + 1 \in Nat /\ m.attempt \in 0 .. MaxDepth + 1
      BY Bounds
    <3> QED
      BY <1>7, <3>1, AgeFacts
  <2>2. n.idle \in 0 .. Delay + 1
    BY <1>7, Bounds
  <2>3. n.lastUsed \in Seq(SUBSET Token) /\ n.stm \in Seq(Seq(Holder))
    BY <1>6, <1>7
  <2>4. n \in MemoryType
    BY <2>1, <2>2, <2>3, <1>c, <1>7 DEF MemoryType
  <2>5. \A h \in Holders(stm) : h.age \in n.idle .. Delay + 1
    <3> TAKE h \in Holders(stm)
    <3>1. h.age \in m.idle .. Delay + 1 /\ m.idle \in 0 .. Delay + 1
      BY <1>6 DEF MemoryOK
    <3> QED
      BY <3>1, <1>7, Bounds
  <2>6. Len(n.lastUsed) <= MaxDepth
    BY <1>7 DEF MemoryOK
  <2>7. \A i \in DOMAIN n.stm : n.stm[i] # <<>>
    BY <1>6, <1>7
  <2>8. \A h \in Holders(n.stm) : h.age \in n.idle .. Delay + 1
    BY <2>5, <1>7
  <2> QED
    BY <2>4, <2>6, <2>7, <2>8 DEF MemoryOK
<1>9. Context(n) = Memory(n)
  <2>1. Context(n) = UNION {ToSet(n.ctx[i]) : i \in DOMAIN n.ctx}
    BY <1>c, FlattenFacts DEF Context
  <2> QED
    BY <2>1, <1>6, <1>7, ToksFacts DEF Memory
<1>10. Memory(n) = {h.tok : h \in Holders(stm)} /\ Memory(m) = {h.tok : h \in Holders(m.stm)}
  BY <1>6, <1>7, MemoryHolders
<1>11. /\ Memory(n) \subseteq Memory(m)
       /\ \A t \in Memory(n) : ~Reset(m) /\ \E i \in DOMAIN m.lastUsed : t \in m.lastUsed[i]
  BY <1>6, <1>10 DEF Stays
<1> QED
  BY <1>6, <1>7, <1>8, <1>9, <1>11 DEF n

\* The holders of an item are indexed from 1.
LEMMA ItemFacts ==
    ASSUME NEW stm \in Seq(Seq(Holder)), NEW i \in DOMAIN stm
    PROVE  /\ stm[i] \in Seq(Holder)
           /\ \A k \in DOMAIN stm[i] :
                 stm[i][k] \in Holder /\ stm[i][k] \in ToSet(stm[i]) /\ stm[i][k] \in Holders(stm)
<1> DEFINE q == stm[i]
<1>1. q \in Seq(Holder)
  BY LenProperties, ElementOfSeq
<1>2. \A k \in DOMAIN q : q[k] \in ToSet(q)
  BY DEF ToSet
<1>3. ToSet(q) \subseteq Holders(stm)
  BY DEF Holders
<1> HIDE DEF q
<1>4. \A k \in DOMAIN q : q[k] \in Holder
  BY <1>1, LenProperties, ElementOfSeq
<1> QED
  BY <1>1, <1>2, <1>3, <1>4 DEF q

\* NCConversation.clear.
LEMMA ClearFacts ==
    ASSUME NEW m, MemoryOK(m), NEW toks
    PROVE  /\ MemoryOK(clear(m, toks))
           /\ clear(m, toks).lastUsed = m.lastUsed
           /\ clear(m, toks).attempt = m.attempt
           /\ clear(m, toks).ctx = m.ctx
           /\ Memory(clear(m, toks)) \subseteq Memory(m)
           /\ Distinct(m.stm) => Distinct(clear(m, toks).stm)
<1> USE MemoryFields
<1> DEFINE F == [i \in DOMAIN m.stm |->
                    Keep(m.stm[i], {k \in DOMAIN m.stm[i] : m.stm[i][k].tok \notin toks})]
           stm == squeeze(F)
           n == clear(m, toks)
<1>0. n = [m EXCEPT !.stm = stm]
  BY DEF clear
<1>1. \A i \in DOMAIN m.stm : F[i] \in Seq(Holder) /\ \A h \in ToSet(F[i]) : h \in ToSet(m.stm[i])
  <2> TAKE i \in DOMAIN m.stm
  <2> DEFINE q == m.stm[i]
             K == {k \in DOMAIN q : q[k].tok \notin toks}
  <2>1. F[i] = Keep(q, K) /\ q \in Seq(Holder)
    BY ItemFacts
  <2>2. \A k \in DOMAIN q : q[k] \in ToSet(q)
    BY DEF ToSet
  <2> HIDE DEF F, q, K
  <2>3. F[i] \in Seq(Holder) /\ ToSet(F[i]) = {q[k] : k \in DOMAIN q \cap K}
    BY <2>1, KeepElements
  <2> QED
    BY <2>2, <2>3 DEF q
<1>2. F = [i \in DOMAIN m.stm |-> F[i]] /\ DOMAIN F = DOMAIN m.stm
  OBVIOUS
<1> HIDE DEF F
<1>3. F \in Seq(Seq(Holder)) /\ (Distinct(m.stm) => Distinct(F))
  BY <1>1, <1>2, TrimFacts
<1>4. Holders(F) \subseteq Holders(m.stm)
  BY <1>1, <1>2 DEF Holders
<1>5. /\ stm \in Seq(Seq(Holder))
      /\ \A i \in DOMAIN stm : stm[i] # <<>>
      /\ Holders(stm) \subseteq Holders(m.stm)
      /\ Distinct(m.stm) => Distinct(stm)
  BY <1>3, <1>4, SqueezeFacts
<1> HIDE DEF stm
<1>6. /\ n.stm = stm /\ n.idle = m.idle /\ n.attempt = m.attempt
      /\ n.lastUsed = m.lastUsed /\ n.ctx = m.ctx /\ n \in MemoryType
  BY <1>0, <1>5 DEF MemoryOK, MemoryType
<1> HIDE DEF n
<1>7. MemoryOK(n)
  BY <1>5, <1>6 DEF MemoryOK
<1>8. Memory(n) = {h.tok : h \in Holders(stm)} /\ Memory(m) = {h.tok : h \in Holders(m.stm)}
  BY <1>5, <1>6, MemoryHolders
<1> QED
  BY <1>5, <1>6, <1>7, <1>8 DEF n

\* The clock.
LEMMA OlderFacts ==
    ASSUME NEW m, MemoryOK(m)
    PROVE  /\ MemoryOK(older(m))
           /\ older(m).lastUsed = m.lastUsed
           /\ older(m).attempt = m.attempt
           /\ older(m).ctx = m.ctx
           /\ Memory(older(m)) = Memory(m)
           /\ older(m).stm = <<>> <=> m.stm = <<>>
           /\ Distinct(m.stm) => Distinct(older(m).stm)
<1> USE MemoryFields, Bounds
<1> DEFINE F == [i \in DOMAIN m.stm |-> [k \in DOMAIN m.stm[i] |-> aged(m.stm[i][k])]]
           n == older(m)
<1>0. n = [m EXCEPT !.idle = Older(@, Delay + 1), !.stm = F]
  BY DEF older
<1>1. \A h \in Holders(m.stm) : h \in Holder /\ h.age \in m.idle .. Delay + 1
  <2> TAKE h \in Holders(m.stm)
  <2>1. PICK i \in DOMAIN m.stm : h \in ToSet(m.stm[i])
    BY DEF Holders
  <2>2. PICK k \in DOMAIN m.stm[i] : h = m.stm[i][k]
    BY <2>1 DEF ToSet
  <2> QED
    BY <2>2, ItemFacts DEF MemoryOK
<1>2. Older(m.idle, Delay + 1) \in 0 .. Delay + 1
  <2>1. m.idle \in 0 .. Delay + 1 /\ Delay + 1 \in Nat
    OBVIOUS
  <2> QED
    BY <2>1, AgeFacts
<1>3. \A h \in Holders(m.stm) :
         /\ aged(h) \in Holder /\ aged(h).tok = h.tok
         /\ aged(h).age \in Older(m.idle, Delay + 1) .. Delay + 1
  <2> TAKE h \in Holders(m.stm)
  <2>1. h \in Holder /\ h.age \in m.idle .. Delay + 1 /\ m.idle \in 0 .. Delay + 1
    BY <1>1
  <2>2. Older(h.age, Delay + 1) \in Older(m.idle, Delay + 1) .. Delay + 1
    BY <2>1 DEF Older
  <2>3. /\ aged(h).age = Older(h.age, Delay + 1) /\ aged(h).tok = h.tok
        /\ aged(h) = [tok |-> aged(h).tok, age |-> aged(h).age]
    BY <2>1 DEF Holder, aged
  <2>4. Older(h.age, Delay + 1) \in Nat
    BY <2>2, <1>2
  <2> QED
    BY <2>1, <2>2, <2>3, <2>4 DEF Holder
<1>4. \A i \in DOMAIN m.stm :
         /\ F[i] \in Seq(Holder) /\ F[i] # <<>>
         /\ ToSet(F[i]) = {aged(h) : h \in ToSet(m.stm[i])}
  <2> TAKE i \in DOMAIN m.stm
  <2> DEFINE q == m.stm[i]
             p == F[i]
             l == Len(q)
  <2>1. q \in Seq(Holder) /\ l \in Nat /\ DOMAIN q = 1 .. l /\ q # <<>>
    BY ItemFacts, LenProperties DEF MemoryOK
  <2>2. \A k \in DOMAIN q : q[k] \in Holders(m.stm) /\ aged(q[k]) \in Holder
    BY ItemFacts, <1>3
  <2>3. p = [k \in DOMAIN q |-> aged(q[k])]
    OBVIOUS
  <2>4. l # 0
    BY <2>1, EmptySeq
  <2> HIDE DEF q, p, l
  <2>5. p \in [1 .. l -> Holder]
    BY <2>1, <2>2, <2>3
  <2>6. p \in Seq(Holder)
    BY <2>1, <2>5, IsASeq
  <2>7. p # <<>>
    <3>1. 1 \in DOMAIN p
      BY <2>1, <2>4, <2>5
    <3> QED
      BY <3>1
  <2>8. ToSet(p) = {aged(h) : h \in ToSet(q)}
    BY <2>3 DEF ToSet
  <2> QED
    BY <2>6, <2>7, <2>8 DEF p, q
<1>5. F = [i \in DOMAIN m.stm |-> F[i]] /\ DOMAIN F = DOMAIN m.stm
  OBVIOUS
<1> HIDE DEF F
<1>6. \A i \in DOMAIN m.stm :
         F[i] \in Seq(Holder) /\ \A h \in ToSet(F[i]) : \E g \in ToSet(m.stm[i]) : g.tok = h.tok
  <2> TAKE i \in DOMAIN m.stm
  <2>1. F[i] \in Seq(Holder) /\ ToSet(F[i]) = {aged(h) : h \in ToSet(m.stm[i])}
    BY <1>4
  <2>2. \A h \in ToSet(m.stm[i]) : aged(h).tok = h.tok
    BY <1>3 DEF Holders
  <2> QED
    BY <2>1, <2>2
<1>7. F \in Seq(Seq(Holder)) /\ (Distinct(m.stm) => Distinct(F))
  BY <1>5, <1>6, TrimFacts
<1>8. Holders(F) = {aged(h) : h \in Holders(m.stm)}
  <2>1. Holders(F) = UNION {ToSet(F[i]) : i \in DOMAIN m.stm}
    BY <1>5 DEF Holders
  <2>2. \A i \in DOMAIN m.stm : ToSet(F[i]) = {aged(h) : h \in ToSet(m.stm[i])}
    BY <1>4
  <2>3. ASSUME NEW g \in Holders(F) PROVE \E h \in Holders(m.stm) : g = aged(h)
    <3>1. PICK i \in DOMAIN m.stm : g \in ToSet(F[i])
      BY <2>1, <2>3
    <3>2. PICK h \in ToSet(m.stm[i]) : g = aged(h)
      BY <2>2, <3>1
    <3> QED
      BY <3>2 DEF Holders
  <2>4. ASSUME NEW h \in Holders(m.stm) PROVE aged(h) \in Holders(F)
    <3>1. PICK i \in DOMAIN m.stm : h \in ToSet(m.stm[i])
      BY <2>4 DEF Holders
    <3>2. aged(h) \in ToSet(F[i])
      BY <2>2, <3>1
    <3> QED
      BY <2>1, <3>2
  <2> QED
    BY <2>3, <2>4
<1>9. /\ n.stm = F /\ n.idle = Older(m.idle, Delay + 1) /\ n.attempt = m.attempt
      /\ n.lastUsed = m.lastUsed /\ n.ctx = m.ctx
      /\ n = [stm |-> n.stm, lastUsed |-> n.lastUsed, ctx |-> n.ctx,
              idle |-> n.idle, attempt |-> n.attempt]
  BY <1>0 DEF MemoryOK, MemoryType
<1> HIDE DEF n
<1>10. n \in MemoryType
  BY <1>2, <1>7, <1>9 DEF MemoryType
<1>11. MemoryOK(n)
  <2>1. \A h \in Holders(n.stm) : h.age \in n.idle .. Delay + 1
    BY <1>3, <1>8, <1>9
  <2>2. \A i \in DOMAIN n.stm : n.stm[i] # <<>>
    BY <1>4, <1>5, <1>9
  <2> QED
    BY <1>9, <1>10, <2>1, <2>2 DEF MemoryOK
<1>12. Memory(n) = {h.tok : h \in Holders(F)} /\ Memory(m) = {h.tok : h \in Holders(m.stm)}
  BY <1>7, <1>9, MemoryHolders
<1>13. Memory(n) = Memory(m)
  <2>1. \A t \in Memory(n) : t \in Memory(m)
    <3> TAKE t \in Memory(n)
    <3>1. PICK h \in Holders(m.stm) : t = aged(h).tok
      BY <1>8, <1>12
    <3> QED
      BY <3>1, <1>3, <1>12
  <2>2. ASSUME NEW h \in Holders(m.stm) PROVE h.tok \in Memory(n)
    <3>1. aged(h) \in Holders(F) /\ aged(h).tok = h.tok
      BY <1>3, <1>8
    <3> QED
      BY <3>1, <1>12
  <2> QED
    BY <2>1, <2>2, <1>12
<1>14. F = <<>> <=> m.stm = <<>>
  <2>1. /\ F = <<>> <=> DOMAIN F = {}
        /\ m.stm = <<>> <=> DOMAIN m.stm = {}
    <3>1. \A s \in Seq(Seq(Holder)) : s = <<>> <=> DOMAIN s = {}
      BY EmptySeq, LenProperties
    <3> QED
      BY <3>1, <1>7
  <2> QED
    BY <2>1, <1>5
<1> QED
  BY <1>7, <1>9, <1>11, <1>13, <1>14 DEF n

\* The last n elements of a sequence, counted from its end.
LEMMA LastOnesFacts ==
    ASSUME NEW A, NEW seq \in Seq(A), NEW n \in Nat
    PROVE  /\ LastOnes(seq, n) \in Seq(A)
           /\ Len(LastOnes(seq, n)) <= n /\ Len(LastOnes(seq, n)) <= Len(seq)
           /\ \A i \in DOMAIN LastOnes(seq, n) :
                 \E k \in DOMAIN seq : /\ LastOnes(seq, n)[i] = seq[k]
                                       /\ Len(LastOnes(seq, n)) - i = Len(seq) - k
<1> DEFINE L == LastOnes(seq, n)
           N == Len(seq)
<1>1. N \in Nat /\ DOMAIN seq = 1 .. N
  BY LenProperties
<1>2. CASE N > n
  <2>1. L = SubSeq(seq, N - n + 1, N)
    BY <1>2 DEF LastOnes
  <2>2. N - n + 1 \in 1 .. N + 1 /\ N \in N - n .. N
    BY <1>1, <1>2
  <2>3. /\ L \in Seq(A) /\ Len(L) = n
        /\ \A i \in 1 .. n : L[i] = seq[(N - n + 1) + i - 1]
    <3> DEFINE a == N - n + 1
    <3>1. a \in Int /\ N \in Int /\ N - a + 1 = n /\ (a <= N <=> n # 0)
      BY <1>1, <1>2
    <3>2. \A i \in a .. N : seq[i] \in A
      BY <1>1, <2>2, ElementOfSeq
    <3> HIDE DEF L, N, a
    <3>3. /\ SubSeq(seq, a, N) \in Seq(A)
          /\ Len(SubSeq(seq, a, N)) = IF a <= N THEN N - a + 1 ELSE 0
          /\ \A i \in 1 .. N - a + 1 : SubSeq(seq, a, N)[i] = seq[a + i - 1]
      BY <3>1, <3>2, SubSeqProperties
    <3>4. L = SubSeq(seq, a, N)
      BY <2>1 DEF a
    <3>5. L \in Seq(A) /\ Len(L) = n /\ \A i \in 1 .. n : L[i] = seq[a + i - 1]
      BY <3>1, <3>3, <3>4
    <3> QED
      BY <3>5 DEF a
  <2> HIDE DEF L, N
  <2>4. DOMAIN L = 1 .. n
    BY <2>3, LenProperties
  <2>5. \A i \in 1 .. n : N - n + i \in 1 .. N /\ (N - n + 1) + i - 1 = N - n + i
                          /\ n - i = N - (N - n + i)
    BY <1>1, <1>2
  <2>6. \A i \in 1 .. n : L[i] = seq[N - n + i]
    BY <2>3, <2>5
  <2>7. \A i \in DOMAIN L : \E k \in DOMAIN seq : L[i] = seq[k] /\ Len(L) - i = N - k
    <3> TAKE i \in DOMAIN L
    <3>1. i \in 1 .. n
      BY <2>4
    <3>2. /\ N - n + i \in DOMAIN seq /\ L[i] = seq[N - n + i]
          /\ Len(L) - i = N - (N - n + i)
      BY <3>1, <1>1, <2>3, <2>5, <2>6
    <3> QED
      BY <3>2
  <2>8. n <= N
    BY <1>1, <1>2
  <2> QED
    BY <2>3, <2>7, <2>8 DEF L, N
<1>3. CASE ~(N > n)
  BY <1>1, <1>3 DEF LastOnes
<1> QED
  BY <1>2, <1>3

\* The tokens of a request that an answer adds.
LEMMA OwnFacts ==
    ASSUME NEW r, NEW used \in Seq(Token)
    PROVE  /\ OwnTokens(r, used) \in Seq(Token)
           /\ \A t \in ToSet(OwnTokens(r, used)) : t \in ToSet(used) /\ t.req = r
<1> DEFINE K == {i \in DOMAIN used : used[i].req = r /\ ~IsFreeWord(used[i]) /\ ~IsStopWord(used[i])}
<1>1. OwnTokens(r, used) = Keep(used, K)
  BY DEF OwnTokens
<1>2. \A i \in DOMAIN used \cap K : used[i] \in ToSet(used) /\ used[i].req = r
  BY DEF ToSet
<1> HIDE DEF K
<1> QED
  BY <1>1, <1>2, KeepElements

\* A usage time that is refreshed.
LEMMA RefreshedFacts ==
    ASSUME NEW m, MemoryOK(m), NEW used, NEW h \in Holder, h.age \in m.idle .. Delay + 1
    PROVE  LET g == Refreshed(m, h, used)
           IN  /\ g \in Holder /\ g.tok = h.tok /\ g.age \in m.idle .. Delay + 1
               /\ h.tok \in ToSet(used) => g = [tok |-> h.tok, age |-> m.idle]
<1> DEFINE g == Refreshed(m, h, used)
<1>1. m.idle \in 0 .. Delay + 1 /\ Delay \in Nat
  BY MemoryFields, Bounds
<1>2. CASE h.tok \in ToSet(used)
  <2>1. g = [h EXCEPT !.age = m.idle]
    BY <1>2 DEF Refreshed
  <2>2. g = [tok |-> h.tok, age |-> m.idle]
    BY <2>1 DEF Holder
  <2> QED
    BY <1>1, <2>2 DEF Holder
<1>3. CASE h.tok \notin ToSet(used)
  BY <1>3 DEF Refreshed
<1> QED
  BY <1>2, <1>3

\* NCConversation.addItem, what it leaves in the memory.
LEMMA AddItemFacts ==
    ASSUME NEW m, MemoryOK(m), NEW r, NEW used \in Seq(Token)
    PROVE  LET n == addItem(m, r, used)
               own == OwnTokens(r, used)
               seq == Append(m.lastUsed, ToSet(used))
           IN  /\ MemoryOK(n)
               /\ n.lastUsed = LastOnes(seq, MaxDepth)
               /\ n.attempt = 0 /\ n.ctx = m.ctx /\ n.idle = m.idle
               /\ Memory(n) \subseteq Memory(m) \cup ToSet(own)
               /\ Distinct(m.stm) => Distinct(n.stm)
               /\ own # <<>> /\ Distinct(m.stm) =>
                     \A t \in ToSet(used) \cap Memory(m) :
                        (\A s \in ToSet(own) : GetGroup(s) # GetGroup(t))
                           => [tok |-> t, age |-> m.idle] \in Holders(n.stm)
<1> USE MemoryFields, Bounds
<1> DEFINE own == OwnTokens(r, used)
           seq == Append(m.lastUsed, ToSet(used))
           new == [i \in DOMAIN own |-> [tok |-> own[i], age |-> m.idle]]
           stm == Append(m.stm, new)
           Left(i) == Keep(stm[i], {k \in DOMAIN stm[i] : ~Overridden(stm, i, stm[i][k])})
           G == [i \in DOMAIN stm |-> [k \in DOMAIN Left(i) |-> Refreshed(m, Left(i)[k], used)]]
           n == addItem(m, r, used)
           N == Len(m.stm)
<1>0. n = [m EXCEPT !.attempt = 0, !.lastUsed = LastOnes(seq, MaxDepth),
                    !.stm = IF own = <<>> THEN m.stm ELSE squeeze(G)]
  BY DEF addItem
<1>1. /\ own \in Seq(Token) /\ N \in Nat /\ DOMAIN m.stm = 1 .. N
      /\ m.idle \in 0 .. Delay + 1 /\ Delay \in Nat /\ m.idle \in Nat
  BY OwnFacts, LenProperties
<1>2. \A h \in Holders(m.stm) : h \in Holder /\ h.age \in m.idle .. Delay + 1
  <2> TAKE h \in Holders(m.stm)
  <2>1. PICK i \in DOMAIN m.stm : h \in ToSet(m.stm[i])
    BY DEF Holders
  <2>2. PICK k \in DOMAIN m.stm[i] : h = m.stm[i][k]
    BY <2>1 DEF ToSet
  <2> QED
    BY <2>2, ItemFacts DEF MemoryOK
<1>3. /\ new \in Seq(Holder)
      /\ ToSet(new) = {[tok |-> t, age |-> m.idle] : t \in ToSet(own)}
  <2> DEFINE p == own
             l == Len(p)
             q == new
             Of(t) == [tok |-> t, age |-> m.idle]
  <2>1. p \in Seq(Token) /\ l \in Nat /\ DOMAIN p = 1 .. l /\ \A i \in 1 .. l : p[i] \in Token
    BY <1>1, LenProperties, ElementOfSeq
  <2>2. q = [i \in DOMAIN p |-> Of(p[i])]
    OBVIOUS
  <2>3. \A t \in Token : Of(t) \in Holder
    BY <1>1 DEF Holder
  <2> HIDE DEF p, l, q, Of
  <2>4. q \in [1 .. l -> Holder]
    BY <2>1, <2>2, <2>3
  <2>5. q \in Seq(Holder)
    BY <2>1, <2>4, IsASeq
  <2>6. ToSet(q) = {Of(t) : t \in ToSet(p)}
    BY <2>2 DEF ToSet
  <2> QED
    BY <2>5, <2>6 DEF p, q, Of
<1> HIDE DEF new
<1>4. /\ stm \in Seq(Seq(Holder)) /\ DOMAIN stm = 1 .. N + 1
      /\ \A i \in 1 .. N : stm[i] = m.stm[i]
      /\ stm[N + 1] = new
  BY <1>1, <1>3, AppendProperties, LenProperties
<1> HIDE DEF stm
<1>5. \A h \in Holders(stm) : h \in Holder /\ h.age \in m.idle .. Delay + 1
  <2> TAKE h \in Holders(stm)
  <2>1. PICK i \in 1 .. N + 1 : h \in ToSet(stm[i])
    BY <1>4 DEF Holders
  <2>2. CASE i = N + 1
    <3>1. PICK t \in ToSet(own) : h = [tok |-> t, age |-> m.idle]
      BY <2>1, <2>2, <1>3, <1>4
    <3>2. t \in Token
      BY <1>1, ElementOfSeq, LenProperties DEF ToSet
    <3>3. h \in Holder
      BY <1>1, <3>1, <3>2 DEF Holder
    <3> QED
      BY <1>1, <3>1, <3>3
  <2>3. CASE i # N + 1
    <3>1. i \in DOMAIN m.stm /\ h \in ToSet(m.stm[i])
      BY <1>1, <1>4, <2>1, <2>3
    <3> QED
      BY <3>1, <1>2 DEF Holders
  <2> QED
    BY <2>2, <2>3
<1>6. \A i \in DOMAIN stm :
         /\ Left(i) \in Seq(Holder)
         /\ \A h : h \in ToSet(Left(i)) <=> h \in ToSet(stm[i]) /\ ~Overridden(stm, i, h)
  <2> TAKE i \in DOMAIN stm
  <2> DEFINE q == stm[i]
             K == {k \in DOMAIN q : ~Overridden(stm, i, q[k])}
  <2>1. Left(i) = Keep(q, K) /\ q \in Seq(Holder)
    BY <1>4, ItemFacts
  <2>2. \A h : h \in {q[k] : k \in DOMAIN q \cap K} <=> h \in ToSet(q) /\ ~Overridden(stm, i, h)
    BY DEF ToSet
  <2> HIDE DEF Left, q, K
  <2>3. Left(i) \in Seq(Holder) /\ ToSet(Left(i)) = {q[k] : k \in DOMAIN q \cap K}
    BY <2>1, KeepElements
  <2> QED
    BY <2>2, <2>3 DEF q
<1> HIDE DEF Left
<1>7. \A i \in DOMAIN stm :
         /\ G[i] \in Seq(Holder)
         /\ \A g \in ToSet(G[i]) :
               \E h \in ToSet(stm[i]) : ~Overridden(stm, i, h) /\ g = Refreshed(m, h, used)
         /\ \A h \in ToSet(stm[i]) :
               ~Overridden(stm, i, h) => Refreshed(m, h, used) \in ToSet(G[i])
  <2> TAKE i \in DOMAIN stm
  <2> DEFINE q == Left(i)
             p == G[i]
             l == Len(q)
  <2>1. q \in Seq(Holder) /\ l \in Nat /\ DOMAIN q = 1 .. l
    BY <1>6, LenProperties
  <2>2. \A h \in ToSet(q) : h \in Holders(stm)
    BY <1>6 DEF Holders
  <2>3. \A k \in DOMAIN q : Refreshed(m, q[k], used) \in Holder
    <3> TAKE k \in DOMAIN q
    <3>1. q[k] \in Holder /\ q[k].age \in m.idle .. Delay + 1
      BY <2>2, <1>5 DEF ToSet
    <3> QED
      BY <3>1, RefreshedFacts
  <2>4. p = [k \in DOMAIN q |-> Refreshed(m, q[k], used)]
    OBVIOUS
  <2> HIDE DEF q, p, l
  <2>5. p \in [1 .. l -> Holder]
    BY <2>1, <2>3, <2>4
  <2>6. p \in Seq(Holder)
    BY <2>1, <2>5, IsASeq
  <2>7. ToSet(p) = {Refreshed(m, h, used) : h \in ToSet(q)}
    BY <2>4 DEF ToSet
  <2>8. \A h : h \in ToSet(q) <=> h \in ToSet(stm[i]) /\ ~Overridden(stm, i, h)
    BY <1>6 DEF q
  <2>9. \A g \in ToSet(p) :
           \E h \in ToSet(stm[i]) : ~Overridden(stm, i, h) /\ g = Refreshed(m, h, used)
    BY <2>7, <2>8
  <2>10. \A h \in ToSet(stm[i]) : ~Overridden(stm, i, h) => Refreshed(m, h, used) \in ToSet(p)
    BY <2>7, <2>8
  <2> QED
    BY <2>6, <2>9, <2>10 DEF p
<1>8. G = [i \in DOMAIN stm |-> G[i]] /\ DOMAIN G = DOMAIN stm
  OBVIOUS
<1> HIDE DEF G
<1>9. \A h \in Holders(stm) :
         LET g == Refreshed(m, h, used)
         IN  /\ g \in Holder /\ g.tok = h.tok /\ g.age \in m.idle .. Delay + 1
             /\ h.tok \in ToSet(used) => g = [tok |-> h.tok, age |-> m.idle]
  BY <1>5, RefreshedFacts
<1>10. G \in Seq(Seq(Holder))
  <2> DEFINE l == N + 1
  <2>1. l \in Nat
    BY <1>1
  <2> HIDE DEF N
  <2>2. G \in [DOMAIN stm -> Seq(Holder)] /\ DOMAIN stm = 1 .. l
    BY <1>4, <1>7, <1>8
  <2> HIDE DEF l
  <2> QED
    BY <2>1, <2>2, IsASeq
<1>11. \A i, j \in DOMAIN stm : i < j =>
          \A g \in ToSet(G[i]), h \in ToSet(G[j]) : GetGroup(g.tok) # GetGroup(h.tok)
  <2> SUFFICES ASSUME NEW i \in DOMAIN stm, NEW j \in DOMAIN stm, i < j,
                      NEW g \in ToSet(G[i]), NEW h \in ToSet(G[j])
               PROVE  GetGroup(g.tok) # GetGroup(h.tok)
    OBVIOUS
  <2>1. PICK g0 \in ToSet(stm[i]) : ~Overridden(stm, i, g0) /\ g = Refreshed(m, g0, used)
    BY <1>7
  <2>2. PICK h0 \in ToSet(stm[j]) : h = Refreshed(m, h0, used)
    BY <1>7
  <2>3. g0 \in Holders(stm) /\ h0 \in Holders(stm)
    BY DEF Holders
  <2>4. g.tok = g0.tok /\ h.tok = h0.tok
    BY <2>1, <2>2, <2>3, <1>9
  <2>5. PICK k \in DOMAIN stm[j] : h0 = stm[j][k]
    BY DEF ToSet
  <2>6. GetGroup(stm[j][k].tok) # GetGroup(g0.tok)
    BY <2>1, <2>5 DEF Overridden
  <2> QED
    BY <2>4, <2>5, <2>6
<1>12. Distinct(G)
  <2> SUFFICES ASSUME NEW i \in DOMAIN stm, NEW j \in DOMAIN stm, i # j,
                      NEW g \in ToSet(G[i]), NEW h \in ToSet(G[j])
               PROVE  GetGroup(g.tok) # GetGroup(h.tok)
    BY <1>8 DEF Distinct
  <2>1. i < j \/ j < i
    BY <1>1, <1>4
  <2> QED
    BY <2>1, <1>11
<1>13. \A g \in Holders(G) : \E h \in Holders(stm) : g = Refreshed(m, h, used)
  <2> TAKE g \in Holders(G)
  <2>1. PICK i \in DOMAIN stm : g \in ToSet(G[i])
    BY <1>8 DEF Holders
  <2>2. PICK h \in ToSet(stm[i]) : g = Refreshed(m, h, used)
    BY <2>1, <1>7
  <2> QED
    BY <2>2 DEF Holders
<1>14. Holders(squeeze(G)) = Holders(G) /\ squeeze(G) \in Seq(Seq(Holder))
  BY <1>10, SqueezeFacts
<1>15. /\ n.stm = IF own = <<>> THEN m.stm ELSE squeeze(G)
       /\ n.attempt = 0 /\ n.lastUsed = LastOnes(seq, MaxDepth)
       /\ n.ctx = m.ctx /\ n.idle = m.idle
       /\ n = [stm |-> n.stm, lastUsed |-> n.lastUsed, ctx |-> n.ctx,
               idle |-> n.idle, attempt |-> n.attempt]
  BY <1>0 DEF MemoryOK, MemoryType
<1> HIDE DEF n
<1>16. /\ n.stm \in Seq(Seq(Holder))
       /\ \A i \in DOMAIN n.stm : n.stm[i] # <<>>
       /\ \A h \in Holders(n.stm) : h.age \in m.idle .. Delay + 1
       /\ Distinct(m.stm) => Distinct(n.stm)
  <2>1. CASE own = <<>>
    BY <2>1, <1>2, <1>15 DEF MemoryOK
  <2>2. CASE own # <<>>
    <3>1. n.stm = squeeze(G)
      BY <2>2, <1>15
    <3>2. \A h \in Holders(G) : h.age \in m.idle .. Delay + 1
      BY <1>9, <1>13
    <3>3. Distinct(squeeze(G)) /\ \A i \in DOMAIN squeeze(G) : squeeze(G)[i] # <<>>
      BY <1>10, <1>12, SqueezeFacts
    <3> QED
      BY <3>1, <3>2, <3>3, <1>14
  <2> QED
    BY <2>1, <2>2
<1>17. /\ n.lastUsed \in Seq(SUBSET Token)
       /\ Len(n.lastUsed) <= MaxDepth
  <2>1. ToSet(used) \in SUBSET Token
    BY ElementOfSeq, LenProperties DEF ToSet
  <2>2. seq \in Seq(SUBSET Token)
    BY <2>1, AppendProperties
  <2> HIDE DEF seq
  <2>3. LastOnes(seq, MaxDepth) \in Seq(SUBSET Token) /\ Len(LastOnes(seq, MaxDepth)) <= MaxDepth
    BY <2>2, LastOnesFacts
  <2> QED
    BY <2>3, <1>15
<1>18. MemoryOK(n)
  <2>1. n.attempt \in 0 .. MaxDepth + 1
    BY <1>15
  <2>2. n \in MemoryType
    BY <2>1, <1>15, <1>16, <1>17 DEF MemoryType
  <2> QED
    BY <2>2, <1>15, <1>16, <1>17 DEF MemoryOK
<1>19. Memory(n) = {h.tok : h \in Holders(n.stm)} /\ Memory(m) = {h.tok : h \in Holders(m.stm)}
  BY <1>16, MemoryHolders
<1>20. \A h \in Holders(stm) : h \in Holders(m.stm) \/ h.tok \in ToSet(own)
  <2> TAKE h \in Holders(stm)
  <2>1. PICK i \in 1 .. N + 1 : h \in ToSet(stm[i])
    BY <1>4 DEF Holders
  <2>2. CASE i = N + 1
    <3>1. PICK t \in ToSet(own) : h = [tok |-> t, age |-> m.idle]
      BY <2>1, <2>2, <1>3, <1>4
    <3> QED
      BY <3>1
  <2>3. CASE i # N + 1
    <3>1. i \in DOMAIN m.stm /\ h \in ToSet(m.stm[i])
      BY <1>1, <1>4, <2>1, <2>3
    <3> QED
      BY <3>1 DEF Holders
  <2> QED
    BY <2>2, <2>3
<1>21. Memory(n) \subseteq Memory(m) \cup ToSet(own)
  <2> SUFFICES ASSUME NEW h \in Holders(n.stm) PROVE h.tok \in Memory(m) \cup ToSet(own)
    BY <1>19
  <2>1. CASE own = <<>>
    BY <2>1, <1>15, <1>19
  <2>2. CASE own # <<>>
    <3>1. h \in Holders(G)
      BY <2>2, <1>14, <1>15
    <3>2. PICK g \in Holders(stm) : h = Refreshed(m, g, used)
      BY <3>1, <1>13
    <3>3. h.tok = g.tok
      BY <3>2, <1>9
    <3> QED
      BY <3>3, <1>19, <1>20
  <2> QED
    BY <2>1, <2>2
<1>22. ASSUME own # <<>>, Distinct(m.stm), NEW t \in ToSet(used) \cap Memory(m),
              \A s \in ToSet(own) : GetGroup(s) # GetGroup(t)
       PROVE  [tok |-> t, age |-> m.idle] \in Holders(n.stm)
  <2>1. PICK h \in Holders(m.stm) : h.tok = t
    BY <1>19
  <2>2. PICK i \in DOMAIN m.stm : h \in ToSet(m.stm[i])
    BY DEF Holders
  <2>3. i \in 1 .. N /\ i \in DOMAIN stm /\ stm[i] = m.stm[i] /\ h \in ToSet(stm[i])
    BY <2>2, <1>1, <1>4
  <2>4. ~Overridden(stm, i, h)
    <3> SUFFICES ASSUME NEW j \in DOMAIN stm, j > i, NEW k \in DOMAIN stm[j],
                        GetGroup(stm[j][k].tok) = GetGroup(h.tok)
                 PROVE  FALSE
      BY DEF Overridden
    <3>1. stm[j][k] \in ToSet(stm[j])
      BY DEF ToSet
    <3>2. CASE j = N + 1
      <4>1. stm[j][k] \in {[tok |-> s, age |-> m.idle] : s \in ToSet(own)}
        BY <3>1, <3>2, <1>3, <1>4
      <4>2. stm[j][k].tok \in ToSet(own)
        BY <4>1
      <4> QED
        BY <4>2, <1>22, <2>1
    <3>3. CASE j # N + 1
      <4> HIDE DEF N
      <4>1. j \in 1 .. N /\ j # i
        BY <1>1, <1>4, <2>3, <3>3
      <4>2. j \in DOMAIN m.stm /\ stm[j] = m.stm[j]
        BY <1>1, <1>4, <4>1
      <4>3. stm[j][k] \in ToSet(m.stm[j])
        BY <3>1, <4>2
      <4> QED
        BY <4>1, <4>2, <4>3, <2>2, <1>22 DEF Distinct
    <3> QED
      BY <3>2, <3>3
  <2>5. h \in Holders(stm) /\ Refreshed(m, h, used) \in ToSet(G[i])
    BY <2>3, <2>4, <1>7 DEF Holders
  <2>6. Refreshed(m, h, used) = [tok |-> t, age |-> m.idle]
    BY <2>1, <2>5, <1>9, <1>22
  <2>7. Refreshed(m, h, used) \in Holders(G)
    BY <2>3, <2>5, <1>8 DEF Holders
  <2> QED
    BY <2>6, <2>7, <1>14, <1>15, <1>22
<1> HIDE DEF own, seq
<1>23. own # <<>> /\ Distinct(m.stm) =>
          \A t \in ToSet(used) \cap Memory(m) :
             (\A s \in ToSet(own) : GetGroup(s) # GetGroup(t))
                => [tok |-> t, age |-> m.idle] \in Holders(n.stm)
  BY <1>22
<1> QED
  BY <1>15, <1>16, <1>18, <1>21, <1>23 DEF own, seq, n

------------------------------------------------------------------------------
(* The intent solver: a match takes its tokens from what it is given.        *)

LEMMA OwnRange ==
    ASSUME NEW A, NEW seq \in Seq(A)
    PROVE  /\ ToSet(seq) \subseteq A
           /\ \A B : ToSet(seq) \subseteq B => seq \in Seq(B)
<1> DEFINE n == Len(seq)
<1>1. n \in Nat /\ DOMAIN seq = 1 .. n /\ seq \in [1 .. n -> A]
  BY LenProperties
<1>2. ToSet(seq) \subseteq A
  BY <1>1 DEF ToSet
<1>3. ASSUME NEW B, ToSet(seq) \subseteq B PROVE seq \in Seq(B)
  <2>1. \A i \in 1 .. n : seq[i] \in B
    BY <1>1, <1>3 DEF ToSet
  <2>2. seq \in [1 .. n -> B]
    BY <1>1, <2>1
  <2> HIDE DEF n
  <2> QED
    BY <1>1, <2>2, IsASeq
<1> QED
  BY <1>2, <1>3

LEMMA FirstOnesFacts ==
    ASSUME NEW A, NEW seq \in Seq(A), NEW n \in Nat
    PROVE  FirstOnes(seq, n) \in Seq(A)
<1>1. CASE Len(seq) > n
  <2>1. \A i \in 1 .. n : seq[i] \in A
    BY <1>1, LenProperties, ElementOfSeq
  <2>2. SubSeq(seq, 1, n) \in Seq(A)
    BY <2>1, SubSeqProperties
  <2> QED
    BY <1>1, <2>2 DEF FirstOnes
<1>2. CASE ~(Len(seq) > n)
  BY <1>2 DEF FirstOnes
<1> QED
  BY <1>1, <1>2

\* The items of the model's intents.
Items == UNION {UNION {ToSet(term) : term \in ToSet(intent.terms)} : intent \in Intent}

LEMMA CollectFacts ==
    ASSUME NEW A, NEW sen \in Seq(A), NEW conv \in Seq(A), NEW used,
           NEW item, ItemOK(item)
    PROVE  collect(item, sen, conv, used) \in Seq(A)
<1> DEFINE toks == sen \o conv
           fit == {i \in DOMAIN toks : toks[i] \notin used /\ Accepts(item, toks[i])}
<1>1. toks \in Seq(A)
  OBVIOUS
<1>2. collect(item, sen, conv, used) = FirstOnes(Keep(toks, fit), item.max)
  BY DEF collect
<1> HIDE DEF toks, fit
<1>3. Keep(toks, fit) \in Seq(A)
  BY <1>1, KeepElements
<1>4. item.max \in Nat
  BY DEF ItemOK
<1> QED
  BY <1>2, <1>3, <1>4, FirstOnesFacts

\* A partial match of a term with tokens of A.
PartOf(m, A) ==
    /\ m = [ok |-> m.ok, toks |-> m.toks, used |-> m.used, spec |-> m.spec, weight |-> m.weight]
    /\ m.toks \in Seq(A) /\ m.used \subseteq A

LEMMA SolveItemFacts ==
    ASSUME NEW A, NEW sen \in Seq(A), NEW conv \in Seq(A), NEW m, PartOf(m, A),
           NEW item, ItemOK(item)
    PROVE  PartOf(solveItem(item, sen, conv, m), A)
<1> DEFINE toks == collect(item, sen, conv, m.used)
           n == solveItem(item, sen, conv, m)
<1>1. toks \in Seq(A) /\ ToSet(toks) \subseteq A
  BY CollectFacts, OwnRange
<1>2. CASE ~(m.ok /\ Enough(item, toks))
  <2>1. n = [m EXCEPT !.ok = FALSE]
    BY <1>2 DEF solveItem
  <2> HIDE DEF n, toks
  <2> QED
    BY <2>1 DEF n, PartOf
<1>3. CASE m.ok /\ Enough(item, toks)
  <2>1. \E spec, weight :
           n = [m EXCEPT !.toks = @ \o toks, !.used = @ \cup ToSet(toks),
                         !.spec = spec, !.weight = weight]
    BY <1>3 DEF solveItem
  <2>2. PICK spec, weight :
           n = [m EXCEPT !.toks = @ \o toks, !.used = @ \cup ToSet(toks),
                         !.spec = spec, !.weight = weight]
    BY <2>1
  <2> HIDE DEF n, toks
  <2>3. /\ n = [ok |-> n.ok, toks |-> n.toks, used |-> n.used, spec |-> n.spec, weight |-> n.weight]
        /\ n.toks = m.toks \o toks /\ n.used = m.used \cup ToSet(toks)
    BY <2>2 DEF PartOf
  <2>4. n.toks \in Seq(A)
    BY <2>3, <1>1 DEF PartOf
  <2> QED
    BY <2>3, <2>4, <1>1 DEF PartOf, n
<1> QED
  BY <1>2, <1>3

\* solveTerm goes from item to item: f has its partial matches.
TermRun(f, term, sen, conv, used) ==
    /\ solveTerm(term, sen, conv, used) = f[Len(term)]
    /\ f[0] = Nothing(used)
    /\ \A n \in 1 .. Len(term) : f[n] = solveItem(term[n], sen, conv, f[n - 1])

LEMMA TermSteps ==
    ASSUME NEW sen, NEW conv, NEW used, NEW term, Len(term) \in Nat
    PROVE  \E f : TermRun(f, term, sen, conv, used)
<1> DEFINE N == Len(term)
           Step(f, m) ==
               f = [n \in 0 .. m |->
                      IF n = 0 THEN Nothing(used) ELSE solveItem(term[n], sen, conv, f[n - 1])]
<1>n. N \in Nat
  OBVIOUS
<1>1. \E f : Step(f, N)
  <2> DEFINE S == {m \in Nat : \E f : Step(f, m)}
  <2>1. 0 \in S
    <3>1. Step([n \in {0} |-> Nothing(used)], 0)
      OBVIOUS
    <3> QED
      BY <3>1
  <2>2. ASSUME NEW m \in Nat, m \in S PROVE m + 1 \in S
    <3>1. PICK f : Step(f, m)
      BY <2>2
    <3>2. \A n \in 0 .. m :
             f[n] = IF n = 0 THEN Nothing(used) ELSE solveItem(term[n], sen, conv, f[n - 1])
      BY <3>1
    <3> DEFINE last == solveItem(term[m + 1], sen, conv, f[m])
               g == [n \in 0 .. m + 1 |-> IF n <= m THEN f[n] ELSE last]
    <3> HIDE DEF last
    <3>3. /\ \A n \in 0 .. m : g[n] = f[n]
          /\ g[m + 1] = last
          /\ g = [n \in 0 .. m + 1 |-> g[n]]
      OBVIOUS
    <3> HIDE DEF g
    <3>4. \A n \in 0 .. m + 1 :
             g[n] = IF n = 0 THEN Nothing(used) ELSE solveItem(term[n], sen, conv, g[n - 1])
      <4> TAKE n \in 0 .. m + 1
      <4>0. (m + 1) - 1 = m /\ m \in 0 .. m /\ m + 1 # 0
        OBVIOUS
      <4>1. CASE n = m + 1
        <5>1. g[n - 1] = f[m]
          BY <4>0, <4>1, <3>3
        <5> QED
          BY <4>0, <4>1, <5>1, <3>3 DEF last
      <4>2. CASE n \in 0 .. m
        <5>0. n # 0 => n - 1 \in 0 .. m
          BY <4>2
        <5>1. g[n] = f[n] /\ (n # 0 => g[n - 1] = f[n - 1])
          BY <4>2, <5>0, <3>3
        <5> QED
          BY <4>2, <5>1, <3>2
      <4> QED
        BY <4>1, <4>2
    <3>5. Step(g, m + 1)
      BY <3>3, <3>4
    <3> HIDE DEF Step
    <3> QED
      BY <3>5
  <2> QED
    BY <2>1, <2>2, <1>n, Induction
<1>2. PICK f : f = (CHOOSE h : Step(h, N)) /\ Step(f, N)
  BY <1>1
<1>3. solveTerm(term, sen, conv, used) = f[N]
  BY <1>2 DEF solveTerm
<1>4. \A n \in 0 .. N :
         f[n] = IF n = 0 THEN Nothing(used) ELSE solveItem(term[n], sen, conv, f[n - 1])
  BY <1>2
<1> QED
  <2>1. f[0] = Nothing(used) /\ \A n \in 1 .. N : f[n] = solveItem(term[n], sen, conv, f[n - 1])
    BY <1>4, <1>n
  <2>2. TermRun(f, term, sen, conv, used)
    BY <1>3, <2>1 DEF TermRun
  <2> QED
    BY <2>2

\* All items of a term.
LEMMA SolveTermFacts ==
    ASSUME NEW A, NEW sen \in Seq(A), NEW conv \in Seq(A), NEW used, used \subseteq A,
           NEW B, NEW term \in Seq(B), \A item \in B : ItemOK(item)
    PROVE  PartOf(solveTerm(term, sen, conv, used), A)
<1> DEFINE N == Len(term)
<1>n. N \in Nat /\ \A i \in 1 .. N : term[i] \in B
  BY LenProperties, ElementOfSeq
<1>0. PICK f : TermRun(f, term, sen, conv, used)
  BY <1>n, TermSteps
<1>1. /\ solveTerm(term, sen, conv, used) = f[N]
      /\ f[0] = Nothing(used)
      /\ \A n \in 1 .. N : f[n] = solveItem(term[n], sen, conv, f[n - 1])
  BY <1>0 DEF TermRun
<1> HIDE DEF N
<1> DEFINE S == {m \in Nat : m <= N => PartOf(f[m], A)}
<1>5. 0 \in S
  <2>1. f[0] = Nothing(used)
    BY <1>1
  <2>2. PartOf(Nothing(used), A)
    BY EmptySeq DEF PartOf, Nothing
  <2> QED
    BY <2>1, <2>2
<1>6. ASSUME NEW m \in Nat, m \in S PROVE m + 1 \in S
  <2> SUFFICES ASSUME m + 1 <= N PROVE PartOf(f[m + 1], A)
    OBVIOUS
  <2>1. PartOf(f[m], A) /\ m + 1 \in 1 .. N /\ (m + 1) - 1 = m /\ m + 1 \in 0 .. N /\ m + 1 # 0
    BY <1>6, <1>n
  <2>2. f[m + 1] = solveItem(term[m + 1], sen, conv, f[m])
    BY <2>1, <1>1
  <2>3. ItemOK(term[m + 1])
    BY <2>1, <1>n
  <2> QED
    BY <2>1, <2>2, <2>3, SolveItemFacts
<1>7. Nat \subseteq S
  BY <1>5, <1>6, Induction
<1> QED
  BY <1>1, <1>7, <1>n

\* A partial match of an intent with tokens of A.
MatchOf(m, A) ==
    /\ m = [status |-> m.status, groups |-> m.groups, used |-> m.used,
            spec |-> m.spec, weight |-> m.weight]
    /\ m.groups \in Seq(Seq(A)) /\ m.used \subseteq A

LEMMA AddTermFacts ==
    ASSUME NEW A, NEW sen \in Seq(A), NEW conv \in Seq(A), NEW m, MatchOf(m, A), NEW intent,
           NEW B, NEW term \in Seq(B), \A item \in B : ItemOK(item)
    PROVE  MatchOf(addTerm(intent, term, sen, conv, m), A)
<1> DEFINE tm == solveTerm(term, sen, conv, m.used)
           n == addTerm(intent, term, sen, conv, m)
<1>1. PartOf(tm, A)
  BY SolveTermFacts DEF MatchOf
<1> HIDE DEF tm
<1>2. \/ n = m
      \/ n = [m EXCEPT !.status = "none"]
      \/ n = [m EXCEPT !.status = "throws"]
      \/ n = [m EXCEPT !.groups = Append(@, tm.toks), !.used = tm.used,
                       !.spec = @ + tm.spec, !.weight = @ + tm.weight]
  BY DEF addTerm, tm
<1> HIDE DEF n
<1>3. CASE n = m
  BY <1>3 DEF n
<1>4. CASE n = [m EXCEPT !.status = "none"]
  BY <1>4 DEF n, MatchOf
<1>5. CASE n = [m EXCEPT !.status = "throws"]
  BY <1>5 DEF n, MatchOf
<1>6. CASE n = [m EXCEPT !.groups = Append(@, tm.toks), !.used = tm.used,
                         !.spec = @ + tm.spec, !.weight = @ + tm.weight]
  <2>1. /\ n = [status |-> n.status, groups |-> n.groups, used |-> n.used,
                spec |-> n.spec, weight |-> n.weight]
        /\ n.groups = Append(m.groups, tm.toks) /\ n.used = tm.used
    BY <1>6 DEF MatchOf
  <2>2. n.groups \in Seq(Seq(A))
    BY <2>1, <1>1, AppendProperties DEF MatchOf, PartOf
  <2>3. n.used \subseteq A
    BY <2>1, <1>1 DEF PartOf
  <2>4. MatchOf(n, A)
    BY <2>1, <2>2, <2>3 DEF MatchOf
  <2> QED
    BY <2>4 DEF n
<1> QED
  BY <1>2, <1>3, <1>4, <1>5, <1>6

\* What solveTerms starts with.
Empty == [status |-> "ok", groups |-> <<>>, used |-> {}, spec |-> 0, weight |-> 0]

\* solveTerms goes from term to term: f has its partial matches.
TermsRun(f, intent, sen, conv) ==
    /\ solveTerms(intent, sen, conv) = f[Len(intent.terms)]
    /\ f[0] = Empty
    /\ \A n \in 1 .. Len(intent.terms) :
          f[n] = addTerm(intent, intent.terms[n], sen, conv, f[n - 1])

LEMMA TermsSteps ==
    ASSUME NEW sen, NEW conv, NEW intent, Len(intent.terms) \in Nat
    PROVE  \E f : TermsRun(f, intent, sen, conv)
<1> DEFINE terms == intent.terms
           N == Len(terms)
           Step(f, m) ==
               f = [n \in 0 .. m |->
                      IF n = 0 THEN Empty ELSE addTerm(intent, terms[n], sen, conv, f[n - 1])]
<1>n. N \in Nat
  OBVIOUS
<1>1. \E f : Step(f, N)
  <2> DEFINE S == {m \in Nat : \E f : Step(f, m)}
  <2>1. 0 \in S
    <3>1. Step([n \in {0} |-> Empty], 0)
      OBVIOUS
    <3> QED
      BY <3>1
  <2>2. ASSUME NEW m \in Nat, m \in S PROVE m + 1 \in S
    <3>1. PICK f : Step(f, m)
      BY <2>2
    <3>2. \A n \in 0 .. m :
             f[n] = IF n = 0 THEN Empty ELSE addTerm(intent, terms[n], sen, conv, f[n - 1])
      BY <3>1
    <3> DEFINE last == addTerm(intent, terms[m + 1], sen, conv, f[m])
               g == [n \in 0 .. m + 1 |-> IF n <= m THEN f[n] ELSE last]
    <3> HIDE DEF last
    <3>3. /\ \A n \in 0 .. m : g[n] = f[n]
          /\ g[m + 1] = last
          /\ g = [n \in 0 .. m + 1 |-> g[n]]
      OBVIOUS
    <3> HIDE DEF g
    <3>4. \A n \in 0 .. m + 1 :
             g[n] = IF n = 0 THEN Empty ELSE addTerm(intent, terms[n], sen, conv, g[n - 1])
      <4> TAKE n \in 0 .. m + 1
      <4>0. (m + 1) - 1 = m /\ m \in 0 .. m /\ m + 1 # 0
        OBVIOUS
      <4>1. CASE n = m + 1
        <5>1. g[n - 1] = f[m]
          BY <4>0, <4>1, <3>3
        <5> QED
          BY <4>0, <4>1, <5>1, <3>3 DEF last
      <4>2. CASE n \in 0 .. m
        <5>0. n # 0 => n - 1 \in 0 .. m
          BY <4>2
        <5>1. g[n] = f[n] /\ (n # 0 => g[n - 1] = f[n - 1])
          BY <4>2, <5>0, <3>3
        <5> QED
          BY <4>2, <5>1, <3>2
      <4> QED
        BY <4>1, <4>2
    <3>5. Step(g, m + 1)
      BY <3>3, <3>4
    <3> HIDE DEF Step
    <3> QED
      BY <3>5
  <2> QED
    BY <2>1, <2>2, <1>n, Induction
<1>2. PICK f : f = (CHOOSE h : Step(h, N)) /\ Step(f, N)
  BY <1>1
<1>3. solveTerms(intent, sen, conv) = f[N]
  BY <1>2 DEF solveTerms, Empty
<1>4. \A n \in 0 .. N :
         f[n] = IF n = 0 THEN Empty ELSE addTerm(intent, terms[n], sen, conv, f[n - 1])
  BY <1>2
<1> QED
  <2>1. f[0] = Empty /\ \A n \in 1 .. N : f[n] = addTerm(intent, terms[n], sen, conv, f[n - 1])
    BY <1>4, <1>n
  <2>2. TermsRun(f, intent, sen, conv)
    BY <1>3, <2>1 DEF TermsRun
  <2> QED
    BY <2>2

\* All terms of an intent.
LEMMA SolveTermsFacts ==
    ASSUME NEW A, NEW sen \in Seq(A), NEW conv \in Seq(A), NEW intent, IntentOK(intent)
    PROVE  MatchOf(solveTerms(intent, sen, conv), A)
<1> DEFINE terms == intent.terms
           N == Len(terms)
<1>n. N \in Nat /\ \A i \in 1 .. N : terms[i] \in ToSet(terms)
  <2>1. terms \in Seq(ToSet(terms))
    BY DEF IntentOK
  <2> HIDE DEF terms
  <2> QED
    BY <2>1, LenProperties, ElementOfSeq
<1>t. \A i \in 1 .. N :
         terms[i] \in Seq(ToSet(terms[i])) /\ \A item \in ToSet(terms[i]) : ItemOK(item)
  BY <1>n DEF IntentOK
<1>0. PICK f : TermsRun(f, intent, sen, conv)
  BY <1>n, TermsSteps
<1>1. /\ solveTerms(intent, sen, conv) = f[N]
      /\ f[0] = Empty
      /\ \A n \in 1 .. N : f[n] = addTerm(intent, terms[n], sen, conv, f[n - 1])
  BY <1>0 DEF TermsRun
<1> HIDE DEF N, terms
<1> DEFINE S == {m \in Nat : m <= N => MatchOf(f[m], A)}
<1>5. 0 \in S
  <2>1. f[0] = Empty
    BY <1>1
  <2>2. MatchOf(Empty, A)
    BY EmptySeq DEF MatchOf, Empty
  <2> QED
    BY <2>1, <2>2
<1>6. ASSUME NEW m \in Nat, m \in S PROVE m + 1 \in S
  <2> SUFFICES ASSUME m + 1 <= N PROVE MatchOf(f[m + 1], A)
    OBVIOUS
  <2>1. MatchOf(f[m], A) /\ m + 1 \in 1 .. N /\ (m + 1) - 1 = m /\ m + 1 \in 0 .. N /\ m + 1 # 0
    BY <1>6, <1>n
  <2>2. f[m + 1] = addTerm(intent, terms[m + 1], sen, conv, f[m])
    BY <2>1, <1>1
  <2> DEFINE term == terms[m + 1]
  <2>3. term \in Seq(ToSet(term)) /\ \A item \in ToSet(term) : ItemOK(item)
    BY <2>1, <1>t
  <2> HIDE DEF term
  <2>4. MatchOf(addTerm(intent, term, sen, conv, f[m]), A)
    BY <2>1, <2>3, AddTermFacts
  <2> QED
    BY <2>2, <2>4 DEF term
<1>7. Nat \subseteq S
  BY <1>5, <1>6, Induction
<1> QED
  BY <1>1, <1>7, <1>n

\* A match has tokens of the sentence and of the conversation only.
LEMMA SolveIntentFacts ==
    ASSUME NEW A, NEW sen \in Seq(A), NEW conv \in Seq(A), NEW intent, IntentOK(intent)
    PROVE  solveIntent(intent, sen, conv).toks \in Seq(A)
<1>1. solveTerms(intent, sen, conv).groups \in Seq(Seq(A))
  BY SolveTermsFacts DEF MatchOf
<1>2. solveIntent(intent, sen, conv).toks = FlattenSeq(solveTerms(intent, sen, conv).groups)
  BY DEF solveIntent, conclude
<1> QED
  BY <1>1, <1>2, FlattenFacts

\* What an intent sees of the sentence and of the conversation.
LEMMA SeenFacts ==
    ASSUME NEW vrn \in Seq(Token), NEW conv \in Seq(Token), NEW intent
    PROVE  LET sen == SentenceTokens(vrn)
               hist == ConversationTokens(intent, sen, conv)
           IN  /\ sen \in Seq(Token) /\ ToSet(sen) \subseteq ToSet(vrn)
               /\ hist \in Seq(Token)
               /\ \A t \in ToSet(hist) :
                     t \in ToSet(conv) /\ \A s \in ToSet(sen) : GetGroup(s) # GetGroup(t)
<1> DEFINE sen == SentenceTokens(vrn)
           hist == ConversationTokens(intent, sen, conv)
           KS == {i \in DOMAIN vrn : ~IsStopWord(vrn[i])}
           KC == {i \in DOMAIN conv : \A s \in ToSet(sen) : GetGroup(s) # GetGroup(conv[i])}
<1>1. sen \in Seq(Token) /\ ToSet(sen) \subseteq ToSet(vrn)
  <2>1. sen = Keep(vrn, KS)
    BY DEF SentenceTokens
  <2> HIDE DEF KS, sen
  <2>2. sen \in Seq(Token) /\ ToSet(sen) = {vrn[i] : i \in DOMAIN vrn \cap KS}
    BY <2>1, KeepElements
  <2> QED
    BY <2>2 DEF ToSet
<1> HIDE DEF sen
<1>2. CASE intent.conv
  <2>1. hist = Keep(conv, KC)
    BY <1>2 DEF ConversationTokens
  <2>2. \A i \in DOMAIN conv \cap KC :
           conv[i] \in ToSet(conv) /\ \A s \in ToSet(sen) : GetGroup(s) # GetGroup(conv[i])
    BY DEF ToSet
  <2> HIDE DEF KC, hist
  <2>3. hist \in Seq(Token) /\ ToSet(hist) = {conv[i] : i \in DOMAIN conv \cap KC}
    BY <2>1, KeepElements
  <2> QED
    BY <1>1, <2>2, <2>3 DEF sen, hist
<1>3. CASE ~intent.conv
  <2>1. hist = <<>>
    BY <1>3 DEF ConversationTokens
  <2>2. ToSet(<<>>) = {} /\ <<>> \in Seq(Token)
    BY EmptySeq DEF ToSet
  <2> QED
    BY <1>1, <2>1, <2>2 DEF sen
<1> QED
  BY <1>2, <1>3

\* Every match takes its tokens from its variant and from the conversation.
LEMMA AttemptFacts ==
    ASSUME NEW variants, \A v \in DOMAIN variants : variants[v] \in Seq(Token),
           NEW conv \in Seq(Token), NEW a \in Attempts(variants, conv, Intent)
    PROVE  /\ a.match.toks \in Seq(Token) /\ a.v \in DOMAIN variants
           /\ \E intent \in Intent :
                LET sen == SentenceTokens(variants[a.v])
                    hist == ConversationTokens(intent, sen, conv)
                IN  ToSet(a.match.toks) \subseteq ToSet(sen) \cup ToSet(hist)
<1>1. PICK v \in DOMAIN variants, intent \in Intent :
         /\ a.v = v
         /\ a.match = solveIntent(intent, SentenceTokens(variants[v]),
                          ConversationTokens(intent, SentenceTokens(variants[v]), conv))
  BY DEF Attempts
<1> DEFINE sen == SentenceTokens(variants[v])
           hist == ConversationTokens(intent, sen, conv)
           A == ToSet(sen) \cup ToSet(hist)
<1>2. sen \in Seq(Token) /\ hist \in Seq(Token)
  BY SeenFacts
<1>3. IntentOK(intent)
  BY DialogueAssumption DEF DialogueAssumption
<1>4. a.match = solveIntent(intent, sen, hist)
  BY <1>1
<1> HIDE DEF sen, hist
<1>5. sen \in Seq(A) /\ hist \in Seq(A) /\ A \subseteq Token
  BY <1>2, OwnRange
<1> HIDE DEF A
<1>6. a.match.toks \in Seq(A)
  BY <1>3, <1>4, <1>5, SolveIntentFacts
<1>7. ToSet(a.match.toks) \subseteq A
  BY <1>6, OwnRange
<1>8. a.match.toks \in Seq(Token)
  BY <1>5, <1>6, <1>7, OwnRange
<1> QED
  BY <1>1, <1>7, <1>8 DEF sen, hist, A

------------------------------------------------------------------------------
(* Steps, as what they do to each memory.                                    *)

KnownOf(m) == Memory(m) \cup Context(m)

\* Nothing enters a memory: n is what a step leaves of m.
Shrinks(m, n) ==
    /\ Memory(n) \subseteq Memory(m) /\ Context(n) \subseteq Context(m)
    /\ Distinct(m.stm) => Distinct(n.stm)
    /\ Memory(n) # {} =>
          /\ n.attempt = m.attempt /\ Len(n.lastUsed) = Len(m.lastUsed)
          /\ \A i \in DOMAIN n.lastUsed : i \in DOMAIN m.lastUsed /\ n.lastUsed[i] \subseteq m.lastUsed[i]

LEMMA ShrinksTwice ==
    ASSUME NEW m, NEW n, NEW o, Shrinks(m, n), Shrinks(n, o)
    PROVE  Shrinks(m, o)
BY DEF Shrinks

LEMMA SameShrinks ==
    ASSUME NEW m, NEW n, MemoryOK(m), MemoryOK(n), n.lastUsed = m.lastUsed, n.attempt = m.attempt,
           n.ctx = m.ctx, Memory(n) \subseteq Memory(m), Distinct(m.stm) => Distinct(n.stm)
    PROVE  Shrinks(m, n)
BY DEF Shrinks, Context

LEMMA FreshFacts ==
    /\ MemoryOK(Fresh) /\ Memory(Fresh) = {} /\ Context(Fresh) = {} /\ Distinct(Fresh.stm)
    /\ \A m : Shrinks(m, Fresh)
<1> USE Bounds, EmptySeq
<1>0. Fresh.stm = <<>> /\ Fresh.ctx = <<>> /\ Fresh.lastUsed = <<>>
  BY DEF Fresh
<1>1. Memory(Fresh) = {} /\ Holders(Fresh.stm) = {} /\ Distinct(Fresh.stm)
  BY <1>0 DEF Memory, Holders, Distinct
<1>2. Context(Fresh) = {}
  <2>1. <<>> \in Seq(Seq(Token))
    OBVIOUS
  <2>2. ToSet(FlattenSeq(<<>>)) = UNION {ToSet(<<>>[i]) : i \in DOMAIN <<>>}
    BY <2>1, FlattenFacts
  <2>3. UNION {ToSet(<<>>[i]) : i \in DOMAIN <<>>} = {}
    OBVIOUS
  <2> QED
    BY <1>0, <2>2, <2>3 DEF Context
<1>3. Fresh \in MemoryType
  BY DEF Fresh, MemoryType
<1>4. Len(Fresh.lastUsed) <= MaxDepth
  BY <1>0
<1>5. MemoryOK(Fresh)
  BY <1>0, <1>1, <1>3, <1>4 DEF MemoryOK
<1> QED
  BY <1>1, <1>2, <1>5 DEF Shrinks

\* What is kept of the last answers.
LEMMA KeptFacts ==
    ASSUME NEW m, MemoryOK(m), NEW n,
           n = [m EXCEPT !.lastUsed = [i \in DOMAIN @ |-> @[i] \cap Memory(m)]]
    PROVE  MemoryOK(n) /\ Shrinks(m, n)
<1> USE MemoryFields
<1> DEFINE L == m.lastUsed
           l == Len(L)
           U == [i \in DOMAIN L |-> L[i] \cap Memory(m)]
<1>1. /\ n.stm = m.stm /\ n.lastUsed = U /\ n.ctx = m.ctx /\ n.idle = m.idle
      /\ n.attempt = m.attempt
      /\ n = [stm |-> n.stm, lastUsed |-> n.lastUsed, ctx |-> n.ctx,
              idle |-> n.idle, attempt |-> n.attempt]
  BY DEF MemoryOK, MemoryType
<1>2. L \in Seq(SUBSET Token) /\ l \in Nat /\ DOMAIN L = 1 .. l
  BY LenProperties
<1>3. \A i \in 1 .. l : L[i] \in SUBSET Token
  BY <1>2, ElementOfSeq
<1>4. U \in [1 .. l -> SUBSET Token] /\ DOMAIN U = 1 .. l
  BY <1>2, <1>3
<1>5. \A i \in 1 .. l : U[i] \subseteq L[i]
  BY <1>2
<1> HIDE DEF L, l, U
<1>6. U \in Seq(SUBSET Token)
  BY <1>2, <1>4, IsASeq
<1>7. Len(U) = l
  BY <1>2, <1>4, <1>6, LenProperties
<1>8. n \in MemoryType
  BY <1>1, <1>6 DEF MemoryType
<1>9. MemoryOK(n)
  BY <1>1, <1>7, <1>8 DEF MemoryOK, l, L
<1>10. Memory(n) = Memory(m) /\ Context(n) = Context(m)
  BY <1>1 DEF Memory, Context
<1> QED
  BY <1>1, <1>2, <1>4, <1>5, <1>7, <1>9, <1>10 DEF Shrinks, l, L

\* The memories a step leaves, of those it has computed.
LEMMA RememberFacts ==
    ASSUME NEW m, \A c \in Conv : MemoryOK(m[c]), Remember(m)
    PROVE  /\ mem' \in [Conv -> MemoryType]
           /\ \A c \in Conv : MemoryOK(mem'[c]) /\ Shrinks(m[c], mem'[c])
<1>1. \A c \in Conv :
         \/ mem'[c] = [m[c] EXCEPT !.lastUsed = [i \in DOMAIN @ |-> @[i] \cap Memory(m[c])]]
         \/ mem'[c] = Fresh
  BY DEF Remember
<1>2. \A c \in Conv : MemoryOK(mem'[c]) /\ Shrinks(m[c], mem'[c])
  BY <1>1, KeptFacts, FreshFacts
<1>3. mem' = [c \in Conv |-> mem'[c]]
  BY DEF Remember
<1> QED
  BY <1>2, <1>3 DEF MemoryOK

QueryType ==
    [step : {"none", "asked", "read"}, conv : Conv \cup {None},
     sentence : Seq(Seq(Element)), read : Seq(Token)]

Cap == MaxDepth * MaxDepth + 1

\* TypeOK, in full.
Types ==
    /\ mem \in [Conv -> MemoryType] /\ \A c \in Conv : MemoryOK(mem[c])
    /\ cur \in Conv \cup {None} /\ untouched \in 0 .. Timeout + 1
    /\ troubles \in 0 .. MaxTroubles
    /\ query \in [Req -> QueryType]
    /\ \A r \in Req : query[r].step = "none" => query[r] = Idle
    /\ \A r \in Req : query[r].step # "none" => query[r].conv \in Conv
    /\ unused \in [{k \in Known(mem) : k.el \in Watched} -> 0 .. Cap]

\* A step that starts no request and answers none.
Quiet ==
    /\ mem' \in [Conv -> MemoryType]
    /\ \A c \in Conv : MemoryOK(mem'[c]) /\ Shrinks(mem[c], mem'[c])
    /\ \A r \in Req : query'[r].step # "none" => query[r].step # "none"
    /\ Track({}, {}) \/ UNCHANGED <<mem, unused>>

LEMMA IdleFacts == Idle \in QueryType /\ Idle.step = "none" /\ Idle.conv = None
BY EmptySeq DEF Idle, QueryType

LEMMA VariantFacts ==
    ASSUME NEW r \in Req, NEW sentence \in Seq(Seq(Element))
    PROVE  \A v \in DOMAIN Variants(r, sentence) :
              /\ Variants(r, sentence)[v] \in Seq(Token)
              /\ \A t \in ToSet(Variants(r, sentence)[v]) : t.req = r
<1> SUFFICES ASSUME NEW v \in DOMAIN sentence
             PROVE  /\ Variants(r, sentence)[v] \in Seq(Token)
                    /\ \A t \in ToSet(Variants(r, sentence)[v]) : t.req = r
  BY DEF Variants
<1> DEFINE q == sentence[v]
           n == Len(q)
           p == Variants(r, sentence)[v]
<1>1. q \in Seq(Element) /\ v \in Nat
  BY LenProperties, ElementOfSeq
<1>2. p = [i \in DOMAIN q |-> [req |-> r, vrn |-> v, idx |-> i, el |-> q[i]]]
  BY DEF Variants
<1>3. n \in Nat /\ DOMAIN q = 1 .. n /\ \A i \in 1 .. n : q[i] \in Element
  BY <1>1, LenProperties, ElementOfSeq
<1> HIDE DEF p, q, n
<1>4. \A i \in 1 .. n : p[i] \in Token /\ p[i].req = r
  BY <1>1, <1>2, <1>3 DEF Token
<1>5. p \in [1 .. n -> Token]
  BY <1>2, <1>3, <1>4
<1>6. p \in Seq(Token)
  BY <1>3, <1>5, IsASeq
<1>7. \A t \in ToSet(p) : t.req = r
  BY <1>4, <1>5 DEF ToSet
<1> QED
  BY <1>6, <1>7 DEF p

\* An answer uses tokens.
LEMMA AnswerUses ==
    ASSUME Types, NEW r \in Req, AnswerByIntent(r) \/ AnswerByHand(r)
    PROVE  \E used \in Seq(Token) : Answer(r, used)
<1>1. query[r] \in QueryType /\ query[r].sentence \in Seq(Seq(Element)) /\ query[r].read \in Seq(Token)
  BY DEF Types, QueryType
<1>2. \A v \in DOMAIN SentenceVariants(r) : SentenceVariants(r)[v] \in Seq(Token)
  BY <1>1, VariantFacts DEF SentenceVariants
<1>3. CASE AnswerByIntent(r)
  <2>1. PICK a \in Answers(r) : Answer(r, a.match.toks)
    BY <1>3 DEF AnswerByIntent
  <2>2. a \in Attempts(SentenceVariants(r), query[r].read, Intent)
    BY DEF Answers, Chosen, Matches
  <2>3. a.match.toks \in Seq(Token)
    BY <1>1, <1>2, <2>2, AttemptFacts
  <2> QED
    BY <2>1, <2>3
<1>4. CASE AnswerByHand(r)
  <2>1. PICK toks \in ToSet(SentenceVariants(r)) \cup {query[r].read} : Answer(r, toks)
    BY <1>4 DEF AnswerByHand
  <2>2. toks \in Seq(Token)
    BY <1>1, <1>2 DEF ToSet
  <2> QED
    BY <2>1, <2>2
<1> QED
  BY <1>3, <1>4

LEMMA AskFacts ==
    ASSUME Types, NEW c \in Conv, NEW s \in Sentence, Ask(c, s)
    PROVE  /\ mem' \in [Conv -> MemoryType]
           /\ \A d \in Conv : MemoryOK(mem'[d]) /\ (d # c => Shrinks(mem[d], mem'[d]))
           /\ MemoryOK(update(mem[c])) /\ Shrinks(update(mem[c]), mem'[c])
           /\ \E r \in Forgotten([mem EXCEPT ![c] = update(@)]) :
                query' = [query EXCEPT ![r] = [step |-> "asked", conv |-> c,
                                               sentence |-> s, read |-> <<>>]]
           /\ Track({}, {c})
<1> DEFINE m == [mem EXCEPT ![c] = update(@)]
<1>1. m[c] = update(mem[c]) /\ \A d \in Conv : d # c => m[d] = mem[d]
  BY DEF Types
<1>2. MemoryOK(update(mem[c]))
  BY UpdateFacts DEF Types
<1>3. /\ Remember(m) /\ Track({}, {c}) /\ Forgotten(m) # {}
      /\ query' = [query EXCEPT ![CHOOSE r \in Forgotten(m) : TRUE] =
                       [step |-> "asked", conv |-> c, sentence |-> s, read |-> <<>>]]
  BY DEF Ask
<1> HIDE DEF m
<1>4. \A d \in Conv : MemoryOK(m[d])
  BY <1>1, <1>2 DEF Types
<1>5. mem' \in [Conv -> MemoryType] /\ \A d \in Conv : MemoryOK(mem'[d]) /\ Shrinks(m[d], mem'[d])
  BY <1>3, <1>4, RememberFacts
<1>6. (CHOOSE r \in Forgotten(m) : TRUE) \in Forgotten(m)
  BY <1>3
<1> QED
  BY <1>1, <1>2, <1>3, <1>5, <1>6 DEF m

LEMMA AnswerFacts ==
    ASSUME Types, NEW r \in Req, NEW used \in Seq(Token), Answer(r, used)
    PROVE  LET c == query[r].conv
           IN  /\ c \in Conv /\ query[r].step = "read"
               /\ mem' \in [Conv -> MemoryType]
               /\ \A d \in Conv : MemoryOK(mem'[d]) /\ (d # c => Shrinks(mem[d], mem'[d]))
               /\ Shrinks(addItem(mem[c], r, used), mem'[c])
               /\ query' = [query EXCEPT ![r] = Idle]
               /\ Track(ToSet(used), {})
<1> DEFINE c == query[r].conv
           m == [mem EXCEPT ![c] = addItem(@, r, used)]
<1>0. c \in Conv /\ query[r].step = "read"
  BY DEF Types, Answer
<1>1. m[c] = addItem(mem[c], r, used) /\ \A d \in Conv : d # c => m[d] = mem[d]
  BY <1>0 DEF Types
<1>2. MemoryOK(addItem(mem[c], r, used))
  BY <1>0, AddItemFacts DEF Types
<1>3. Remember(m) /\ Track(ToSet(used), {}) /\ query' = [query EXCEPT ![r] = Idle]
  BY DEF Answer
<1> HIDE DEF m
<1>4. \A d \in Conv : MemoryOK(m[d])
  BY <1>1, <1>2 DEF Types
<1>5. mem' \in [Conv -> MemoryType] /\ \A d \in Conv : MemoryOK(mem'[d]) /\ Shrinks(m[d], mem'[d])
  BY <1>3, <1>4, RememberFacts
<1> QED
  BY <1>0, <1>1, <1>3, <1>5

LEMMA RememberShrinks ==
    ASSUME NEW m, \A c \in Conv : MemoryOK(m[c]) /\ Shrinks(mem[c], m[c]), Remember(m)
    PROVE  /\ mem' \in [Conv -> MemoryType]
           /\ \A c \in Conv : MemoryOK(mem'[c]) /\ Shrinks(mem[c], mem'[c])
BY RememberFacts, ShrinksTwice

\* A memory that is cleared, the others as they are.
LEMMA ClearShrinks ==
    ASSUME Types, NEW c \in Conv, NEW toks, NEW m, m = [mem EXCEPT ![c] = clear(@, toks)]
    PROVE  \A d \in Conv : MemoryOK(m[d]) /\ Shrinks(mem[d], m[d])
<1>1. m[c] = clear(mem[c], toks) /\ \A d \in Conv : d # c => m[d] = mem[d]
  BY DEF Types
<1>2. MemoryOK(m[c]) /\ Shrinks(mem[c], m[c])
  BY <1>1, ClearFacts, SameShrinks DEF Types
<1>3. \A d \in Conv : d # c => MemoryOK(m[d]) /\ Shrinks(mem[d], m[d])
  BY <1>1, SameShrinks DEF Types
<1> QED
  BY <1>2, <1>3

LEMMA StartsNone ==
    ASSUME Types, NEW r \in Req, query' = [query EXCEPT ![r] = Idle]
    PROVE  \A q \in Req : query'[q].step # "none" => query[q].step # "none"
BY IdleFacts DEF Types

\* Every step but those of Ask and Answer is quiet.
LEMMA QuietSteps ==
    ASSUME Types, [Next]_vars
    PROVE  \/ Quiet
           \/ \E c \in Conv, s \in Sentence : Ask(c, s)
           \/ \E r \in Req, used \in Seq(Token) : Answer(r, used)
<1>s. \A c \in Conv : Shrinks(mem[c], mem[c])
  BY SameShrinks DEF Types
<1>1. CASE \E c \in Conv, s \in Sentence : Ask(c, s)
  BY <1>1
<1>2. ASSUME NEW r \in Req, ReadContext(r) PROVE Quiet
  <2>1. mem' = mem /\ unused' = unused
    BY <1>2 DEF ReadContext
  <2>2. \A q \in Req : query'[q].step # "none" => query[q].step # "none"
    BY <1>2 DEF ReadContext, Types
  <2> QED
    BY <1>s, <2>1, <2>2 DEF Quiet, Types
<1>3. ASSUME NEW r \in Req, AnswerByIntent(r) \/ AnswerByHand(r)
      PROVE  \E q \in Req, used \in Seq(Token) : Answer(q, used)
  BY <1>3, AnswerUses
<1>4. ASSUME NEW r \in Req, Fail(r) PROVE Quiet
  <2>1. Remember(mem) /\ Track({}, {}) /\ query' = [query EXCEPT ![r] = Idle]
    BY <1>4 DEF Fail
  <2>2. mem' \in [Conv -> MemoryType] /\ \A c \in Conv : MemoryOK(mem'[c]) /\ Shrinks(mem[c], mem'[c])
    BY <1>s, <2>1, RememberShrinks DEF Types
  <2> QED
    BY <2>1, <2>2, StartsNone DEF Quiet
<1>5. ASSUME NEW r \in Req, NEW groups, ModelClears(r, groups) PROVE Quiet
  <2> DEFINE c == query[r].conv
             toks == {t \in Memory(mem[c]) : GetGroup(t) \in groups}
             m == [mem EXCEPT ![c] = clear(@, toks)]
  <2>1. c \in Conv
    BY <1>5 DEF ModelClears, Running, Types
  <2>2. Remember(m) /\ Track({}, {}) /\ query' = query
    <3>1. m = [mem EXCEPT ![c] = clear(@, {t \in Memory(@) : GetGroup(t) \in groups})]
      BY <2>1 DEF Types
    <3> QED
      BY <1>5, <3>1 DEF ModelClears
  <2> HIDE DEF toks, c
  <2>3. \A d \in Conv : MemoryOK(m[d]) /\ Shrinks(mem[d], m[d])
    BY <2>1, ClearShrinks
  <2> HIDE DEF m
  <2>4. mem' \in [Conv -> MemoryType] /\ \A d \in Conv : MemoryOK(mem'[d]) /\ Shrinks(mem[d], mem'[d])
    BY <2>2, <2>3, RememberShrinks
  <2> QED
    BY <2>2, <2>4 DEF Quiet
<1>6. ASSUME NEW c \in Conv, ClearConv(c) PROVE Quiet
  <2> DEFINE toks == Memory(mem[c])
             m == [mem EXCEPT ![c] = clear(@, toks)]
  <2>2. Remember(m) /\ Track({}, {}) /\ query' = query
    <3>1. m = [mem EXCEPT ![c] = clear(@, Memory(@))]
      BY DEF Types
    <3> QED
      BY <1>6, <3>1 DEF ClearConv
  <2> HIDE DEF toks
  <2>3. \A d \in Conv : MemoryOK(m[d]) /\ Shrinks(mem[d], m[d])
    BY ClearShrinks
  <2> HIDE DEF m
  <2>4. mem' \in [Conv -> MemoryType] /\ \A d \in Conv : MemoryOK(mem'[d]) /\ Shrinks(mem[d], mem'[d])
    BY <2>2, <2>3, RememberShrinks
  <2> QED
    BY <2>2, <2>4 DEF Quiet
<1>7. CASE Elapse
  <2> DEFINE m == [c \in Conv |-> older(mem[c])]
  <2>1. Remember(m) /\ Track({}, {}) /\ query' = query
    BY <1>7 DEF Elapse
  <2>2. \A c \in Conv : MemoryOK(m[c]) /\ Shrinks(mem[c], m[c])
    <3> TAKE c \in Conv
    <3>1. MemoryOK(mem[c]) /\ m[c] = older(mem[c])
      BY DEF Types
    <3> QED
      BY <3>1, OlderFacts, SameShrinks
  <2> HIDE DEF m
  <2>3. mem' \in [Conv -> MemoryType] /\ \A c \in Conv : MemoryOK(mem'[c]) /\ Shrinks(mem[c], mem'[c])
    BY <2>1, <2>2, RememberShrinks
  <2> QED
    BY <2>1, <2>3 DEF Quiet
<1>8. CASE clean
  <2>1. Remember(mem) /\ Track({}, {}) /\ query' = query
    BY <1>8 DEF clean
  <2>2. mem' \in [Conv -> MemoryType] /\ \A c \in Conv : MemoryOK(mem'[c]) /\ Shrinks(mem[c], mem'[c])
    BY <1>s, <2>1, RememberShrinks DEF Types
  <2> QED
    BY <2>1, <2>2 DEF Quiet
<1>9. CASE UNCHANGED vars
  <2>1. mem' = mem /\ unused' = unused /\ query' = query
    BY <1>9 DEF vars
  <2> QED
    BY <1>s, <2>1 DEF Quiet, Types
<1> QED
  BY <1>1, <1>2, <1>3, <1>4, <1>5, <1>6, <1>7, <1>8, <1>9 DEF Next, ProcessRequest

\* The history of unused tokens after a step.
LEMMA TrackFacts ==
    ASSUME Types, NEW used, NEW updated, Track(used, updated)
    PROVE  /\ unused' \in [{k \in Known(mem') : k.el \in Watched} -> 0 .. Cap]
           /\ \A t \in DOMAIN unused' :
                 /\ t \in used \/ t \notin DOMAIN unused => unused'[t] = 0
                 /\ t \in DOMAIN unused => unused'[t] <= unused[t] + 1
                 /\ t \in DOMAIN unused /\ (\A c \in updated : t \notin Context(mem'[c]))
                       => unused'[t] <= unused[t]
<1> DEFINE D == {k \in Known(mem') : k.el \in Watched}
<1>c. Cap \in Nat /\ Cap = MaxDepth * MaxDepth + 1
  BY Bounds DEF Cap
<1>0. \A t \in DOMAIN unused : unused[t] \in 0 .. Cap
  BY DEF Types
<1>1. /\ DOMAIN unused' = D /\ unused' = [t \in D |-> unused'[t]]
      /\ \A t \in D :
            unused'[t] = IF t \in used \/ t \notin DOMAIN unused THEN 0
                         ELSE IF \E c \in updated : t \in Context(mem'[c])
                              THEN Older(unused[t], Cap)
                         ELSE unused[t]
  BY DEF Track, Cap
<1> HIDE DEF D
<1>2. \A t \in D :
         /\ unused'[t] \in 0 .. Cap
         /\ t \in used \/ t \notin DOMAIN unused => unused'[t] = 0
         /\ t \in DOMAIN unused => unused'[t] <= unused[t] + 1
         /\ t \in DOMAIN unused /\ (\A c \in updated : t \notin Context(mem'[c]))
               => unused'[t] <= unused[t]
  <2> TAKE t \in D
  <2>1. CASE t \in used \/ t \notin DOMAIN unused
    <3>1. unused'[t] = 0
      BY <1>1, <2>1
    <3> QED
      BY <3>1, <1>0, <1>c
  <2>2. CASE ~(t \in used \/ t \notin DOMAIN unused)
    <3>1. unused[t] \in 0 .. Cap
      BY <2>2, <1>0
    <3>2. Older(unused[t], Cap) \in 0 .. Cap /\ Older(unused[t], Cap) <= unused[t] + 1
      BY <3>1, <1>c, AgeFacts
    <3> QED
      BY <1>1, <2>2, <3>1, <3>2
  <2> QED
    BY <2>1, <2>2
<1> QED
  BY <1>1, <1>2 DEF D

LEMMA ReverseFacts ==
    ASSUME NEW A, NEW seq \in Seq(A)
    PROVE  /\ Reverse(seq) \in Seq(A)
           /\ \A i \in DOMAIN Reverse(seq) : \E j \in DOMAIN seq : Reverse(seq)[i] = seq[j]
<1> DEFINE n == Len(seq)
           R == Reverse(seq)
<1>1. n \in Nat /\ DOMAIN seq = 1 .. n /\ \A i \in 1 .. n : seq[i] \in A
  BY LenProperties, ElementOfSeq
<1>2. \A i \in 1 .. n : (n - i) + 1 \in 1 .. n
  BY <1>1
<1>3. R = [i \in 1 .. n |-> seq[(n - i) + 1]]
  BY DEF Reverse
<1>4. R \in [1 .. n -> A] /\ \A i \in 1 .. n : \E j \in DOMAIN seq : R[i] = seq[j]
  BY <1>1, <1>2, <1>3
<1> HIDE DEF n, R
<1>5. R \in Seq(A) /\ DOMAIN R = 1 .. n
  BY <1>1, <1>4, IsASeq
<1> QED
  BY <1>4, <1>5 DEF R

\* The context that a query reads.
LEMMA TokensFacts ==
    ASSUME NEW m, MemoryOK(m)
    PROVE  tokens(m) \in Seq(Token) /\ ToSet(tokens(m)) \subseteq Context(m)
<1> DEFINE R == Reverse(m.ctx)
<1>0. m.ctx \in Seq(Seq(Token))
  BY MemoryFields
<1>1. R \in Seq(Seq(Token)) /\ \A i \in DOMAIN R : \E j \in DOMAIN m.ctx : R[i] = m.ctx[j]
  BY <1>0, ReverseFacts
<1>2. tokens(m) = FlattenSeq(R)
  BY DEF tokens
<1> HIDE DEF R
<1>3. tokens(m) \in Seq(Token) /\ ToSet(tokens(m)) = UNION {ToSet(R[i]) : i \in DOMAIN R}
  BY <1>1, <1>2, FlattenFacts
<1>4. Context(m) = UNION {ToSet(m.ctx[i]) : i \in DOMAIN m.ctx}
  BY <1>0, FlattenFacts DEF Context
<1>5. ASSUME NEW t \in ToSet(tokens(m)) PROVE t \in Context(m)
  <2>1. PICK i \in DOMAIN R : t \in ToSet(R[i])
    BY <1>3
  <2>2. PICK j \in DOMAIN m.ctx : R[i] = m.ctx[j]
    BY <1>1
  <2> QED
    BY <2>1, <2>2, <1>4
<1> QED
  BY <1>3, <1>5

LEMMA TypesInit == Init => Types
<1> SUFFICES ASSUME Init PROVE Types
  OBVIOUS
<1>1. \A c \in Conv : mem[c] = Fresh /\ MemoryOK(mem[c])
  BY FreshFacts DEF Init
<1>2. mem \in [Conv -> MemoryType]
  <2>1. mem = [c \in Conv |-> Fresh] /\ Fresh \in MemoryType
    BY FreshFacts DEF Init, MemoryOK
  <2> QED
    BY <2>1
<1>3. Known(mem) = {}
  BY <1>1, FreshFacts DEF Known
<1>4. unused \in [{k \in Known(mem) : k.el \in Watched} -> 0 .. Cap]
  BY <1>3 DEF Init
<1>5. cur \in Conv \cup {None} /\ untouched \in 0 .. Timeout + 1 /\ troubles \in 0 .. MaxTroubles
  <2>1. MaxTroubles \in Nat
    BY ConvAssumption DEF ConvAssumption
  <2> QED
    BY <2>1, Bounds DEF Init
<1>6. query \in [Req -> QueryType] /\ \A r \in Req : query[r] = Idle
  BY IdleFacts DEF Init
<1> QED
  BY <1>1, <1>2, <1>4, <1>5, <1>6, IdleFacts DEF Types

\* What each step does to a query.
LEMMA QueryStep ==
    ASSUME Types, [Next]_vars
    PROVE  /\ query' \in [Req -> QueryType]
           /\ \A r \in Req : query'[r].step = "none" => query'[r] = Idle
           /\ \A r \in Req : query'[r].step # "none" => query'[r].conv \in Conv
<1> DEFINE OK(q) == /\ q \in QueryType
                    /\ q.step = "none" => q = Idle
                    /\ q.step # "none" => q.conv \in Conv
<1>1. \A r \in Req : OK(query[r])
  BY DEF Types
<1>2. query = [r \in Req |-> query[r]]
  BY DEF Types
<1>i. OK(Idle)
  BY IdleFacts
<1>s. SUFFICES query' = [r \in Req |-> query'[r]] /\ \A r \in Req : OK(query'[r])
  OBVIOUS
<1>3. ASSUME NEW r \in Req, NEW q, OK(q), query' = [query EXCEPT ![r] = q]
      PROVE  query' = [p \in Req |-> query'[p]] /\ \A p \in Req : OK(query'[p])
  <2> HIDE DEF OK
  <2>1. query' = [p \in Req |-> IF p = r THEN q ELSE query[p]]
    BY <1>2, <1>3
  <2> QED
    BY <1>1, <1>3, <2>1
<1>4. ASSUME query' = query
      PROVE  query' = [p \in Req |-> query'[p]] /\ \A p \in Req : OK(query'[p])
  BY <1>1, <1>2, <1>4
<1>5. ASSUME NEW c \in Conv, NEW s \in Sentence, Ask(c, s)
      PROVE  query' = [p \in Req |-> query'[p]] /\ \A p \in Req : OK(query'[p])
  <2> DEFINE q == [step |-> "asked", conv |-> c, sentence |-> s, read |-> <<>>]
  <2>1. PICK r \in Req : query' = [query EXCEPT ![r] = q]
    BY <1>5, AskFacts DEF Forgotten
  <2>2. s \in Seq(Seq(Element)) /\ <<>> \in Seq(Token)
    BY DialogueAssumption, EmptySeq DEF DialogueAssumption
  <2>3. OK(q)
    BY <2>2 DEF QueryType
  <2> HIDE DEF OK, q
  <2> QED
    BY <1>3, <2>1, <2>3
<1>6. ASSUME NEW r \in Req, ReadContext(r)
      PROVE  query' = [p \in Req |-> query'[p]] /\ \A p \in Req : OK(query'[p])
  <2> DEFINE q == [query[r] EXCEPT !.step = "read", !.read = tokens(mem[query[r].conv])]
  <2>1. query' = [query EXCEPT ![r] = q]
    BY <1>2, <1>6 DEF ReadContext
  <2>2. query[r].conv \in Conv /\ query[r] \in QueryType
    BY <1>1, <1>6 DEF ReadContext
  <2>3. tokens(mem[query[r].conv]) \in Seq(Token)
    BY <2>2, TokensFacts DEF Types
  <2>4. OK(q)
    BY <2>2, <2>3 DEF QueryType
  <2> HIDE DEF OK, q
  <2> QED
    BY <1>3, <2>1, <2>4
<1>7. ASSUME NEW r \in Req, NEW used \in Seq(Token), Answer(r, used)
      PROVE  query' = [p \in Req |-> query'[p]] /\ \A p \in Req : OK(query'[p])
  <2> HIDE DEF OK
  <2> QED
    BY <1>3, <1>7, <1>i DEF Answer
<1>8. ASSUME NEW r \in Req, Fail(r)
      PROVE  query' = [p \in Req |-> query'[p]] /\ \A p \in Req : OK(query'[p])
  <2> HIDE DEF OK
  <2> QED
    BY <1>3, <1>8, <1>i DEF Fail
<1>9. ASSUME \/ \E r \in Req, groups \in Filters : ModelClears(r, groups)
             \/ \E c \in Conv : ClearConv(c)
             \/ Elapse \/ clean \/ UNCHANGED vars
      PROVE  query' = query
  BY <1>9 DEF ModelClears, ClearConv, Elapse, clean, vars
<1> HIDE DEF OK
<1> QED
  BY <1>4, <1>5, <1>6, <1>7, <1>8, <1>9, AnswerUses DEF Next, ProcessRequest

LEMMA TypesStep ==
    ASSUME Types, [Next]_vars
    PROVE  Types'
<1>1. mem' \in [Conv -> MemoryType] /\ \A c \in Conv : MemoryOK(mem'[c])
  BY QuietSteps, AskFacts, AnswerFacts DEF Quiet
<1>2. unused' \in [{k \in Known(mem') : k.el \in Watched} -> 0 .. Cap]
  <2>1. CASE Quiet
    <3>1. CASE UNCHANGED <<mem, unused>>
      BY <3>1 DEF Types
    <3>2. CASE Track({}, {})
      BY <3>2, TrackFacts
    <3> QED
      BY <2>1, <3>1, <3>2 DEF Quiet
  <2>2. ASSUME NEW c \in Conv, NEW s \in Sentence, Ask(c, s)
        PROVE  unused' \in [{k \in Known(mem') : k.el \in Watched} -> 0 .. Cap]
    BY <2>2, AskFacts, TrackFacts
  <2>3. ASSUME NEW r \in Req, NEW used \in Seq(Token), Answer(r, used)
        PROVE  unused' \in [{k \in Known(mem') : k.el \in Watched} -> 0 .. Cap]
    BY <2>3, AnswerFacts, TrackFacts
  <2> QED
    BY <2>1, <2>2, <2>3, QuietSteps
<1>3. cur' \in Conv \cup {None}
  BY AnswerUses
     DEF Types, Next, ProcessRequest, Ask, get, ReadContext, Answer, Fail, ModelClears,
         ClearConv, Elapse, clean, vars
<1>4. untouched' \in 0 .. Timeout + 1
  <2>1. untouched \in 0 .. Timeout + 1 /\ Timeout + 1 \in Nat /\ 0 \in 0 .. Timeout + 1
    BY Bounds DEF Types
  <2>2. Older(untouched, Timeout + 1) \in 0 .. Timeout + 1
    BY <2>1, AgeFacts
  <2>3. untouched' = untouched \/ untouched' = 0 \/ untouched' = Older(untouched, Timeout + 1)
    BY AnswerUses
       DEF Next, ProcessRequest, Ask, get, ReadContext, Answer, Fail, ModelClears,
           ClearConv, Elapse, clean, vars
  <2> QED
    BY <2>1, <2>2, <2>3
<1>5. troubles' \in 0 .. MaxTroubles
  <2>1. troubles \in 0 .. MaxTroubles /\ MaxTroubles \in Nat
    BY ConvAssumption DEF ConvAssumption, Types
  <2>2. troubles' = troubles \/ Trouble
    BY AnswerUses
       DEF Next, ProcessRequest, Ask, ReadContext, Answer, Fail, ModelClears,
           ClearConv, Elapse, clean, vars
  <2>3. CASE Trouble
    BY <2>1, <2>3 DEF Trouble
  <2> QED
    BY <2>1, <2>2, <2>3
<1> QED
  BY <1>1, <1>2, <1>3, <1>4, <1>5, QueryStep DEF Types

LEMMA TypesOK == Types => TypeOK
<1> SUFFICES ASSUME Types PROVE TypeOK
  OBVIOUS
<1>1. ASSUME NEW c \in Conv, NEW i \in DOMAIN mem[c].stm, NEW k \in DOMAIN mem[c].stm[i]
      PROVE  TokenOK(mem[c].stm[i][k].tok) /\ mem[c].stm[i][k].age \in mem[c].idle .. Delay + 1
  <2>1. MemoryOK(mem[c])
    BY DEF Types
  <2>2. mem[c].stm[i][k] \in Holder /\ mem[c].stm[i][k] \in Holders(mem[c].stm)
    BY <2>1, MemoryFields, ItemFacts
  <2> QED
    BY <2>1, <2>2 DEF MemoryOK, Holder, Token, TokenOK
<1>2. \A c \in Conv : /\ mem[c].idle \in 0 .. Delay + 1 /\ mem[c].attempt \in 0 .. MaxDepth + 1
                      /\ Len(mem[c].lastUsed) <= MaxDepth
                      /\ \A i \in DOMAIN mem[c].stm : mem[c].stm[i] # <<>>
  BY MemoryFields DEF Types, MemoryOK
<1>3. \A r \in Req : query[r].step \in {"none", "asked", "read"}
  BY DEF Types, QueryType
<1> QED
  BY <1>1, <1>2, <1>3 DEF TypeOK, Types

LEMMA TypesAlways == Spec => []Types
BY TypesInit, TypesStep, PTL DEF Spec

\* Whatever is asked, answered, cleared and forgotten in whatever order, the
\* memories keep their shape: no item is without tokens, no token is younger
\* than the conversation's last update, and no more than MAX_DEPTH answers are
\* kept (NCConversation).
THEOREM TypeCorrect == Spec => []TypeOK
BY TypesAlways, TypesOK, PTL

------------------------------------------------------------------------------
(* One item per group.                                                       *)

AllDistinct == \A c \in Conv : Distinct(mem[c].stm)

LEMMA DistinctStep ==
    ASSUME Types, AllDistinct, [Next]_vars
    PROVE  AllDistinct'
<1> SUFFICES \A c \in Conv : Distinct(mem'[c].stm)
  BY DEF AllDistinct
<1>1. CASE Quiet
  BY <1>1 DEF Quiet, Shrinks, AllDistinct
<1>2. ASSUME NEW c \in Conv, NEW s \in Sentence, Ask(c, s)
      PROVE  \A d \in Conv : Distinct(mem'[d].stm)
  <2>1. Shrinks(update(mem[c]), mem'[c]) /\ \A d \in Conv : d # c => Shrinks(mem[d], mem'[d])
    BY <1>2, AskFacts
  <2>2. Distinct(update(mem[c]).stm)
    BY UpdateFacts DEF Types, AllDistinct
  <2> QED
    BY <2>1, <2>2 DEF Shrinks, AllDistinct
<1>3. ASSUME NEW r \in Req, NEW used \in Seq(Token), Answer(r, used)
      PROVE  \A d \in Conv : Distinct(mem'[d].stm)
  <2> DEFINE c == query[r].conv
  <2>1. /\ c \in Conv /\ Shrinks(addItem(mem[c], r, used), mem'[c])
        /\ \A d \in Conv : d # c => Shrinks(mem[d], mem'[d])
    BY <1>3, AnswerFacts
  <2>2. Distinct(addItem(mem[c], r, used).stm)
    BY <2>1, AddItemFacts DEF Types, AllDistinct
  <2> QED
    BY <2>1, <2>2 DEF Shrinks, AllDistinct
<1> QED
  BY <1>1, <1>2, <1>3, QuietSteps

LEMMA DistinctAlways == Spec => []AllDistinct
<1>1. Init => AllDistinct
  BY FreshFacts DEF Init, AllDistinct
<1>2. Types /\ AllDistinct /\ [Next]_vars => AllDistinct'
  BY DistinctStep
<1> QED
  BY <1>1, <1>2, TypesAlways, PTL DEF Spec

\* No two items of a memory share a group, whatever the order in which the
\* queries of a conversation answer (addItem, NCConversation 200-212).
THEOREM OneItemPerGroupHolds == Spec => []OneItemPerGroup
<1>1. Types /\ AllDistinct => OneItemPerGroup
  <2> SUFFICES ASSUME Types, AllDistinct, NEW c \in Conv,
                      NEW i \in DOMAIN mem[c].stm, NEW j \in DOMAIN mem[c].stm, i # j,
                      NEW s \in ToSet(Toks(mem[c].stm[i])), NEW t \in ToSet(Toks(mem[c].stm[j]))
               PROVE  GetGroup(s) # GetGroup(t)
    BY DEF OneItemPerGroup
  <2>1. PICK g \in ToSet(mem[c].stm[i]) : s = g.tok
    BY DEF Toks, ToSet
  <2>2. PICK h \in ToSet(mem[c].stm[j]) : t = h.tok
    BY DEF Toks, ToSet
  <2> QED
    BY <2>1, <2>2 DEF AllDistinct, Distinct
<1> QED
  BY <1>1, TypesAlways, DistinctAlways, PTL

------------------------------------------------------------------------------
(* Tokens enter a memory with the answer of their own request.               *)

LEMMA EnterStep ==
    ASSUME Types, [Next]_vars, NEW c \in Conv, NEW t \in Memory(mem'[c]) \ Memory(mem[c])
    PROVE  query[t.req].step = "read" /\ query'[t.req].step = "none"
<1>1. CASE Quiet
  BY <1>1 DEF Quiet, Shrinks
<1>2. ASSUME NEW d \in Conv, NEW s \in Sentence, Ask(d, s) PROVE FALSE
  <2>1. Shrinks(update(mem[d]), mem'[d]) /\ \A e \in Conv : e # d => Shrinks(mem[e], mem'[e])
    BY <1>2, AskFacts
  <2>2. Memory(update(mem[d])) \subseteq Memory(mem[d])
    BY UpdateFacts DEF Types
  <2> QED
    BY <2>1, <2>2 DEF Shrinks
<1>3. ASSUME NEW r \in Req, NEW used \in Seq(Token), Answer(r, used)
      PROVE  query[t.req].step = "read" /\ query'[t.req].step = "none"
  <2> DEFINE d == query[r].conv
  <2>1. /\ d \in Conv /\ query[r].step = "read" /\ query' = [query EXCEPT ![r] = Idle]
        /\ Shrinks(addItem(mem[d], r, used), mem'[d])
        /\ \A e \in Conv : e # d => Shrinks(mem[e], mem'[e])
    BY <1>3, AnswerFacts
  <2>2. Memory(addItem(mem[d], r, used)) \subseteq Memory(mem[d]) \cup ToSet(OwnTokens(r, used))
    BY <2>1, AddItemFacts DEF Types
  <2>3. t.req = r
    BY <2>1, <2>2, OwnFacts DEF Shrinks
  <2> QED
    BY <2>1, <2>3, IdleFacts DEF Types
<1> QED
  BY <1>1, <1>2, <1>3, QuietSteps

\* A token that was forgotten, replaced or cleared does not come back through a
\* query that has read it before (addItem, NCConversation 189).
THEOREM OnlyOwnTokensEnterHolds == Spec => OnlyOwnTokensEnter
<1>1. Types /\ [Next]_vars =>
         [\A c \in Conv : \A t \in Memory(mem'[c]) \ Memory(mem[c]) :
             query[t.req].step = "read" /\ query'[t.req].step = "none"]_vars
  BY EnterStep
<1> QED
  BY <1>1, TypesAlways, PTL DEF Spec, OnlyOwnTokensEnter

------------------------------------------------------------------------------
(* Whose tokens are where.                                                   *)

\* No token of a running request is in a memory or a context, and no token is
\* in those of two conversations.
Apart ==
    /\ \A r \in Req : query[r].step # "none" =>
          \A c \in Conv : \A t \in KnownOf(mem[c]) : t.req # r
    /\ \A c, d \in Conv : c # d => KnownOf(mem[c]) \cap KnownOf(mem[d]) = {}

LEMMA KnownShrinks ==
    ASSUME NEW m, NEW n, Shrinks(m, n)
    PROVE  KnownOf(n) \subseteq KnownOf(m)
BY DEF Shrinks, KnownOf

LEMMA AddedTokens ==
    ASSUME NEW m, MemoryOK(m), NEW r, NEW used \in Seq(Token)
    PROVE  KnownOf(addItem(m, r, used)) \subseteq KnownOf(m) \cup ToSet(OwnTokens(r, used))
<1>1. addItem(m, r, used).ctx = m.ctx
  BY AddItemFacts
<1>2. Memory(addItem(m, r, used)) \subseteq Memory(m) \cup ToSet(OwnTokens(r, used))
  BY AddItemFacts
<1> QED
  BY <1>1, <1>2 DEF KnownOf, Context

LEMMA ApartStep ==
    ASSUME Types, Apart, [Next]_vars
    PROVE  Apart'
<1>s. SUFFICES /\ \A r \in Req : query'[r].step # "none" =>
                     \A c \in Conv : \A t \in KnownOf(mem'[c]) : t.req # r
               /\ \A c, d \in Conv : c # d => KnownOf(mem'[c]) \cap KnownOf(mem'[d]) = {}
  BY DEF Apart
<1>1. CASE Quiet
  <2>1. \A c \in Conv : KnownOf(mem'[c]) \subseteq KnownOf(mem[c])
    BY <1>1, KnownShrinks DEF Quiet
  <2>2. \A r \in Req : query'[r].step # "none" => query[r].step # "none"
    BY <1>1 DEF Quiet
  <2> QED
    BY <2>1, <2>2 DEF Apart
<1>2. ASSUME NEW d \in Conv, NEW s \in Sentence, Ask(d, s)
      PROVE  /\ \A r \in Req : query'[r].step # "none" =>
                   \A c \in Conv : \A t \in KnownOf(mem'[c]) : t.req # r
             /\ \A c, e \in Conv : c # e => KnownOf(mem'[c]) \cap KnownOf(mem'[e]) = {}
  <2> DEFINE m == [mem EXCEPT ![d] = update(@)]
             new == [step |-> "asked", conv |-> d, sentence |-> s, read |-> <<>>]
  <2>1. Shrinks(update(mem[d]), mem'[d]) /\ \A e \in Conv : e # d => Shrinks(mem[e], mem'[e])
    BY <1>2, AskFacts
  <2>2. PICK q \in Forgotten(m) : query' = [query EXCEPT ![q] = new]
    BY <1>2, AskFacts
  <2>3. m[d] = update(mem[d]) /\ \A e \in Conv : e # d => m[e] = mem[e]
    BY DEF Types
  <2>4. q \in Req /\ \A t \in Known(m) : t.req # q
    BY DEF Forgotten
  <2> HIDE DEF m, new
  <2>5. \A c \in Conv : KnownOf(mem'[c]) \subseteq KnownOf(m[c])
    BY <2>1, <2>3, KnownShrinks
  <2>6. \A c \in Conv : \A t \in KnownOf(mem'[c]) : t.req # q
    BY <2>4, <2>5 DEF Known, KnownOf
  <2>7. Memory(update(mem[d])) \subseteq Memory(mem[d])
        /\ Context(update(mem[d])) = Memory(update(mem[d]))
    BY UpdateFacts DEF Types
  <2>8. \A c \in Conv : KnownOf(mem'[c]) \subseteq KnownOf(mem[c])
    BY <2>3, <2>5, <2>7 DEF KnownOf
  <2>9. \A r \in Req : r # q => query'[r] = query[r]
    BY <2>2 DEF Types
  <2> QED
    BY <2>6, <2>8, <2>9 DEF Apart
<1>3. ASSUME NEW r \in Req, NEW used \in Seq(Token), Answer(r, used)
      PROVE  /\ \A q \in Req : query'[q].step # "none" =>
                   \A c \in Conv : \A t \in KnownOf(mem'[c]) : t.req # q
             /\ \A c, e \in Conv : c # e => KnownOf(mem'[c]) \cap KnownOf(mem'[e]) = {}
  <2> DEFINE d == query[r].conv
  <2>1. /\ d \in Conv /\ query[r].step = "read" /\ query' = [query EXCEPT ![r] = Idle]
        /\ Shrinks(addItem(mem[d], r, used), mem'[d])
        /\ \A e \in Conv : e # d => Shrinks(mem[e], mem'[e])
    BY <1>3, AnswerFacts
  <2>2. KnownOf(addItem(mem[d], r, used)) \subseteq KnownOf(mem[d]) \cup ToSet(OwnTokens(r, used))
    BY <2>1, AddedTokens DEF Types
  <2>3. \A t \in KnownOf(mem'[d]) : t \in KnownOf(mem[d]) \/ t.req = r
    BY <2>1, <2>2, KnownShrinks, OwnFacts
  <2>4. \A e \in Conv : e # d => KnownOf(mem'[e]) \subseteq KnownOf(mem[e])
    BY <2>1, KnownShrinks
  <2>5. query'[r].step = "none" /\ \A q \in Req : q # r => query'[q] = query[q]
    BY <2>1, IdleFacts DEF Types
  <2>6. \A c \in Conv : \A t \in KnownOf(mem[c]) : t.req # r
    BY <2>1 DEF Apart
  <2> HIDE DEF d
  <2>7. ASSUME NEW q \in Req, query'[q].step # "none", NEW c \in Conv, NEW t \in KnownOf(mem'[c])
        PROVE  t.req # q
    <3>1. q # r /\ query[q].step # "none"
      BY <2>5, <2>7
    <3>2. t \in KnownOf(mem[c]) \/ t.req = r
      BY <2>3, <2>4
    <3> QED
      BY <3>1, <3>2 DEF Apart
  <2>8. ASSUME NEW c \in Conv, NEW e \in Conv, c # e, NEW t \in KnownOf(mem'[c]), t \in KnownOf(mem'[e])
        PROVE  FALSE
    <3>1. \A x \in Conv : x # d => t \notin KnownOf(mem'[x]) \/ (t \in KnownOf(mem[x]) /\ t.req # r)
      BY <2>4, <2>6
    <3>2. t \in KnownOf(mem[c]) /\ t \in KnownOf(mem[e])
      BY <3>1, <2>3, <2>8
    <3> QED
      BY <3>2, <2>8 DEF Apart
  <2> QED
    BY <2>7, <2>8
<1> QED
  BY <1>1, <1>2, <1>3, QuietSteps

LEMMA ApartAlways == Spec => []Apart
<1>1. Init => Apart
  <2> SUFFICES ASSUME Init PROVE Apart
    OBVIOUS
  <2>1. \A c \in Conv : KnownOf(mem[c]) = {}
    BY FreshFacts DEF Init, KnownOf
  <2> QED
    BY <2>1 DEF Apart
<1>2. Types /\ Apart /\ [Next]_vars => Apart'
  BY ApartStep
<1> QED
  BY <1>1, <1>2, TypesAlways, PTL DEF Spec

------------------------------------------------------------------------------
(* Tokens are forgotten.                                                     *)

\* While a memory has tokens, its requests are counted, and a token that one of
\* the last answers has used was unused only since: for at most MAX_DEPTH
\* requests for each later answer, and those since the last.
InTime(m, age) ==
    /\ Memory(m) # {} => m.attempt <= MaxDepth
    /\ \A t \in Memory(m) \cap DOMAIN age : \A i \in DOMAIN m.lastUsed :
          t \in m.lastUsed[i] => age[t] <= (Len(m.lastUsed) - i) * MaxDepth + m.attempt
    /\ \A t \in Context(m) \cap DOMAIN age : age[t] <= MaxDepth * MaxDepth

AllInTime == \A c \in Conv : InTime(mem[c], unused)

LEMMA Products ==
    ASSUME NEW k \in Nat
    PROVE  /\ k * MaxDepth \in Nat /\ MaxDepth * MaxDepth \in Nat
           /\ (k + 1) * MaxDepth = k * MaxDepth + MaxDepth
           /\ k + 1 <= MaxDepth => k * MaxDepth + MaxDepth <= MaxDepth * MaxDepth
<1>1. MaxDepth \in Nat
  BY Bounds
<1>2. k * MaxDepth \in Nat /\ MaxDepth * MaxDepth \in Nat /\ (k + 1) * MaxDepth = k * MaxDepth + MaxDepth
  BY <1>1
<1>3. ASSUME k + 1 <= MaxDepth PROVE k * MaxDepth + MaxDepth <= MaxDepth * MaxDepth
  <2>1. (MaxDepth - (k + 1)) * MaxDepth \in Nat
    BY <1>1, <1>3
  <2>2. (MaxDepth - (k + 1)) * MaxDepth = MaxDepth * MaxDepth - (k + 1) * MaxDepth
    BY <1>1
  <2> DEFINE a == k * MaxDepth
             b == MaxDepth * MaxDepth
             d == (MaxDepth - (k + 1)) * MaxDepth
  <2>3. a \in Nat /\ b \in Nat /\ d \in Nat /\ d = b - (a + MaxDepth)
    BY <1>2, <2>1, <2>2
  <2> HIDE DEF a, b, d
  <2>4. a + MaxDepth <= b
    BY <1>1, <2>3
  <2> QED
    BY <2>4 DEF a, b
<1> QED
  BY <1>2, <1>3

\* The bounds of InTime are numbers.
LEMMA BoundFacts ==
    ASSUME NEW m, MemoryOK(m), NEW i \in DOMAIN m.lastUsed
    PROVE  /\ Len(m.lastUsed) - i \in Nat
           /\ (Len(m.lastUsed) - i) + 1 <= MaxDepth
           /\ (Len(m.lastUsed) - i) * MaxDepth \in Nat
           /\ m.attempt \in Nat
<1>1. Len(m.lastUsed) \in Nat /\ i \in 1 .. Len(m.lastUsed) /\ Len(m.lastUsed) <= MaxDepth
  BY MemoryFields, LenProperties DEF MemoryOK
<1>2. Len(m.lastUsed) - i \in Nat /\ (Len(m.lastUsed) - i) + 1 <= MaxDepth
  BY <1>1, Bounds
<1> DEFINE k == Len(m.lastUsed) - i
<1>3. k \in Nat
  BY <1>2
<1> HIDE DEF k
<1>4. k * MaxDepth \in Nat
  BY <1>3, Products
<1> QED
  BY <1>2, <1>4, MemoryFields, Bounds DEF k

\* What shrinks and is not used for longer stays in time.
LEMMA InTimeShrinks ==
    ASSUME NEW m, NEW n, NEW age, NEW later, MemoryOK(m), MemoryOK(n), Shrinks(m, n), InTime(m, age),
           \A t \in DOMAIN age : age[t] \in Nat,
           \A t \in KnownOf(n) \cap DOMAIN later :
              \/ later[t] = 0
              \/ t \in DOMAIN age /\ later[t] \in Nat /\ later[t] <= age[t]
    PROVE  InTime(n, later)
<1>1. Memory(n) # {} => n.attempt <= MaxDepth
  BY DEF InTime, Shrinks
<1>2. ASSUME NEW t \in Memory(n) \cap DOMAIN later, NEW i \in DOMAIN n.lastUsed, t \in n.lastUsed[i]
      PROVE  later[t] <= (Len(n.lastUsed) - i) * MaxDepth + n.attempt
  <2>1. CASE later[t] = 0
    BY <2>1, BoundFacts
  <2>2. CASE t \in DOMAIN age /\ later[t] \in Nat /\ later[t] <= age[t]
    <3>1. /\ t \in Memory(m) /\ i \in DOMAIN m.lastUsed /\ t \in m.lastUsed[i]
          /\ n.attempt = m.attempt /\ Len(n.lastUsed) = Len(m.lastUsed)
      BY <1>2 DEF Shrinks
    <3>2. age[t] <= (Len(m.lastUsed) - i) * MaxDepth + m.attempt
      BY <2>2, <3>1 DEF InTime
    <3>3. (Len(n.lastUsed) - i) * MaxDepth \in Nat /\ n.attempt \in Nat /\ age[t] \in Nat
      BY <2>2, BoundFacts
    <3> DEFINE b == (Len(n.lastUsed) - i) * MaxDepth
    <3>4. age[t] <= b + n.attempt /\ b \in Nat
      BY <3>1, <3>2, <3>3
    <3> HIDE DEF b
    <3>5. later[t] <= b + n.attempt
      BY <2>2, <3>3, <3>4
    <3> QED
      BY <3>5 DEF b
  <2> QED
    BY <1>2, <2>1, <2>2 DEF KnownOf
<1>3. ASSUME NEW t \in Context(n) \cap DOMAIN later PROVE later[t] <= MaxDepth * MaxDepth
  <2>0. MaxDepth * MaxDepth \in Nat
    BY Bounds
  <2>1. CASE later[t] = 0
    BY <2>0, <2>1
  <2>2. CASE t \in DOMAIN age /\ later[t] \in Nat /\ later[t] <= age[t]
    <3>1. age[t] <= MaxDepth * MaxDepth /\ age[t] \in Nat
      BY <2>2 DEF InTime, Shrinks
    <3> DEFINE b == MaxDepth * MaxDepth
    <3>2. age[t] <= b /\ b \in Nat
      BY <2>0, <3>1
    <3> HIDE DEF b
    <3>3. later[t] <= b
      BY <2>2, <3>1, <3>2
    <3> QED
      BY <3>3 DEF b
  <2> QED
    BY <2>1, <2>2 DEF KnownOf
<1> QED
  BY <1>1, <1>2, <1>3 DEF InTime

\* An update makes each token of the memory one request older.
LEMMA InTimeUpdated ==
    ASSUME NEW m, MemoryOK(m), NEW age, NEW later, InTime(m, age),
           \A t \in DOMAIN age : age[t] \in Nat,
           \A t \in KnownOf(update(m)) \cap DOMAIN later :
              \/ later[t] = 0
              \/ t \in DOMAIN age /\ later[t] \in Nat /\ later[t] <= age[t] + 1
    PROVE  InTime(update(m), later)
<1> DEFINE n == update(m)
<1>1. /\ MemoryOK(n) /\ n.lastUsed = m.lastUsed /\ n.attempt = Older(m.attempt, MaxDepth + 1)
      /\ Context(n) = Memory(n) /\ Memory(n) \subseteq Memory(m)
      /\ \A t \in Memory(n) : ~Reset(m) /\ \E i \in DOMAIN m.lastUsed : t \in m.lastUsed[i]
  BY UpdateFacts
<1> HIDE DEF n
<1>2. Memory(n) # {} => n.attempt = m.attempt + 1 /\ m.attempt + 1 <= MaxDepth
  <2> SUFFICES ASSUME Memory(n) # {} PROVE n.attempt = m.attempt + 1 /\ m.attempt + 1 <= MaxDepth
    OBVIOUS
  <2>1. m.attempt \in 0 .. MaxDepth + 1 /\ MaxDepth \in Nat
    BY MemoryFields, Bounds
  <2>2. m.attempt + 1 <= MaxDepth
    BY <1>1, <2>1 DEF Reset
  <2> QED
    BY <1>1, <2>1, <2>2 DEF Older
<1>3. ASSUME NEW t \in Memory(n) \cap DOMAIN later, NEW i \in DOMAIN m.lastUsed, t \in m.lastUsed[i]
      PROVE  /\ later[t] <= (Len(m.lastUsed) - i) * MaxDepth + n.attempt
             /\ later[t] <= MaxDepth * MaxDepth
  <2> DEFINE k == Len(m.lastUsed) - i
             b == k * MaxDepth
             d == MaxDepth * MaxDepth
  <2>1. k \in Nat /\ k + 1 <= MaxDepth /\ m.attempt \in Nat /\ MaxDepth \in Nat
    BY BoundFacts, Bounds
  <2> HIDE DEF k
  <2>2. b \in Nat /\ d \in Nat /\ b + MaxDepth <= d
    BY <2>1, Products
  <2> HIDE DEF b, d
  <2>3. n.attempt = m.attempt + 1 /\ m.attempt + 1 <= MaxDepth
    BY <1>2, <1>3
  <2>4. CASE later[t] = 0
    <3>1. later[t] <= b + n.attempt /\ later[t] <= d
      BY <2>1, <2>2, <2>3, <2>4
    <3> QED
      BY <3>1 DEF b, d, k
  <2>5. CASE t \in DOMAIN age /\ later[t] \in Nat /\ later[t] <= age[t] + 1
    <3>1. t \in Memory(m) /\ age[t] \in Nat
      BY <1>1, <1>3, <2>5
    <3>2. age[t] <= b + m.attempt
      BY <1>3, <2>5, <3>1 DEF InTime, b, k
    <3>3. later[t] <= b + n.attempt /\ later[t] <= d
      BY <2>1, <2>2, <2>3, <2>5, <3>1, <3>2
    <3> QED
      BY <3>3 DEF b, d, k
  <2> QED
    BY <1>3, <2>4, <2>5 DEF KnownOf, n
<1>4. \A t \in Memory(n) \cap DOMAIN later : \A i \in DOMAIN n.lastUsed :
         t \in n.lastUsed[i] => later[t] <= (Len(n.lastUsed) - i) * MaxDepth + n.attempt
  BY <1>1, <1>3
<1>5. \A t \in Context(n) \cap DOMAIN later : later[t] <= MaxDepth * MaxDepth
  BY <1>1, <1>3
<1>6. Memory(n) # {} => n.attempt <= MaxDepth
  BY <1>2
<1> QED
  BY <1>4, <1>5, <1>6 DEF InTime, n

\* An answer is one more of the last answers; its tokens are used.
LEMMA InTimeAnswered ==
    ASSUME NEW m, MemoryOK(m), NEW r, NEW used \in Seq(Token), NEW age, NEW later, InTime(m, age),
           \A t \in DOMAIN age : age[t] \in Nat,
           \A t \in KnownOf(addItem(m, r, used)) \cap DOMAIN later :
              \/ later[t] = 0
              \/ t \in DOMAIN age /\ t \notin ToSet(used) /\ later[t] \in Nat /\ later[t] <= age[t]
    PROVE  InTime(addItem(m, r, used), later)
<1> DEFINE n == addItem(m, r, used)
           seq == Append(m.lastUsed, ToSet(used))
           L == LastOnes(seq, MaxDepth)
           l == Len(m.lastUsed)
<1>1. /\ MemoryOK(n) /\ n.lastUsed = L /\ n.attempt = 0 /\ Context(n) = Context(m)
      /\ Memory(n) \subseteq Memory(m) \cup ToSet(OwnTokens(r, used))
  BY AddItemFacts DEF Context
<1> HIDE DEF n
<1>2. m.lastUsed \in Seq(SUBSET Token) /\ l \in Nat /\ DOMAIN m.lastUsed = 1 .. l
  BY MemoryFields, LenProperties
<1>3. ToSet(used) \in SUBSET Token
  BY OwnRange
<1>4. /\ seq \in Seq(SUBSET Token) /\ Len(seq) = l + 1 /\ DOMAIN seq = 1 .. l + 1
      /\ \A k \in 1 .. l : seq[k] = m.lastUsed[k]
      /\ seq[l + 1] = ToSet(used)
  BY <1>2, <1>3, AppendProperties, LenProperties
<1> HIDE DEF seq, l
<1>5. \A i \in DOMAIN L : \E k \in DOMAIN seq : L[i] = seq[k] /\ Len(L) - i = Len(seq) - k
  BY <1>4, Bounds, LastOnesFacts
<1> HIDE DEF L
<1>6. ASSUME NEW t \in Memory(n) \cap DOMAIN later, NEW i \in DOMAIN n.lastUsed, t \in n.lastUsed[i]
      PROVE  later[t] <= (Len(n.lastUsed) - i) * MaxDepth + n.attempt
  <2> DEFINE b == (Len(n.lastUsed) - i) * MaxDepth
  <2>0. b \in Nat
    BY <1>1, BoundFacts
  <2>1. CASE later[t] = 0
    <3> HIDE DEF b
    <3>1. later[t] <= b + n.attempt
      BY <1>1, <2>0, <2>1
    <3> QED
      BY <3>1 DEF b
  <2>2. CASE t \in DOMAIN age /\ t \notin ToSet(used) /\ later[t] \in Nat /\ later[t] <= age[t]
    <3>1. t \in Memory(m)
      BY <1>1, <2>2, OwnFacts
    <3>2. PICK k \in 1 .. l + 1 : L[i] = seq[k] /\ Len(L) - i = Len(seq) - k
      BY <1>1, <1>4, <1>5
    <3>3. k # l + 1
      BY <1>1, <1>4, <1>6, <2>2, <3>2
    <3>4. k \in 1 .. l /\ k \in DOMAIN m.lastUsed /\ t \in m.lastUsed[k]
      BY <1>1, <1>2, <1>4, <1>6, <3>2, <3>3
    <3> DEFINE j == Len(m.lastUsed) - k
               a == j * MaxDepth
    <3>5. age[t] <= a + m.attempt
      BY <2>2, <3>1, <3>4 DEF InTime
    <3>6. Len(n.lastUsed) - i = j + 1 /\ j \in Nat
      BY <1>1, <1>2, <1>4, <3>2, <3>4 DEF l
    <3>7. b = (j + 1) * MaxDepth
      BY <3>6
    <3> HIDE DEF j, b
    <3>8. a \in Nat /\ (j + 1) * MaxDepth = a + MaxDepth
      BY <3>6, Products
    <3> HIDE DEF a
    <3>9. m.attempt <= MaxDepth /\ m.attempt \in Nat /\ MaxDepth \in Nat /\ age[t] \in Nat
      BY <2>2, <3>1, MemoryFields, Bounds DEF InTime
    <3>10. later[t] <= b + n.attempt
      BY <1>1, <2>2, <3>5, <3>7, <3>8, <3>9
    <3> QED
      BY <3>10 DEF b
  <2> QED
    BY <1>6, <2>1, <2>2 DEF KnownOf, n
<1>7. ASSUME NEW t \in Context(n) \cap DOMAIN later PROVE later[t] <= MaxDepth * MaxDepth
  <2> DEFINE b == MaxDepth * MaxDepth
  <2>0. b \in Nat
    BY Bounds
  <2>1. t \in DOMAIN age /\ t \in Context(m) => age[t] <= b /\ age[t] \in Nat
    BY DEF InTime
  <2> HIDE DEF b
  <2>2. later[t] = 0 \/ (t \in DOMAIN age /\ later[t] \in Nat /\ later[t] <= age[t])
    BY <1>7 DEF KnownOf, n
  <2>3. later[t] <= b
    BY <2>0, <2>1, <2>2, <1>1
  <2> QED
    BY <2>3 DEF b
<1>8. Memory(n) # {} => n.attempt <= MaxDepth
  BY <1>1, Bounds
<1> QED
  BY <1>6, <1>7, <1>8 DEF InTime, n

\* Tokens a step does not use, and that no update has reached, are as before.
LEMMA TrackQuiet ==
    ASSUME Types, NEW used, NEW updated, Track(used, updated), NEW n,
           \A c \in updated : Context(mem'[c]) \cap KnownOf(n) = {}
    PROVE  \A t \in KnownOf(n) \cap DOMAIN unused' :
              \/ unused'[t] = 0
              \/ t \in DOMAIN unused /\ t \notin used /\ unused'[t] \in Nat /\ unused'[t] <= unused[t]
<1> TAKE t \in KnownOf(n) \cap DOMAIN unused'
<1>0. Cap \in Nat
  BY Bounds DEF Cap
<1>1. unused'[t] \in 0 .. Cap
  BY TrackFacts
<1>2. t \in used \/ t \notin DOMAIN unused => unused'[t] = 0
  BY TrackFacts
<1>3. t \in DOMAIN unused => unused'[t] <= unused[t]
  BY TrackFacts
<1> QED
  BY <1>0, <1>1, <1>2, <1>3

LEMMA InTimeStep ==
    ASSUME Types, Apart, Apart', AllInTime, [Next]_vars
    PROVE  AllInTime'
<1>s. SUFFICES \A c \in Conv : InTime(mem'[c], unused')
  BY DEF AllInTime
<1>a. \A t \in DOMAIN unused : unused[t] \in Nat
  <2>1. \A t \in DOMAIN unused : unused[t] \in 0 .. Cap
    BY DEF Types
  <2> QED
    BY <2>1, Bounds DEF Cap
<1>m. \A c \in Conv : MemoryOK(mem[c]) /\ InTime(mem[c], unused)
  BY DEF Types, AllInTime
<1>1. CASE Quiet
  <2>1. \A c \in Conv : MemoryOK(mem'[c]) /\ Shrinks(mem[c], mem'[c])
    BY <1>1 DEF Quiet
  <2>2. CASE UNCHANGED <<mem, unused>>
    BY <1>m, <2>2
  <2>3. CASE Track({}, {})
    <3> TAKE c \in Conv
    <3>1. \A t \in KnownOf(mem'[c]) \cap DOMAIN unused' :
             \/ unused'[t] = 0
             \/ t \in DOMAIN unused /\ unused'[t] \in Nat /\ unused'[t] <= unused[t]
      BY <2>3, TrackQuiet
    <3> QED
      BY <1>a, <1>m, <2>1, <3>1, InTimeShrinks
  <2> QED
    BY <1>1, <2>2, <2>3 DEF Quiet
<1>2. ASSUME NEW d \in Conv, NEW s \in Sentence, Ask(d, s), NEW c \in Conv
      PROVE  InTime(mem'[c], unused')
  <2>1. /\ Track({}, {d}) /\ MemoryOK(mem'[c]) /\ Shrinks(update(mem[d]), mem'[d])
        /\ MemoryOK(update(mem[d])) /\ (c # d => Shrinks(mem[c], mem'[c]))
    BY <1>2, AskFacts
  <2>2. CASE c # d
    <3>1. Context(mem'[d]) \cap KnownOf(mem'[c]) = {}
      BY <2>2 DEF Apart, KnownOf
    <3>2. \A t \in KnownOf(mem'[c]) \cap DOMAIN unused' :
             \/ unused'[t] = 0
             \/ t \in DOMAIN unused /\ unused'[t] \in Nat /\ unused'[t] <= unused[t]
      BY <2>1, <3>1, TrackQuiet
    <3> QED
      BY <1>a, <1>m, <2>1, <2>2, <3>2, InTimeShrinks
  <2>3. CASE c = d
    <3> DEFINE n == update(mem[d])
    <3>1. \A t \in DOMAIN unused' :
             \/ unused'[t] = 0
             \/ t \in DOMAIN unused /\ unused'[t] \in Nat /\ unused'[t] <= unused[t] + 1
      <4> TAKE t \in DOMAIN unused'
      <4>0. Cap \in Nat
        BY Bounds DEF Cap
      <4>1. unused'[t] \in 0 .. Cap
        BY <2>1, TrackFacts
      <4>2. t \notin DOMAIN unused => unused'[t] = 0
        BY <2>1, TrackFacts
      <4>3. t \in DOMAIN unused => unused'[t] <= unused[t] + 1
        BY <2>1, TrackFacts
      <4> QED
        BY <4>0, <4>1, <4>2, <4>3
    <3>2. InTime(n, unused')
      BY <1>a, <1>m, <3>1, InTimeUpdated
    <3>3. \A t \in DOMAIN unused' : unused'[t] \in Nat
      BY <3>1
    <3> HIDE DEF n
    <3>4. \A t \in KnownOf(mem'[d]) \cap DOMAIN unused' :
             \/ unused'[t] = 0
             \/ t \in DOMAIN unused' /\ unused'[t] \in Nat /\ unused'[t] <= unused'[t]
      BY <3>3
    <3>5. InTime(mem'[d], unused')
      BY <2>1, <2>3, <3>2, <3>3, <3>4, InTimeShrinks DEF n
    <3> QED
      BY <2>3, <3>5
  <2> QED
    BY <2>2, <2>3
<1>3. ASSUME NEW r \in Req, NEW used \in Seq(Token), Answer(r, used), NEW c \in Conv
      PROVE  InTime(mem'[c], unused')
  <2> DEFINE d == query[r].conv
  <2>1. /\ d \in Conv /\ Track(ToSet(used), {})
        /\ MemoryOK(mem'[c]) /\ (c # d => Shrinks(mem[c], mem'[c]))
        /\ Shrinks(addItem(mem[d], r, used), mem'[d])
    BY <1>3, AnswerFacts
  <2>2. CASE c # d
    <3>1. \A t \in KnownOf(mem'[c]) \cap DOMAIN unused' :
             \/ unused'[t] = 0
             \/ t \in DOMAIN unused /\ unused'[t] \in Nat /\ unused'[t] <= unused[t]
      BY <2>1, TrackQuiet
    <3> QED
      BY <1>a, <1>m, <2>1, <2>2, <3>1, InTimeShrinks
  <2>3. CASE c = d
    <3> HIDE DEF d
    <3> DEFINE n == addItem(mem[d], r, used)
    <3>1. \A t \in KnownOf(n) \cap DOMAIN unused' :
             \/ unused'[t] = 0
             \/ t \in DOMAIN unused /\ t \notin ToSet(used) /\ unused'[t] \in Nat /\ unused'[t] <= unused[t]
      BY <2>1, TrackQuiet
    <3>2. InTime(n, unused') /\ MemoryOK(n)
      BY <1>a, <1>m, <2>1, <3>1, InTimeAnswered, AddItemFacts
    <3>3. \A t \in DOMAIN unused' : unused'[t] \in Nat
      <4>1. \A t \in DOMAIN unused' : unused'[t] \in 0 .. Cap
        BY <2>1, TrackFacts
      <4> QED
        BY <4>1, Bounds DEF Cap
    <3> HIDE DEF n
    <3>4. \A t \in KnownOf(mem'[d]) \cap DOMAIN unused' :
             \/ unused'[t] = 0
             \/ t \in DOMAIN unused' /\ unused'[t] \in Nat /\ unused'[t] <= unused'[t]
      BY <3>3
    <3>5. InTime(mem'[d], unused')
      BY <2>1, <2>3, <3>2, <3>3, <3>4, InTimeShrinks DEF n
    <3> QED
      BY <2>3, <3>5
  <2> QED
    BY <2>2, <2>3
<1> QED
  BY <1>1, <1>2, <1>3, QuietSteps

LEMMA InTimeAlways == Spec => []AllInTime
<1>1. Init => AllInTime
  <2> SUFFICES ASSUME Init PROVE AllInTime
    OBVIOUS
  <2>1. \A c \in Conv : Memory(mem[c]) = {} /\ Context(mem[c]) = {}
    BY FreshFacts DEF Init
  <2> QED
    BY <2>1 DEF AllInTime, InTime
<1>2. Types /\ Apart /\ Apart' /\ AllInTime /\ [Next]_vars => AllInTime'
  BY InTimeStep
<1> QED
  BY <1>1, <1>2, TypesAlways, ApartAlways, PTL DEF Spec

\* Tokens that answers do not use are forgotten: a token is in no context more
\* than MAX_DEPTH * MAX_DEPTH updates after its last use (update and addItem,
\* NCConversation).
THEOREM ForgottenInTimeHolds == Spec => []ForgottenInTime
<1>1. AllInTime => ForgottenInTime
  BY DEF AllInTime, InTime, ForgottenInTime
<1> QED
  BY <1>1, InTimeAlways, PTL

\* No query reads tokens of its own request.
ReadsOthers == \A r \in Req : \A t \in ToSet(query[r].read) : t.req # r

LEMMA ReadsOthersStep ==
    ASSUME Types, Apart, ReadsOthers, [Next]_vars
    PROVE  ReadsOthers'
<1> DEFINE OK(r, q) == \A t \in ToSet(q.read) : t.req # r
<1>s. SUFFICES \A r \in Req : OK(r, query'[r])
  BY DEF ReadsOthers
<1>0. \A r \in Req : OK(r, query[r])
  BY DEF ReadsOthers
<1>e. ToSet(<<>>) = {}
  BY DEF ToSet
<1>i. \A r \in Req : OK(r, Idle)
  BY <1>e DEF Idle
<1>3. ASSUME NEW r \in Req, NEW q, OK(r, q), query' = [query EXCEPT ![r] = q]
      PROVE  \A p \in Req : OK(p, query'[p])
  <2> HIDE DEF OK
  <2>1. \A p \in Req : query'[p] = IF p = r THEN q ELSE query[p]
    BY <1>3 DEF Types
  <2> QED
    BY <1>0, <1>3, <2>1
<1>5. ASSUME NEW c \in Conv, NEW s \in Sentence, Ask(c, s)
      PROVE  \A p \in Req : OK(p, query'[p])
  <2> DEFINE q == [step |-> "asked", conv |-> c, sentence |-> s, read |-> <<>>]
  <2>1. PICK r \in Req : query' = [query EXCEPT ![r] = q]
    BY <1>5, AskFacts DEF Forgotten
  <2>3. OK(r, q)
    BY <1>e
  <2> HIDE DEF OK, q
  <2> QED
    BY <1>3, <2>1, <2>3
<1>6. ASSUME NEW r \in Req, ReadContext(r)
      PROVE  \A p \in Req : OK(p, query'[p])
  <2> DEFINE q == [query[r] EXCEPT !.step = "read", !.read = tokens(mem[query[r].conv])]
  <2>1. query' = [query EXCEPT ![r] = q]
    BY <1>6 DEF ReadContext, Types
  <2>2. query[r].conv \in Conv /\ query[r] \in QueryType /\ query[r].step # "none"
    BY <1>6 DEF ReadContext, Types
  <2>3. ToSet(tokens(mem[query[r].conv])) \subseteq Context(mem[query[r].conv])
    BY <2>2, TokensFacts DEF Types
  <2>4. q.read = tokens(mem[query[r].conv])
    BY <2>2 DEF QueryType
  <2>5. OK(r, q)
    BY <2>2, <2>3, <2>4 DEF Apart, KnownOf
  <2> HIDE DEF OK, q
  <2> QED
    BY <1>3, <2>1, <2>5
<1>7. ASSUME NEW r \in Req, NEW used \in Seq(Token), Answer(r, used)
      PROVE  \A p \in Req : OK(p, query'[p])
  <2> HIDE DEF OK
  <2> QED
    BY <1>3, <1>7, <1>i DEF Answer
<1>8. ASSUME NEW r \in Req, Fail(r)
      PROVE  \A p \in Req : OK(p, query'[p])
  <2> HIDE DEF OK
  <2> QED
    BY <1>3, <1>8, <1>i DEF Fail
<1>9. ASSUME \/ \E r \in Req, groups \in Filters : ModelClears(r, groups)
             \/ \E c \in Conv : ClearConv(c)
             \/ Elapse \/ clean \/ UNCHANGED vars
      PROVE  query' = query
  BY <1>9 DEF ModelClears, ClearConv, Elapse, clean, vars
<1> HIDE DEF OK
<1> QED
  BY <1>0, <1>5, <1>6, <1>7, <1>8, <1>9, AnswerUses DEF Next, ProcessRequest

LEMMA ReadsOthersAlways == Spec => []ReadsOthers
<1>1. Init => ReadsOthers
  BY DEF Init, ReadsOthers, Idle, ToSet
<1>2. Types /\ Apart /\ ReadsOthers /\ [Next]_vars => ReadsOthers'
  BY ReadsOthersStep
<1> QED
  BY <1>1, <1>2, TypesAlways, ApartAlways, PTL DEF Spec

------------------------------------------------------------------------------
(* Solver and conversation.                                                  *)

\* A token that a match takes from the conversation, if it is still remembered,
\* is remembered after the answer and as fresh as the answer's own tokens: the
\* solver takes no token of a group that the sentence has (NCIntentSolverEngine)
\* and the conversation removes no others (addItem, NCConversation 200-228).
THEOREM UsedIsRememberedHolds == Spec => []UsedIsRemembered
<1>1. Types /\ AllDistinct /\ Apart /\ ReadsOthers => UsedIsRemembered
  <2> SUFFICES ASSUME Types, AllDistinct, Apart, ReadsOthers, NEW r \in Req, Reading(r), NEW a \in Found(r),
                      OwnTokens(r, a.match.toks) # <<>>,
                      NEW t \in ToSet(a.match.toks) \cap Memory(mem[query[r].conv])
               PROVE  LET after == addItem(mem[query[r].conv], r, a.match.toks)
                      IN  \E i \in DOMAIN after.stm : \E k \in DOMAIN after.stm[i] :
                             after.stm[i][k] = [tok |-> t, age |-> after.idle]
    BY DEF UsedIsRemembered
  <2> DEFINE c == query[r].conv
             used == a.match.toks
             own == OwnTokens(r, used)
             after == addItem(mem[c], r, used)
             conv == query[r].read
             variants == SentenceVariants(r)
  <2>1. query[r] \in QueryType /\ conv \in Seq(Token) /\ c \in Conv /\ query[r].step = "read"
    BY DEF Types, QueryType, Reading
  <2>2. \A v \in DOMAIN variants :
           /\ variants[v] \in Seq(Token)
           /\ \A s \in ToSet(variants[v]) : s.req = r
    BY <2>1, VariantFacts DEF SentenceVariants, QueryType
  <2>3. a \in Attempts(variants, conv, Intent)
    BY DEF Found, Matches
  <2> HIDE DEF variants, conv
  <2>4. used \in Seq(Token) /\ a.v \in DOMAIN variants
    BY <2>1, <2>2, <2>3, AttemptFacts
  <2> DEFINE sen == SentenceTokens(variants[a.v])
  <2>5. PICK intent \in Intent :
           ToSet(used) \subseteq ToSet(sen) \cup ToSet(ConversationTokens(intent, sen, conv))
    BY <2>1, <2>2, <2>3, AttemptFacts
  <2> DEFINE hist == ConversationTokens(intent, sen, conv)
  <2>6. /\ \A s \in ToSet(sen) : s.req = r
        /\ \A h \in ToSet(hist) : h.req # r /\ \A s \in ToSet(sen) : GetGroup(s) # GetGroup(h)
    <3>1. ToSet(sen) \subseteq ToSet(variants[a.v])
      BY <2>1, <2>2, <2>4, SeenFacts
    <3>2. \A h \in ToSet(hist) :
             h \in ToSet(conv) /\ \A s \in ToSet(sen) : GetGroup(s) # GetGroup(h)
      BY <2>1, <2>2, <2>4, SeenFacts
    <3>3. \A h \in ToSet(conv) : h.req # r
      BY DEF ReadsOthers, conv
    <3> QED
      BY <2>2, <2>4, <3>1, <3>2, <3>3
  <2> HIDE DEF sen, hist
  <2>7. \A x \in ToSet(used) : x \in ToSet(sen) \/ x \in ToSet(hist)
    BY <2>5 DEF hist
  <2> HIDE DEF c, used
  <2>8. t.req # r
    BY <2>1 DEF Apart, KnownOf, c
  <2>9. t \in ToSet(hist)
    BY <2>6, <2>7, <2>8 DEF used
  <2>10. \A s \in ToSet(own) : GetGroup(s) # GetGroup(t)
    <3> TAKE s \in ToSet(own)
    <3>1. s \in ToSet(used) /\ s.req = r
      BY <2>4, OwnFacts
    <3>2. CASE s \in ToSet(sen)
      BY <2>6, <2>9, <3>2
    <3> QED
      BY <2>6, <2>7, <3>1, <3>2
  <2>11. [tok |-> t, age |-> mem[c].idle] \in Holders(after.stm) /\ after.idle = mem[c].idle
    BY <2>1, <2>4, <2>10, AddItemFacts DEF Types, AllDistinct, used, c
  <2>12. PICK i \in DOMAIN after.stm : [tok |-> t, age |-> mem[c].idle] \in ToSet(after.stm[i])
    BY <2>11 DEF Holders
  <2>13. PICK k \in DOMAIN after.stm[i] : after.stm[i][k] = [tok |-> t, age |-> mem[c].idle]
    BY <2>12 DEF ToSet
  <2> QED
    BY <2>11, <2>13 DEF c, used
<1> QED
  BY <1>1, TypesAlways, DistinctAlways, ApartAlways, ReadsOthersAlways, PTL

------------------------------------------------------------------------------
(* The greedy search: what a match prefers, and that it misses nothing.      *)

\* P has the first n numbers of K, or all.
First(P, K, n) ==
    /\ P \subseteq K /\ IsFiniteSet(P) /\ Cardinality(P) <= n
    /\ P = K \/ Cardinality(P) = n
    /\ \A i \in P, k \in K : k < i => k \in P

\* Where in toks an item finds tokens it accepts.
Fits(item, toks, used) == {i \in DOMAIN toks : toks[i] \notin used /\ Accepts(item, toks[i])}

LEMMA ConcatFacts ==
    ASSUME NEW A, NEW s \in Seq(A), NEW t \in Seq(A)
    PROVE  /\ s \o t \in Seq(A) /\ Len(s) \in Nat /\ Len(t) \in Nat
           /\ DOMAIN s = 1 .. Len(s) /\ DOMAIN (s \o t) = 1 .. Len(s) + Len(t)
           /\ \A i \in 1 .. Len(s) : (s \o t)[i] = s[i]
           /\ \A i \in DOMAIN (s \o t) : i > Len(s) => (s \o t)[i] \in ToSet(t)
           /\ ToSet(s \o t) = ToSet(s) \cup ToSet(t)
<1> DEFINE c == s \o t
           m == Len(s)
           n == Len(t)
<1>1. /\ c \in Seq(A) /\ Len(c) = m + n
      /\ \A i \in 1 .. m + n : c[i] = IF i <= m THEN s[i] ELSE t[i - m]
  BY ConcatProperties
<1>2. m \in Nat /\ n \in Nat /\ DOMAIN s = 1 .. m /\ DOMAIN t = 1 .. n /\ DOMAIN c = 1 .. m + n
  BY <1>1, LenProperties
<1> HIDE DEF c, m, n
<1>3. \A i \in 1 .. m : c[i] = s[i]
  BY <1>1, <1>2
<1>4. ASSUME NEW i \in 1 .. m + n, i > m PROVE c[i] \in ToSet(t)
  <2>1. i - m \in 1 .. n /\ c[i] = t[i - m]
    BY <1>1, <1>2, <1>4
  <2> QED
    BY <2>1, <1>2 DEF ToSet
<1>5. ToSet(s) \subseteq ToSet(c)
  <2>1. \A i \in 1 .. m : i \in 1 .. m + n
    BY <1>2
  <2> QED
    BY <2>1, <1>2, <1>3 DEF ToSet
<1>6. ToSet(t) \subseteq ToSet(c)
  <2>1. \A i \in 1 .. n : i + m \in 1 .. m + n /\ c[i + m] = t[i]
    BY <1>1, <1>2
  <2> QED
    BY <2>1, <1>2 DEF ToSet
<1>7. ToSet(c) \subseteq ToSet(s) \cup ToSet(t)
  <2> SUFFICES ASSUME NEW i \in 1 .. m + n PROVE c[i] \in ToSet(s) \cup ToSet(t)
    BY <1>2 DEF ToSet
  <2>1. CASE i \in 1 .. m
    BY <2>1, <1>2, <1>3 DEF ToSet
  <2>2. CASE i > m
    BY <2>2, <1>4
  <2> QED
    BY <2>1, <2>2, <1>2
<1> QED
  BY <1>1, <1>2, <1>3, <1>4, <1>5, <1>6, <1>7 DEF c, m, n

\* An item takes the first tokens that fit, the sentence's before the others.
LEMMA CollectTakes ==
    ASSUME NEW A, NEW sen \in Seq(A), NEW conv \in Seq(A), NEW used, NEW item, ItemOK(item)
    PROVE  \E P : /\ First(P, Fits(item, sen \o conv, used), item.max)
                  /\ ToSet(collect(item, sen, conv, used)) = {(sen \o conv)[i] : i \in P}
                  /\ Len(collect(item, sen, conv, used)) = Cardinality(P)
<1> DEFINE toks == sen \o conv
           K == Fits(item, toks, used)
           s == Keep(toks, K)
           c == collect(item, sen, conv, used)
           n == item.max
           L == Len(s)
           m == Len(c)
<1>1. toks \in Seq(A) /\ c = FirstOnes(s, n) /\ n \in Nat /\ K \subseteq DOMAIN toks
  BY ConcatFacts DEF collect, Fits, ItemOK
<1>d. DOMAIN toks = 1 .. Len(toks) /\ Len(toks) \in Nat
  BY <1>1, LenProperties
<1> HIDE DEF toks, K, c, n
<1>2. s \in Seq(A)
  BY <1>1, KeepFacts
<1>3. PICK at : Selects(at, s, toks, K)
  BY <1>1, KeepFacts
<1> HIDE DEF s
<1>4. /\ L \in Nat /\ DOMAIN s = 1 .. L /\ m \in Nat /\ m <= n /\ m <= L /\ (m = L \/ m = n)
      /\ DOMAIN c = 1 .. m /\ \A k \in 1 .. m : c[k] = s[k]
  <2>0. L \in Nat /\ DOMAIN s = 1 .. L /\ \A i \in 1 .. L : s[i] \in A
    BY <1>2, LenProperties, ElementOfSeq
  <2>1. CASE L > n
    <3>1. c = SubSeq(s, 1, n) /\ \A i \in 1 .. n : s[i] \in A
      BY <1>1, <2>0, <2>1 DEF FirstOnes
    <3>2. /\ c \in Seq(A) /\ Len(c) = IF 1 <= n THEN n - 1 + 1 ELSE 0
          /\ \A i \in 1 .. n - 1 + 1 : c[i] = s[1 + i - 1]
      BY <1>1, <3>1, SubSeqProperties
    <3>3. m = n /\ \A i \in 1 .. n : c[i] = s[i]
      BY <1>1, <3>2
    <3> QED
      BY <1>1, <2>0, <2>1, <3>2, <3>3, LenProperties
  <2>2. CASE ~(L > n)
    <3>1. c = s
      BY <1>1, <2>2 DEF FirstOnes
    <3> QED
      BY <1>1, <2>0, <2>2, <3>1
  <2> QED
    BY <2>1, <2>2
<1> DEFINE P == {at[k] : k \in 1 .. m}
<1>5. /\ \A k \in 1 .. L : at[k] \in DOMAIN toks \cap K
      /\ \A j, k \in 1 .. L : j < k => at[j] < at[k]
      /\ \A k \in 1 .. L : s[k] = toks[at[k]]
      /\ \A i \in K : \E k \in 1 .. L : at[k] = i
  BY <1>1, <1>3, <1>4 DEF Selects
<1> HIDE DEF L, m
<1>6. \A k \in 1 .. m : k \in 1 .. L
  BY <1>4
<1>7. IsFiniteSet(P) /\ Cardinality(P) = m
  <2> DEFINE g == [k \in 1 .. m |-> at[k]]
  <2>1. IsFiniteSet(1 .. m) /\ Cardinality(1 .. m) = m
    BY <1>4, FS_Interval
  <2>2. g \in Surjection(1 .. m, P)
    BY DEF Surjection
  <2>3. \A j, k \in 1 .. m : j # k => at[j] # at[k]
    <3> TAKE j, k \in 1 .. m
    <3>1. j \in 1 .. L /\ k \in 1 .. L /\ at[j] \in Int /\ at[k] \in Int
      BY <1>5, <1>6, <1>d
    <3>2. CASE j < k
      BY <3>1, <3>2, <1>5
    <3>3. CASE k < j
      BY <3>1, <3>3, <1>5
    <3> QED
      BY <3>2, <3>3, <1>4
  <2>4. g \in Injection(1 .. m, P)
    BY <2>3 DEF Injection, IsInjective
  <2> HIDE DEF g, P
  <2> QED
    BY <2>1, <2>2, <2>4, FS_Surjection
<1>8. First(P, K, n)
  <2>1. P \subseteq K
    BY <1>5, <1>6
  <2>2. P = K \/ Cardinality(P) = n
    <3>1. CASE m = L
      BY <3>1, <1>5, <2>1
    <3>2. CASE m = n
      BY <3>2, <1>7
    <3> QED
      BY <3>1, <3>2, <1>4
  <2>3. ASSUME NEW i \in P, NEW k \in K, k < i PROVE k \in P
    <3>1. PICK a \in 1 .. m : i = at[a]
      OBVIOUS
    <3>2. PICK b \in 1 .. L : k = at[b]
      BY <1>5
    <3>3. a \in 1 .. L /\ at[a] \in Int /\ at[b] \in Int
      BY <1>5, <1>6, <1>d
    <3>4. ~(a < b) /\ a # b
      BY <1>5, <2>3, <3>1, <3>2, <3>3
    <3>5. b \in 1 .. m
      BY <3>3, <3>4, <1>4
    <3> QED
      BY <3>2, <3>5
  <2> HIDE DEF P
  <2> QED
    BY <1>4, <1>7, <2>1, <2>2, <2>3 DEF First
<1>9. ToSet(c) = {toks[i] : i \in P}
  <2>1. ToSet(c) = {c[k] : k \in 1 .. m}
    BY <1>4 DEF ToSet
  <2>2. \A k \in 1 .. m : c[k] = toks[at[k]]
    BY <1>4, <1>5, <1>6
  <2> QED
    BY <2>1, <2>2
<1> HIDE DEF P
<1> QED
  BY <1>7, <1>8, <1>9 DEF c, K, toks, n, m

\* Of the tokens that are used, those not of the sentence were taken for an
\* item that fits no token left of it.
Prefers(used, sen, items) ==
    \A t \in used \ ToSet(sen), s \in ToSet(sen) \ used :
        \E item \in items : Accepts(item, t) /\ ~Accepts(item, s)

LEMMA CollectPrefers ==
    ASSUME NEW A, NEW sen \in Seq(A), NEW conv \in Seq(A), NEW used,
           NEW items, NEW item \in items, ItemOK(item), Prefers(used, sen, items)
    PROVE  Prefers(used \cup ToSet(collect(item, sen, conv, used)), sen, items)
<1> DEFINE toks == sen \o conv
           K == Fits(item, toks, used)
           C == ToSet(collect(item, sen, conv, used))
<1>1. PICK P : /\ First(P, Fits(item, sen \o conv, used), item.max)
               /\ ToSet(collect(item, sen, conv, used)) = {(sen \o conv)[i] : i \in P}
               /\ Len(collect(item, sen, conv, used)) = Cardinality(P)
  <2> HIDE DEF toks, K, C
  <2> QED
    BY CollectTakes
<1>p. First(P, K, item.max) /\ C = {toks[i] : i \in P}
  BY <1>1
<1>2. /\ Len(sen) \in Nat /\ DOMAIN sen = 1 .. Len(sen) /\ Len(conv) \in Nat
      /\ DOMAIN toks = 1 .. Len(sen) + Len(conv)
      /\ \A i \in 1 .. Len(sen) : toks[i] = sen[i]
  BY ConcatFacts
<1>3. \A i \in K : i \in DOMAIN toks /\ Accepts(item, toks[i])
  BY DEF Fits
<1>4. \A i \in DOMAIN toks : toks[i] \notin used /\ Accepts(item, toks[i]) => i \in K
  BY DEF Fits
<1> HIDE DEF toks, K, C
<1> SUFFICES ASSUME NEW t \in (used \cup C) \ ToSet(sen), NEW s \in ToSet(sen) \ (used \cup C)
             PROVE  \E x \in items : Accepts(x, t) /\ ~Accepts(x, s)
  BY DEF Prefers, C
<1>5. CASE t \in used
  BY <1>5 DEF Prefers
<1>6. CASE t \in C
  <2>1. PICK i \in P : t = toks[i]
    BY <1>p, <1>6
  <2>2. i \in K /\ i \in DOMAIN toks /\ Accepts(item, t)
    BY <1>p, <1>3, <2>1 DEF First
  <2>3. PICK j \in 1 .. Len(sen) : s = sen[j]
    BY <1>2 DEF ToSet
  <2>4. s = toks[j] /\ j \in DOMAIN toks
    BY <1>2, <2>3
  <2>5. ~(i \in 1 .. Len(sen))
    BY <1>2, <2>1 DEF ToSet
  <2>6. j < i
    BY <1>2, <2>2, <2>3, <2>5
  <2>7. ~Accepts(item, s)
    <3> SUFFICES ASSUME Accepts(item, s) PROVE FALSE
      OBVIOUS
    <3>1. j \in K
      BY <1>4, <2>4
    <3>2. j \in P
      BY <1>p, <2>6, <3>1 DEF First
    <3> QED
      BY <1>p, <2>4, <3>2
  <2> QED
    BY <2>2, <2>7
<1> QED
  BY <1>5, <1>6

\* An item adds its tokens to the partial match, or the match fails.
Extends(n, m, item, toks) ==
    \/ /\ ~(m.ok /\ Enough(item, toks))
       /\ n.ok = FALSE /\ n.toks = m.toks /\ n.used = m.used
    \/ /\ m.ok /\ Enough(item, toks)
       /\ n.ok = m.ok /\ n.toks = m.toks \o toks /\ n.used = m.used \cup ToSet(toks)

LEMMA SolveItemTakes ==
    ASSUME NEW A, NEW m, PartOf(m, A), NEW sen, NEW conv, NEW item
    PROVE  Extends(solveItem(item, sen, conv, m), m, item, collect(item, sen, conv, m.used))
<1> DEFINE toks == collect(item, sen, conv, m.used)
           n == solveItem(item, sen, conv, m)
<1> SUFFICES Extends(n, m, item, toks)
  OBVIOUS
<1>1. CASE ~(m.ok /\ Enough(item, toks))
  <2>1. n = [m EXCEPT !.ok = FALSE]
    BY <1>1 DEF solveItem
  <2> HIDE DEF n, toks
  <2>2. n.ok = FALSE /\ n.toks = m.toks /\ n.used = m.used
    BY <2>1 DEF PartOf
  <2> QED
    BY <1>1, <2>2 DEF Extends
<1>2. CASE m.ok /\ Enough(item, toks)
  <2>1. \E spec, weight :
           n = [m EXCEPT !.toks = @ \o toks, !.used = @ \cup ToSet(toks),
                         !.spec = spec, !.weight = weight]
    BY <1>2 DEF solveItem
  <2>2. PICK spec, weight :
           n = [m EXCEPT !.toks = @ \o toks, !.used = @ \cup ToSet(toks),
                         !.spec = spec, !.weight = weight]
    BY <2>1
  <2> HIDE DEF n, toks
  <2>3. n.ok = m.ok /\ n.toks = m.toks \o toks /\ n.used = m.used \cup ToSet(toks)
    BY <2>2 DEF PartOf
  <2> QED
    BY <1>2, <2>3 DEF Extends
<1> QED
  BY <1>1, <1>2

LEMMA TermPrefers ==
    ASSUME NEW A, NEW sen \in Seq(A), NEW conv \in Seq(A), NEW used, used \subseteq A,
           NEW B, NEW term \in Seq(B), \A item \in B : ItemOK(item),
           NEW items, B \subseteq items, Prefers(used, sen, items)
    PROVE  LET m == solveTerm(term, sen, conv, used)
           IN  m.used = used \cup ToSet(m.toks) /\ Prefers(m.used, sen, items)
<1> DEFINE N == Len(term)
           Good(m) == /\ PartOf(m, A) /\ m.used = used \cup ToSet(m.toks)
                      /\ Prefers(m.used, sen, items)
<1>n. N \in Nat /\ \A i \in 1 .. N : term[i] \in B
  BY LenProperties, ElementOfSeq
<1>0. PICK f : TermRun(f, term, sen, conv, used)
  BY <1>n, TermSteps
<1>1. /\ solveTerm(term, sen, conv, used) = f[N]
      /\ f[0] = Nothing(used)
      /\ \A n \in 1 .. N : f[n] = solveItem(term[n], sen, conv, f[n - 1])
  BY <1>0 DEF TermRun
<1> HIDE DEF N
<1> DEFINE S == {k \in Nat : k <= N => Good(f[k])}
<1>2. 0 \in S
  <2>1. Good(Nothing(used))
    BY EmptySeq DEF PartOf, Nothing, ToSet
  <2> HIDE DEF Good
  <2> QED
    BY <1>1, <2>1
<1>3. ASSUME NEW k \in Nat, k \in S PROVE k + 1 \in S
  <2> SUFFICES ASSUME k + 1 <= N PROVE Good(f[k + 1])
    OBVIOUS
  <2>1. Good(f[k]) /\ k + 1 \in 1 .. N /\ (k + 1) - 1 = k
    BY <1>3, <1>n
  <2> DEFINE m == f[k]
             item == term[k + 1]
             toks == collect(item, sen, conv, m.used)
             n == solveItem(item, sen, conv, m)
  <2>2. f[k + 1] = n /\ item \in B /\ ItemOK(item)
    BY <2>1, <1>1, <1>n
  <2>m. Good(m) /\ PartOf(m, A) /\ Prefers(m.used, sen, items) /\ m.toks \in Seq(A)
    BY <2>1 DEF PartOf
  <2> HIDE DEF m, item, Good
  <2>3. PartOf(n, A)
    BY <2>2, <2>m, SolveItemFacts
  <2>t. toks \in Seq(A)
    BY <2>2, CollectFacts
  <2>4. Prefers(m.used \cup ToSet(toks), sen, items)
    BY <2>2, <2>m, CollectPrefers
  <2>5. \/ n.toks = m.toks /\ n.used = m.used
        \/ n.toks = m.toks \o toks /\ n.used = m.used \cup ToSet(toks)
    <3>1. Extends(n, m, item, toks)
      BY <2>m, SolveItemTakes
    <3> HIDE DEF toks, n
    <3> QED
      BY <3>1 DEF Extends
  <2> HIDE DEF toks, n
  <2>6. ToSet(m.toks \o toks) = ToSet(m.toks) \cup ToSet(toks)
    BY <2>m, <2>t, ConcatFacts
  <2>7. n.used = used \cup ToSet(n.toks) /\ Prefers(n.used, sen, items)
    <3>1. CASE n.toks = m.toks /\ n.used = m.used
      BY <2>m, <3>1 DEF Good
    <3>2. CASE n.toks = m.toks \o toks /\ n.used = m.used \cup ToSet(toks)
      BY <2>m, <2>4, <2>6, <3>2 DEF Good
    <3> QED
      BY <2>5, <3>1, <3>2
  <2>8. Good(n)
    BY <2>3, <2>7 DEF Good
  <2> QED
    BY <2>2, <2>8
<1>4. Nat \subseteq S
  BY <1>2, <1>3, Induction
<1> QED
  BY <1>1, <1>4, <1>n

\* An item of the intent is where Places says.
ItemsOf(intent) == {ItemAt(intent, p) : p \in Places(intent)}

LEMMA PlacesFacts ==
    ASSUME NEW intent, IntentOK(intent)
    PROVE  /\ Len(intent.terms) \in Nat /\ DOMAIN intent.terms = 1 .. Len(intent.terms)
           /\ \A n \in DOMAIN intent.terms :
                 LET term == intent.terms[n] IN
                 /\ Len(term) \in Nat /\ DOMAIN term = 1 .. Len(term)
                 /\ term \in Seq(ToSet(term)) /\ ToSet(term) \subseteq ItemsOf(intent)
                 /\ \A k \in DOMAIN term :
                       /\ <<n, k>> \in Places(intent) /\ ItemAt(intent, <<n, k>>) = term[k]
                       /\ ItemOK(term[k])
                 /\ \A item \in ToSet(term) : ItemOK(item)
           /\ \A p \in Places(intent) :
                 /\ p[1] \in DOMAIN intent.terms /\ p[2] \in DOMAIN intent.terms[p[1]]
                 /\ p = <<p[1], p[2]>> /\ ItemOK(ItemAt(intent, p)) /\ p # Nowhere
<1> DEFINE terms == intent.terms
<1>1. terms \in Seq(ToSet(terms))
  BY DEF IntentOK
<1>2. \A n \in DOMAIN terms :
         LET term == terms[n] IN
         term \in Seq(ToSet(term)) /\ \A item \in ToSet(term) : ItemOK(item)
  BY DEF IntentOK, ToSet
<1>p. \A p : p \in Places(intent) <=>
          \E n \in DOMAIN terms : \E k \in DOMAIN terms[n] : p = <<n, k>>
  BY DEF Places
<1>i. \A n, k : ItemAt(intent, <<n, k>>) = terms[n][k]
  BY DEF ItemAt
<1> HIDE DEF terms
<1>3. Len(terms) \in Nat /\ DOMAIN terms = 1 .. Len(terms)
  BY <1>1, LenProperties
<1>4. ASSUME NEW n \in DOMAIN terms
      PROVE  LET term == terms[n] IN
             /\ Len(term) \in Nat /\ DOMAIN term = 1 .. Len(term)
             /\ term \in Seq(ToSet(term)) /\ ToSet(term) \subseteq ItemsOf(intent)
             /\ \A k \in DOMAIN term :
                   /\ <<n, k>> \in Places(intent) /\ ItemAt(intent, <<n, k>>) = term[k]
                   /\ ItemOK(term[k])
             /\ \A item \in ToSet(term) : ItemOK(item)
  <2> DEFINE term == terms[n]
  <2>1. term \in Seq(ToSet(term)) /\ \A item \in ToSet(term) : ItemOK(item)
    BY <1>2
  <2>2. \A k \in DOMAIN term :
           <<n, k>> \in Places(intent) /\ ItemAt(intent, <<n, k>>) = term[k] /\ term[k] \in ToSet(term)
    BY <1>p, <1>i DEF ToSet
  <2> HIDE DEF term
  <2>3. Len(term) \in Nat /\ DOMAIN term = 1 .. Len(term)
    BY <2>1, LenProperties
  <2>4. ToSet(term) \subseteq ItemsOf(intent)
    BY <2>2 DEF ToSet, ItemsOf
  <2> QED
    BY <2>1, <2>2, <2>3, <2>4 DEF term
<1>5. ASSUME NEW p \in Places(intent)
      PROVE  /\ p[1] \in DOMAIN terms /\ p[2] \in DOMAIN terms[p[1]]
             /\ p = <<p[1], p[2]>> /\ ItemOK(ItemAt(intent, p)) /\ p # Nowhere
  <2>0. PICK n \in DOMAIN terms : \E k \in DOMAIN terms[n] : p = <<n, k>>
    BY <1>p
  <2>1. PICK k \in DOMAIN terms[n] : p = <<n, k>>
    BY <2>0
  <2>2. p[1] = n /\ p[2] = k
    BY <2>1
  <2>3. ItemOK(ItemAt(intent, p))
    BY <2>1, <1>4
  <2>4. n # 0
    BY <1>3
  <2> QED
    BY <2>1, <2>2, <2>3, <2>4 DEF Nowhere
<1> QED
  BY <1>3, <1>4, <1>5 DEF terms

LEMMA TermsPrefer ==
    ASSUME NEW A, NEW sen \in Seq(A), NEW conv \in Seq(A), NEW intent, IntentOK(intent)
    PROVE  LET toks == ToSet(solveIntent(intent, sen, conv).toks)
           IN  Prefers(toks, sen, ItemsOf(intent))
<1> DEFINE terms == intent.terms
           N == Len(terms)
<1>n. N \in Nat /\ DOMAIN terms = 1 .. N
  BY PlacesFacts
<1>0. PICK f : TermsRun(f, intent, sen, conv)
  BY <1>n, TermsSteps
<1>1. /\ solveTerms(intent, sen, conv) = f[N]
      /\ f[0] = Empty
      /\ \A n \in 1 .. N : f[n] = addTerm(intent, terms[n], sen, conv, f[n - 1])
  BY <1>0 DEF TermsRun
<1> DEFINE items == ItemsOf(intent)
           Groups(m) == UNION {ToSet(m.groups[i]) : i \in DOMAIN m.groups}
           Good(m) == MatchOf(m, A) /\ m.used = Groups(m) /\ Prefers(m.used, sen, items)
           S == {k \in Nat : k <= N => Good(f[k])}
<1> HIDE DEF N, items
<1>2. 0 \in S
  <2>1. MatchOf(Empty, A) /\ Empty.used = {} /\ Empty.groups = <<>>
    BY EmptySeq DEF MatchOf, Empty
  <2>2. Groups(Empty) = {}
    BY <2>1
  <2>3. Prefers({}, sen, items)
    BY DEF Prefers
  <2>4. Good(Empty)
    BY <2>1, <2>2, <2>3
  <2> HIDE DEF Good
  <2> QED
    BY <1>1, <2>4
<1>3. ASSUME NEW k \in Nat, k \in S PROVE k + 1 \in S
  <2> SUFFICES ASSUME k + 1 <= N PROVE Good(f[k + 1])
    OBVIOUS
  <2>1. Good(f[k]) /\ k + 1 \in 1 .. N /\ (k + 1) - 1 = k
    BY <1>3, <1>n
  <2> DEFINE m == f[k]
             term == terms[k + 1]
             tm == solveTerm(term, sen, conv, m.used)
             n == addTerm(intent, term, sen, conv, m)
  <2>2. f[k + 1] = n
    BY <2>1, <1>1
  <2>3. term \in Seq(ToSet(term)) /\ ToSet(term) \subseteq items /\ \A item \in ToSet(term) : ItemOK(item)
    BY <2>1, <1>n, PlacesFacts DEF items
  <2> HIDE DEF m, term
  <2>4. MatchOf(m, A) /\ m.used = Groups(m) /\ Prefers(m.used, sen, items) /\ m.used \subseteq A
    BY <2>1 DEF m, MatchOf
  <2>5. MatchOf(n, A)
    BY <2>3, <2>4, AddTermFacts
  <2>6. tm.used = m.used \cup ToSet(tm.toks) /\ Prefers(tm.used, sen, items) /\ PartOf(tm, A)
    <3> DEFINE used == m.used
               B == ToSet(term)
    <3>1. /\ used \subseteq A /\ Prefers(used, sen, items)
          /\ term \in Seq(B) /\ B \subseteq items /\ \A item \in B : ItemOK(item)
      BY <2>3, <2>4
    <3> HIDE DEF used, B
    <3>2. PartOf(solveTerm(term, sen, conv, used), A)
      BY <3>1, SolveTermFacts
    <3>3. LET x == solveTerm(term, sen, conv, used)
          IN  x.used = used \cup ToSet(x.toks) /\ Prefers(x.used, sen, items)
      BY <3>1, TermPrefers
    <3> QED
      BY <3>2, <3>3 DEF used
  <2>7. \/ n = m
        \/ n = [m EXCEPT !.status = "none"]
        \/ n = [m EXCEPT !.status = "throws"]
        \/ n = [m EXCEPT !.groups = Append(@, tm.toks), !.used = tm.used,
                         !.spec = @ + tm.spec, !.weight = @ + tm.weight]
    BY DEF addTerm
  <2> HIDE DEF n, tm
  <2>8. \/ n.used = m.used /\ n.groups = m.groups
        \/ n.used = tm.used /\ n.groups = Append(m.groups, tm.toks)
    BY <2>4, <2>7 DEF MatchOf
  <2>9. CASE n.used = m.used /\ n.groups = m.groups
    BY <2>2, <2>4, <2>5, <2>9
  <2>10. CASE n.used = tm.used /\ n.groups = Append(m.groups, tm.toks)
    <3> DEFINE g == m.groups
               G == n.groups
               L == Len(g)
    <3>1. g \in Seq(Seq(A)) /\ tm.toks \in Seq(A)
      BY <2>4, <2>6 DEF MatchOf, PartOf
    <3> HIDE DEF g
    <3>2. L \in Nat /\ DOMAIN g = 1 .. L
      BY <3>1, LenProperties
    <3>3. DOMAIN G = 1 .. L + 1 /\ (\A i \in 1 .. L : G[i] = g[i]) /\ G[L + 1] = tm.toks
      BY <3>1, <3>2, <2>10, AppendProperties DEF g
    <3> HIDE DEF G, L
    <3>4. UNION {ToSet(G[i]) : i \in 1 .. L + 1} = (UNION {ToSet(g[i]) : i \in 1 .. L}) \cup ToSet(tm.toks)
      <4>1. \A i \in 1 .. L + 1 : i \in 1 .. L \/ i = L + 1
        BY <3>2
      <4>2. \A i \in 1 .. L : i \in 1 .. L + 1
        BY <3>2
      <4>3. L + 1 \in 1 .. L + 1
        BY <3>2
      <4> QED
        BY <3>3, <4>1, <4>2, <4>3
    <3>5. Groups(n) = Groups(m) \cup ToSet(tm.toks)
      BY <3>2, <3>3, <3>4 DEF g, G
    <3> QED
      BY <2>2, <2>4, <2>5, <2>6, <2>10, <3>5
  <2> QED
    BY <2>8, <2>9, <2>10
<1>4. Nat \subseteq S
  BY <1>2, <1>3, Induction
<1>5. Good(solveTerms(intent, sen, conv))
  BY <1>1, <1>4, <1>n
<1> DEFINE m == solveTerms(intent, sen, conv)
<1>6. solveIntent(intent, sen, conv).toks = FlattenSeq(m.groups)
  BY DEF solveIntent, conclude
<1>7. m.groups \in Seq(Seq(A)) /\ m.used = Groups(m) /\ Prefers(m.used, sen, items)
  BY <1>5 DEF MatchOf
<1> HIDE DEF m
<1>8. ToSet(FlattenSeq(m.groups)) = Groups(m)
  BY <1>7, FlattenFacts
<1> QED
  BY <1>6, <1>7, <1>8 DEF items

\* A match of the query r, and what it was made of.
LEMMA FoundFacts ==
    ASSUME Types, ReadsOthers, NEW r \in Req, Reading(r)
    PROVE  /\ \A v \in DOMAIN SentenceVariants(r) :
                /\ Seen(r, v) \in Seq(Token) /\ \A s \in ToSet(Seen(r, v)) : s.req = r
                /\ \A intent \in Intent :
                      /\ History(r, v, intent) \in Seq(Token)
                      /\ \A t \in ToSet(History(r, v, intent)) : t.req # r
           /\ \A a \in Found(r) :
                /\ a.v \in DOMAIN SentenceVariants(r) /\ a.match.intent \in Intent
                /\ a.match = solveIntent(a.match.intent, Seen(r, a.v),
                                         History(r, a.v, a.match.intent))
<1> DEFINE variants == SentenceVariants(r)
           conv == query[r].read
<1>1. query[r] \in QueryType /\ conv \in Seq(Token)
  BY DEF Types, QueryType
<1>2. \A v \in DOMAIN variants :
         variants[v] \in Seq(Token) /\ \A s \in ToSet(variants[v]) : s.req = r
  BY <1>1, VariantFacts DEF SentenceVariants, QueryType
<1>3. \A t \in ToSet(conv) : t.req # r
  BY DEF ReadsOthers
<1> HIDE DEF variants, conv
<1>4. ASSUME NEW v \in DOMAIN variants
      PROVE  /\ Seen(r, v) \in Seq(Token) /\ \A s \in ToSet(Seen(r, v)) : s.req = r
             /\ \A intent \in Intent :
                   /\ History(r, v, intent) \in Seq(Token)
                   /\ \A t \in ToSet(History(r, v, intent)) : t.req # r
  <2>1. Seen(r, v) = SentenceTokens(variants[v])
    BY DEF Seen, variants
  <2>2. \A intent : History(r, v, intent) = ConversationTokens(intent, Seen(r, v), conv)
    BY DEF History, conv
  <2>3. Seen(r, v) \in Seq(Token) /\ ToSet(Seen(r, v)) \subseteq ToSet(variants[v])
    BY <1>1, <1>2, <2>1, SeenFacts
  <2>4. \A intent :
           /\ History(r, v, intent) \in Seq(Token)
           /\ \A t \in ToSet(History(r, v, intent)) : t \in ToSet(conv)
    BY <1>1, <1>2, <2>1, <2>2, SeenFacts
  <2> QED
    BY <1>2, <1>3, <2>3, <2>4
<1>5. ASSUME NEW a \in Found(r)
      PROVE  /\ a.v \in DOMAIN variants /\ a.match.intent \in Intent
             /\ a.match = solveIntent(a.match.intent, Seen(r, a.v), History(r, a.v, a.match.intent))
  <2>1. a \in Attempts(variants, conv, Intent)
    BY DEF Found, Matches, variants, conv
  <2>2. PICK v \in DOMAIN variants, intent \in Intent :
           /\ a.v = v
           /\ a.match = solveIntent(intent, SentenceTokens(variants[v]),
                            ConversationTokens(intent, SentenceTokens(variants[v]), conv))
    BY <2>1 DEF Attempts
  <2>3. a.match = solveIntent(intent, Seen(r, v), History(r, v, intent))
    BY <2>2 DEF Seen, History, variants, conv
  <2>4. a.match.intent = intent
    BY <2>3 DEF solveIntent, conclude
  <2> QED
    BY <2>2, <2>3, <2>4
<1> QED
  BY <1>4, <1>5 DEF variants

\* What the user says now goes before what was said: a match takes a token from
\* the conversation only for an item that fits no token the match leaves of the
\* sentence (solveItem and collect of NCIntentSolverEngine go through the
\* sentence's tokens first).
THEOREM SentenceBeforeHistoryHolds == Spec => []SentenceBeforeHistory
<1>1. Types /\ ReadsOthers => SentenceBeforeHistory
  <2> SUFFICES ASSUME Types, ReadsOthers, NEW r \in Req, Reading(r), NEW a \in Found(r),
                      NEW t \in ToSet(a.match.toks),
                      NEW s \in ToSet(Seen(r, a.v)) \ ToSet(a.match.toks), t.req # r
               PROVE  \E p \in Places(a.match.intent) :
                         /\ Accepts(ItemAt(a.match.intent, p), t)
                         /\ ~Accepts(ItemAt(a.match.intent, p), s)
    BY DEF SentenceBeforeHistory
  <2> DEFINE intent == a.match.intent
             sen == Seen(r, a.v)
             conv == History(r, a.v, intent)
             toks == ToSet(a.match.toks)
  <2>1. /\ intent \in Intent /\ a.match = solveIntent(intent, sen, conv)
        /\ sen \in Seq(Token) /\ conv \in Seq(Token) /\ \A x \in ToSet(sen) : x.req = r
    BY FoundFacts
  <2>2. IntentOK(intent)
    BY <2>1, DialogueAssumption DEF DialogueAssumption
  <2> HIDE DEF intent, sen, conv
  <2>3. Prefers(toks, sen, ItemsOf(intent))
    BY <2>1, <2>2, TermsPrefer
  <2>4. t \in toks \ ToSet(sen) /\ s \in ToSet(sen) \ toks
    BY <2>1 DEF sen
  <2> HIDE DEF toks
  <2>5. PICK item \in ItemsOf(intent) : Accepts(item, t) /\ ~Accepts(item, s)
    BY <2>3, <2>4 DEF Prefers
  <2> QED
    BY <2>5 DEF ItemsOf, intent
<1> QED
  BY <1>1, TypesAlways, ReadsOthersAlways, PTL

\* Every demand in X has enough in P, all that must be taken is, and so is some
\* number up to L.
Serves(P, X, lo, L, must) ==
    /\ \A p \in X : lo[p] <= Cardinality(P[p])
    /\ \A i \in must : \E p \in X : i \in P[p]
    /\ \E p \in X : P[p] \cap (1 .. L) # {}

\* Some assignment of the numbers up to N to the demands does that.
Assignable(N, X, none, K, lo, hi, L, must) ==
    \E to \in [1 .. N -> X \cup {none}] :
        /\ \A i \in 1 .. N : to[i] # none => i \in K[to[i]]
        /\ \A p \in X : Cardinality({i \in 1 .. N : to[i] = p}) \in lo[p] .. hi[p]
        /\ \A i \in must : to[i] # none
        /\ \E i \in 1 .. L : to[i] # none

\* The first numbers that fit serve as well as any choice of them: what each of
\* some demands takes of its own numbers is enough, holds all that must be
\* taken and some number up to L, exactly when some assignment does.
LEMMA GreedyIsAsGood ==
    ASSUME NEW N \in Nat, NEW L \in 0 .. N, NEW X, NEW none, none \notin X,
           NEW K, NEW P, NEW lo, NEW hi, NEW must, must \subseteq 1 .. L,
           \A p \in X : /\ K[p] \subseteq 1 .. N /\ hi[p] \in Nat \ {0} /\ lo[p] \in 0 .. hi[p]
                        /\ First(P[p], K[p], hi[p]),
           \A p, q \in X : p # q => K[p] \cap K[q] = {},
           \A p \in X : \A i, j \in K[p] \cap (1 .. L) : i \in must => j \in must
    PROVE  Serves(P, X, lo, L, must) <=> Assignable(N, X, none, K, lo, hi, L, must)
<1>0. \A p \in X : /\ P[p] \subseteq K[p] /\ P[p] \subseteq 1 .. N /\ IsFiniteSet(P[p])
                   /\ Cardinality(P[p]) \in Nat /\ Cardinality(P[p]) <= hi[p]
                   /\ P[p] = K[p] \/ Cardinality(P[p]) = hi[p]
                   /\ \A i \in P[p], k \in K[p] : k < i => k \in P[p]
  BY FS_CardinalityType DEF First
<1>l. \A i \in 1 .. L : i \in 1 .. N
  OBVIOUS
<1>1. ASSUME \A p \in X : lo[p] <= Cardinality(P[p]),
             \A i \in must : \E p \in X : i \in P[p],
             \E p \in X : P[p] \cap (1 .. L) # {}
      PROVE  \E to \in [1 .. N -> X \cup {none}] :
                /\ \A i \in 1 .. N : to[i] # none => i \in K[to[i]]
                /\ \A p \in X : Cardinality({i \in 1 .. N : to[i] = p}) \in lo[p] .. hi[p]
                /\ \A i \in must : to[i] # none
                /\ \E i \in 1 .. L : to[i] # none
  <2> DEFINE Taker(i) == IF \E p \in X : i \in P[p] THEN CHOOSE p \in X : i \in P[p] ELSE none
             to == [i \in 1 .. N |-> Taker(i)]
  <2>1. \A i : \A p \in X : i \in P[p] => Taker(i) = p
    <3> TAKE i
    <3> TAKE p \in X
    <3> HAVE i \in P[p]
    <3>1. Taker(i) \in X /\ i \in P[Taker(i)]
      OBVIOUS
    <3> HIDE DEF Taker
    <3>2. i \in K[p] /\ i \in K[Taker(i)]
      BY <1>0, <3>1
    <3> QED
      BY <3>1, <3>2
  <2>2. \A i : Taker(i) = none \/ (Taker(i) \in X /\ i \in P[Taker(i)])
    OBVIOUS
  <2> HIDE DEF Taker
  <2>3. to \in [1 .. N -> X \cup {none}] /\ \A i \in 1 .. N : to[i] = Taker(i)
    BY <2>2
  <2> HIDE DEF to
  <2>4. \A i \in 1 .. N : to[i] # none => i \in K[to[i]]
    BY <1>0, <2>2, <2>3
  <2>5. \A p \in X : {i \in 1 .. N : to[i] = p} = P[p]
    BY <1>0, <2>1, <2>2, <2>3
  <2>6. \A p \in X : Cardinality({i \in 1 .. N : to[i] = p}) \in lo[p] .. hi[p]
    <3> TAKE p \in X
    <3>1. /\ Cardinality(P[p]) \in Nat /\ Cardinality(P[p]) <= hi[p] /\ lo[p] <= Cardinality(P[p])
          /\ hi[p] \in Nat /\ lo[p] \in Nat
      BY <1>0, <1>1
    <3>2. Cardinality({i \in 1 .. N : to[i] = p}) = Cardinality(P[p])
      BY <2>5
    <3> QED
      BY <3>1, <3>2
  <2>7. \A i \in 1 .. N : (\E p \in X : i \in P[p]) => to[i] # none
    BY <2>1, <2>3
  <2>8. \A i \in must : to[i] # none
    BY <1>1, <1>l, <2>7
  <2>9. \E i \in 1 .. L : to[i] # none
    BY <1>1, <1>l, <2>7
  <2> QED
    BY <2>3, <2>4, <2>6, <2>8, <2>9
<1>2. ASSUME NEW to \in [1 .. N -> X \cup {none}],
             \A i \in 1 .. N : to[i] # none => i \in K[to[i]],
             \A p \in X : Cardinality({i \in 1 .. N : to[i] = p}) \in lo[p] .. hi[p],
             \A i \in must : to[i] # none,
             \E i \in 1 .. L : to[i] # none
      PROVE  /\ \A p \in X : lo[p] <= Cardinality(P[p])
             /\ \A i \in must : \E p \in X : i \in P[p]
             /\ \E p \in X : P[p] \cap (1 .. L) # {}
  <2> DEFINE Q(p) == {i \in 1 .. N : to[i] = p}
  <2>1. IsFiniteSet(1 .. N)
    BY FS_Interval
  <2>2. \A p \in X : Q(p) \subseteq K[p] /\ IsFiniteSet(Q(p)) /\ IsFiniteSet(K[p])
    BY <1>2, <2>1, FS_Subset
  <2>3. \A p \in X : Cardinality(Q(p)) \in lo[p] .. hi[p] /\ Cardinality(Q(p)) \in Nat
    BY <1>2, <2>2, FS_CardinalityType
  <2>q. \A p \in X : \A i \in 1 .. N : to[i] = p => i \in Q(p)
    OBVIOUS
  <2> HIDE DEF Q
  <2>4. ASSUME NEW p \in X PROVE lo[p] <= Cardinality(P[p])
    <3>1. CASE P[p] = K[p]
      <4>1. Cardinality(Q(p)) <= Cardinality(K[p]) /\ Cardinality(K[p]) \in Nat
        BY <2>2, FS_Subset, FS_CardinalityType
      <4> QED
        BY <2>3, <3>1, <4>1
    <3>2. CASE Cardinality(P[p]) = hi[p]
      BY <3>2
    <3> QED
      BY <1>0, <3>1, <3>2
  <2>5. ASSUME NEW i \in must PROVE \E p \in X : i \in P[p]
    <3>1. i \in 1 .. L /\ i \in 1 .. N /\ to[i] # none /\ to[i] \in X /\ i \in K[to[i]]
      BY <1>2, <1>l
    <3>2. PICK p \in X : p = to[i]
      BY <3>1
    <3> SUFFICES ASSUME i \notin P[p] PROVE FALSE
      BY <3>2
    <3>3. \A j \in P[p] : j \in K[p] /\ j \in 1 .. L
      <4> TAKE j \in P[p]
      <4>1. j \in K[p] /\ j \in 1 .. N /\ ~(i < j) /\ i # j
        BY <1>0, <3>1, <3>2
      <4> QED
        BY <3>1, <4>1
    <3>4. \A j \in P[p] : j \in Q(p)
      <4> TAKE j \in P[p]
      <4>1. j \in must
        BY <3>1, <3>2, <3>3
      <4>2. j \in 1 .. N /\ to[j] # none /\ to[j] \in X /\ j \in K[to[j]] /\ j \in K[p]
        BY <1>2, <1>l, <3>3, <4>1
      <4>3. to[j] = p
        BY <4>2
      <4> QED
        BY <2>q, <4>2, <4>3
    <3>5. i \in Q(p) /\ P[p] # K[p]
      BY <2>q, <3>1, <3>2
    <3>6. Cardinality(P[p] \cup {i}) = hi[p] + 1
      <4>1. IsFiniteSet(P[p]) /\ Cardinality(P[p]) = hi[p]
        BY <1>0, <3>2, <3>5
      <4>2. Cardinality(P[p] \cup {i}) = Cardinality(P[p]) + 1
        BY <4>1, FS_AddElement
      <4> QED
        BY <4>1, <4>2
    <3>7. Cardinality(P[p] \cup {i}) <= Cardinality(Q(p))
      <4>1. P[p] \cup {i} \subseteq Q(p)
        BY <3>4, <3>5
      <4> QED
        BY <2>2, <4>1, FS_Subset
    <3> QED
      BY <2>3, <3>6, <3>7
  <2>6. \E p \in X : P[p] \cap (1 .. L) # {}
    <3>1. PICK i \in 1 .. L : to[i] # none
      BY <1>2
    <3>2. i \in 1 .. N /\ to[i] \in X /\ i \in K[to[i]]
      BY <1>2, <1>l, <3>1
    <3>3. PICK p \in X : p = to[i]
      BY <3>2
    <3>4. CASE P[p] = K[p]
      BY <3>2, <3>3, <3>4
    <3>5. CASE Cardinality(P[p]) = hi[p]
      <4>1. P[p] # {}
        BY <3>5, FS_EmptySet
      <4>2. PICK j \in P[p] : TRUE
        BY <4>1
      <4>3. j \in 1 .. N
        BY <1>0
      <4>4. CASE i < j
        <5>1. i \in P[p]
          BY <1>0, <3>2, <3>3, <4>2, <4>4
        <5> QED
          BY <5>1
      <4>5. CASE ~(i < j)
        <5>1. j \in 1 .. L
          BY <4>3, <4>5
        <5> QED
          BY <4>2, <5>1
      <4> QED
        BY <4>4, <4>5
    <3> QED
      BY <1>0, <3>4, <3>5
  <2> QED
    BY <2>4, <2>5, <2>6
<1> QED
  BY <1>1, <1>2 DEF Serves, Assignable

\* What an item takes when nothing is taken.
Alone(item, sen, conv) == collect(item, sen, conv, {})

\* An item none of whose tokens is taken takes what it would take alone.
LEMMA CollectAlone ==
    ASSUME NEW sen, NEW conv, NEW used, NEW item, \A t \in used : ~Accepts(item, t)
    PROVE  collect(item, sen, conv, used) = Alone(item, sen, conv)
<1> DEFINE toks == sen \o conv
           fit(u) == {i \in DOMAIN toks : toks[i] \notin u /\ Accepts(item, toks[i])}
<1>1. fit(used) = fit({})
  OBVIOUS
<1>2. \A u : collect(item, sen, conv, u) = FirstOnes(Keep(toks, fit(u)), item.max)
  BY DEF collect
<1> HIDE DEF toks, fit
<1> QED
  BY <1>1, <1>2 DEF Alone

\* From where in sentence and conversation it takes that.
AloneTakes(P, item, sen, conv) ==
    /\ First(P, Fits(item, sen \o conv, {}), item.max)
    /\ ToSet(Alone(item, sen, conv)) = {(sen \o conv)[i] : i \in P}
    /\ Len(Alone(item, sen, conv)) = Cardinality(P)

LEMMA AloneFacts ==
    ASSUME NEW A, NEW sen \in Seq(A), NEW conv \in Seq(A), NEW item, ItemOK(item)
    PROVE  /\ Alone(item, sen, conv) \in Seq(A)
           /\ \A t \in ToSet(Alone(item, sen, conv)) : Accepts(item, t)
           /\ \E P : AloneTakes(P, item, sen, conv)
<1>1. PICK P : /\ First(P, Fits(item, sen \o conv, {}), item.max)
               /\ ToSet(collect(item, sen, conv, {})) = {(sen \o conv)[i] : i \in P}
               /\ Len(collect(item, sen, conv, {})) = Cardinality(P)
  BY CollectTakes
<1>2. \A i \in P : Accepts(item, (sen \o conv)[i])
  BY <1>1 DEF First, Fits
<1>3. AloneTakes(P, item, sen, conv)
  BY <1>1 DEF AloneTakes, Alone
<1> QED
  BY <1>1, <1>2, <1>3, CollectFacts DEF Alone

\* A term whose items do not compete.
LEMMA TermFinds ==
    ASSUME NEW A, NEW sen \in Seq(A), NEW conv \in Seq(A), NEW used, used \subseteq A,
           NEW B, NEW term \in Seq(B), \A item \in B : ItemOK(item),
           \A j, k \in 1 .. Len(term) :
               j # k => DOMAIN term[j].accepts \cap DOMAIN term[k].accepts = {},
           \A k \in 1 .. Len(term) : \A t \in used : ~Accepts(term[k], t)
    PROVE  LET m == solveTerm(term, sen, conv, used)
           IN  /\ m.ok \in BOOLEAN
               /\ m.ok <=> \A k \in 1 .. Len(term) : Enough(term[k], Alone(term[k], sen, conv))
               /\ m.ok => m.used = used \cup
                     UNION {ToSet(Alone(term[k], sen, conv)) : k \in 1 .. Len(term)}
<1> DEFINE N == Len(term)
           C(k) == Alone(term[k], sen, conv)
           Good(m, n) == /\ PartOf(m, A) /\ m.ok \in BOOLEAN
                         /\ m.ok <=> \A k \in 1 .. n : Enough(term[k], C(k))
                         /\ m.ok => m.used = used \cup UNION {ToSet(C(k)) : k \in 1 .. n}
<1>n. N \in Nat /\ \A i \in 1 .. N : term[i] \in B /\ ItemOK(term[i])
  BY LenProperties, ElementOfSeq
<1>c. \A k \in 1 .. N : C(k) \in Seq(A) /\ \A t \in ToSet(C(k)) : Accepts(term[k], t)
  BY <1>n, AloneFacts
<1>a. \A j, k \in 1 .. N : j # k => DOMAIN term[j].accepts \cap DOMAIN term[k].accepts = {}
  OBVIOUS
<1>u. \A k \in 1 .. N : \A t \in used : ~Accepts(term[k], t)
  OBVIOUS
<1>0. PICK f : TermRun(f, term, sen, conv, used)
  BY <1>n, TermSteps
<1>1. /\ solveTerm(term, sen, conv, used) = f[N]
      /\ f[0] = Nothing(used)
      /\ \A n \in 1 .. N : f[n] = solveItem(term[n], sen, conv, f[n - 1])
  BY <1>0 DEF TermRun
<1> HIDE DEF N, C
<1> DEFINE S == {k \in Nat : k <= N => Good(f[k], k)}
<1>2. 0 \in S
  <2>1. PartOf(Nothing(used), A)
    BY EmptySeq DEF PartOf, Nothing
  <2>2. Nothing(used).ok = TRUE /\ Nothing(used).used = used
    BY DEF Nothing
  <2>3. 1 .. 0 = {}
    OBVIOUS
  <2>4. UNION {ToSet(C(k)) : k \in {}} = {}
    OBVIOUS
  <2>5. Good(Nothing(used), 0)
    BY <2>1, <2>2, <2>3, <2>4
  <2> HIDE DEF Good
  <2> QED
    BY <1>1, <2>5
<1>3. ASSUME NEW n \in Nat, n \in S PROVE n + 1 \in S
  <2> SUFFICES ASSUME n + 1 <= N PROVE Good(f[n + 1], n + 1)
    OBVIOUS
  <2>1. Good(f[n], n) /\ n + 1 \in 1 .. N /\ (n + 1) - 1 = n
    <3>1. n <= N /\ n + 1 \in 1 .. N /\ (n + 1) - 1 = n
      BY <1>n
    <3> HIDE DEF Good
    <3> QED
      BY <1>3, <3>1
  <2> DEFINE m == f[n]
             item == term[n + 1]
             toks == collect(item, sen, conv, m.used)
             new == solveItem(item, sen, conv, m)
  <2>2. f[n + 1] = new /\ ItemOK(item) /\ C(n + 1) = Alone(item, sen, conv)
    BY <2>1, <1>1, <1>n DEF C
  <2>i. \A k : k \in 1 .. n + 1 <=> k \in 1 .. n \/ k = n + 1
    OBVIOUS
  <2>j. \A k \in 1 .. n : k \in 1 .. N /\ k # n + 1
    BY <2>1, <1>n
  <2>k. \A k \in 1 .. n : \A t \in ToSet(C(k)) : ~Accepts(item, t)
    BY <1>c, <1>a, <2>1, <2>j DEF Accepts
  <2>l. \A t \in used : ~Accepts(item, t)
    BY <1>u, <2>1
  <2>m. /\ PartOf(m, A) /\ m.ok \in BOOLEAN
        /\ m.ok <=> \A k \in 1 .. n : Enough(term[k], C(k))
        /\ m.ok => m.used = used \cup UNION {ToSet(C(k)) : k \in 1 .. n}
    BY <2>1
  <2>s. term[n + 1] = item
    OBVIOUS
  <2> HIDE DEF m, item
  <2>3. PartOf(new, A)
    BY <2>2, <2>m, SolveItemFacts
  <2>4. Extends(new, m, item, toks)
    BY <2>m, SolveItemTakes
  <2>5. m.ok => toks = C(n + 1)
    <3> HAVE m.ok
    <3>1. \A t \in m.used : ~Accepts(item, t)
      BY <2>m, <2>k, <2>l
    <3> QED
      BY <2>2, <3>1, CollectAlone
  <2> HIDE DEF new, toks
  <2>6. CASE m.ok /\ Enough(item, toks)
    <3>1. new.ok = m.ok /\ new.used = m.used \cup ToSet(toks)
      BY <2>4, <2>6 DEF Extends
    <3>2. new.ok = TRUE
      BY <2>6, <2>m, <3>1
    <3>3. \A k \in 1 .. n + 1 : Enough(term[k], C(k))
      <4>1. Enough(term[n + 1], C(n + 1))
        BY <2>5, <2>6, <2>s
      <4> QED
        BY <2>6, <2>i, <2>m, <4>1
    <3>4. new.used = used \cup UNION {ToSet(C(k)) : k \in 1 .. n + 1}
      BY <2>5, <2>6, <2>i, <2>m, <3>1
    <3> QED
      BY <2>2, <2>3, <3>2, <3>3, <3>4
  <2>7. CASE ~(m.ok /\ Enough(item, toks))
    <3>1. new.ok = FALSE
      BY <2>4, <2>7 DEF Extends
    <3>2. ~ \A k \in 1 .. n + 1 : Enough(term[k], C(k))
      <4>1. CASE ~m.ok
        BY <2>i, <2>m, <4>1
      <4>2. CASE m.ok
        <5>1. ~Enough(term[n + 1], C(n + 1))
          BY <2>5, <2>7, <2>s, <4>2
        <5> QED
          BY <2>i, <5>1
      <4> QED
        BY <4>1, <4>2
    <3> QED
      BY <2>2, <2>3, <3>1, <3>2
  <2> QED
    BY <2>6, <2>7
<1>4. Nat \subseteq S
  BY <1>2, <1>3, Induction
<1> QED
  BY <1>1, <1>4, <1>n DEF N, C

\* addTerm of an intent whose terms may come in any order.
LEMMA AddTermFinds ==
    ASSUME NEW A, NEW m, MatchOf(m, A), NEW intent, ~intent.ordered, NEW term, NEW sen, NEW conv
    PROVE  LET n == addTerm(intent, term, sen, conv, m)
               tm == solveTerm(term, sen, conv, m.used)
           IN  \/ m.status # "ok" /\ n = m
               \/ m.status = "ok" /\ ~tm.ok /\ n.status = "none"
               \/ m.status = "ok" /\ tm.ok /\ n.status = "ok" /\ n.used = tm.used
<1> DEFINE n == addTerm(intent, term, sen, conv, m)
           tm == solveTerm(term, sen, conv, m.used)
<1>1. \/ m.status # "ok" /\ n = m
      \/ m.status = "ok" /\ ~tm.ok /\ n = [m EXCEPT !.status = "none"]
      \/ m.status = "ok" /\ tm.ok
         /\ n = [m EXCEPT !.groups = Append(@, tm.toks), !.used = tm.used,
                          !.spec = @ + tm.spec, !.weight = @ + tm.weight]
  BY DEF addTerm
<1> HIDE DEF n, tm
<1>2. \/ m.status # "ok" /\ n = m
      \/ m.status = "ok" /\ ~tm.ok /\ n.status = "none"
      \/ m.status = "ok" /\ tm.ok /\ n.status = "ok" /\ n.used = tm.used
  BY <1>1 DEF MatchOf
<1> QED
  BY <1>2 DEF n, tm

\* An intent whose items do not compete: each takes what it takes alone.
LEMMA TermsFind ==
    ASSUME NEW A, NEW sen \in Seq(A), NEW conv \in Seq(A), NEW intent, IntentOK(intent),
           Simple(intent)
    PROVE  LET m == solveTerms(intent, sen, conv)
               C(p) == Alone(ItemAt(intent, p), sen, conv)
           IN  /\ m.status = "ok" <=> \A p \in Places(intent) : Enough(ItemAt(intent, p), C(p))
               /\ m.status = "ok" => m.used = UNION {ToSet(C(p)) : p \in Places(intent)}
<1> DEFINE terms == intent.terms
           N == Len(terms)
           X == Places(intent)
           C(p) == Alone(ItemAt(intent, p), sen, conv)
           UpTo(n) == {p \in X : p[1] <= n}
           Good(m, n) == /\ MatchOf(m, A)
                         /\ m.status = "ok" <=> \A p \in UpTo(n) : Enough(ItemAt(intent, p), C(p))
                         /\ m.status = "ok" => m.used = UNION {ToSet(C(p)) : p \in UpTo(n)}
<1>n. /\ N \in Nat /\ DOMAIN terms = 1 .. N
      /\ \A p \in X : p[1] \in 1 .. N /\ p[2] \in DOMAIN terms[p[1]] /\ p = <<p[1], p[2]>>
                      /\ ItemOK(ItemAt(intent, p))
      /\ \A n \in 1 .. N :
            /\ Len(terms[n]) \in Nat /\ DOMAIN terms[n] = 1 .. Len(terms[n])
            /\ terms[n] \in Seq(ToSet(terms[n])) /\ \A item \in ToSet(terms[n]) : ItemOK(item)
            /\ \A k \in 1 .. Len(terms[n]) :
                  <<n, k>> \in X /\ ItemAt(intent, <<n, k>>) = terms[n][k]
  BY PlacesFacts
<1>c. \A p \in X : C(p) \in Seq(A) /\ \A t \in ToSet(C(p)) : Accepts(ItemAt(intent, p), t)
  BY <1>n, AloneFacts
<1>a. /\ ~intent.ordered
      /\ \A p, q \in X : p # q =>
            DOMAIN ItemAt(intent, p).accepts \cap DOMAIN ItemAt(intent, q).accepts = {}
  BY DEF Simple
<1>0. PICK f : TermsRun(f, intent, sen, conv)
  BY <1>n, TermsSteps
<1>1. /\ solveTerms(intent, sen, conv) = f[N]
      /\ f[0] = Empty
      /\ \A n \in 1 .. N : f[n] = addTerm(intent, terms[n], sen, conv, f[n - 1])
  BY <1>0 DEF TermsRun
<1> HIDE DEF N, X, C, terms
<1> DEFINE S == {k \in Nat : k <= N => Good(f[k], k)}
<1>2. 0 \in S
  <2>1. MatchOf(Empty, A) /\ Empty.used = {} /\ Empty.status = "ok"
    BY EmptySeq DEF MatchOf, Empty
  <2>2. UpTo(0) = {}
    BY <1>n
  <2>3. UNION {ToSet(C(p)) : p \in {}} = {}
    OBVIOUS
  <2>4. Good(Empty, 0)
    BY <2>1, <2>2, <2>3
  <2> HIDE DEF Good
  <2> QED
    BY <1>1, <2>4
<1>3. ASSUME NEW n \in Nat, n \in S PROVE n + 1 \in S
  <2> SUFFICES ASSUME n + 1 <= N PROVE Good(f[n + 1], n + 1)
    OBVIOUS
  <2>1. Good(f[n], n) /\ n + 1 \in 1 .. N /\ (n + 1) - 1 = n
    <3>1. n <= N /\ n + 1 \in 1 .. N /\ (n + 1) - 1 = n
      BY <1>n
    <3> HIDE DEF Good
    <3> QED
      BY <1>3, <3>1
  <2> DEFINE m == f[n]
             term == terms[n + 1]
             L == Len(term)
             tm == solveTerm(term, sen, conv, m.used)
             new == addTerm(intent, term, sen, conv, m)
             D(k) == Alone(term[k], sen, conv)
  <2>2. f[n + 1] = new
    BY <2>1, <1>1
  <2>3. /\ term \in Seq(ToSet(term)) /\ \A item \in ToSet(term) : ItemOK(item)
        /\ \A k \in 1 .. L : <<n + 1, k>> \in X /\ ItemAt(intent, <<n + 1, k>>) = term[k]
    BY <2>1, <1>n
  <2>d. \A k \in 1 .. L : D(k) = C(<<n + 1, k>>)
    BY <2>3 DEF C
  <2>4. \A p : p \in UpTo(n + 1) <=> p \in UpTo(n) \/ \E k \in 1 .. L : p = <<n + 1, k>>
    <3>1. ASSUME NEW p \in X, p[1] <= n + 1, ~(p[1] <= n) PROVE \E k \in 1 .. L : p = <<n + 1, k>>
      <4>1. p[1] = n + 1
        BY <1>n, <3>1
      <4> QED
        BY <1>n, <3>1, <4>1, <2>1
    <3>2. \A k \in 1 .. L : <<n + 1, k>> \in X /\ <<n + 1, k>>[1] <= n + 1
      BY <2>3
    <3>3. \A p \in X : p[1] <= n => p[1] <= n + 1
      BY <1>n
    <3> QED
      BY <3>1, <3>2, <3>3
  <2>5. \A p \in UpTo(n) : \A k \in 1 .. L : p # <<n + 1, k>>
    <3> SUFFICES ASSUME NEW k \in 1 .. L, <<n + 1, k>> \in UpTo(n) PROVE FALSE
      OBVIOUS
    <3>1. <<n + 1, k>>[1] <= n
      OBVIOUS
    <3> QED
      BY <3>1
  <2>m. /\ MatchOf(m, A)
        /\ m.status = "ok" <=> \A p \in UpTo(n) : Enough(ItemAt(intent, p), C(p))
        /\ m.status = "ok" => m.used = UNION {ToSet(C(p)) : p \in UpTo(n)}
    BY <2>1
  <2>x. \A p \in UpTo(n) : p \in X
    OBVIOUS
  <2> HIDE DEF m, term, UpTo
  <2>6. MatchOf(new, A)
    BY <2>3, <2>m, AddTermFacts
  <2>7. \/ m.status # "ok" /\ new = m
        \/ m.status = "ok" /\ ~tm.ok /\ new.status = "none"
        \/ m.status = "ok" /\ tm.ok /\ new.status = "ok" /\ new.used = tm.used
    BY <1>a, <2>m, AddTermFinds
  <2>8. m.status = "ok" =>
           /\ tm.ok <=> \A k \in 1 .. L : Enough(term[k], D(k))
           /\ tm.ok => tm.used = m.used \cup UNION {ToSet(D(k)) : k \in 1 .. L}
    <3> HAVE m.status = "ok"
    <3> DEFINE used == m.used
               B == ToSet(term)
    <3>1. used \subseteq A
      BY <2>m DEF MatchOf
    <3>2. \A j, k \in 1 .. Len(term) :
             j # k => DOMAIN term[j].accepts \cap DOMAIN term[k].accepts = {}
      <4> TAKE j, k \in 1 .. L
      <4> HAVE j # k
      <4>1. <<n + 1, j>> # <<n + 1, k>>
        OBVIOUS
      <4> QED
        BY <1>a, <2>3, <4>1
    <3>3. \A k \in 1 .. Len(term) : \A t \in used : ~Accepts(term[k], t)
      <4> SUFFICES ASSUME NEW k \in 1 .. L, NEW t \in used, Accepts(term[k], t) PROVE FALSE
        OBVIOUS
      <4>1. PICK p \in UpTo(n) : t \in ToSet(C(p))
        BY <2>m
      <4>2. Accepts(ItemAt(intent, p), t) /\ p \in X /\ p # <<n + 1, k>>
        BY <1>c, <2>5, <2>x, <4>1
      <4> QED
        BY <1>a, <2>3, <4>2 DEF Accepts
    <3>4. term \in Seq(B) /\ \A item \in B : ItemOK(item)
      BY <2>3
    <3> HIDE DEF used, B
    <3>5. LET x == solveTerm(term, sen, conv, used)
          IN  /\ x.ok \in BOOLEAN
              /\ x.ok <=> \A k \in 1 .. Len(term) : Enough(term[k], Alone(term[k], sen, conv))
              /\ x.ok => x.used = used \cup
                    UNION {ToSet(Alone(term[k], sen, conv)) : k \in 1 .. Len(term)}
      BY <3>1, <3>2, <3>3, <3>4, TermFinds
    <3> QED
      BY <3>5 DEF used
  <2> HIDE DEF tm, new, D
  <2>9. (\A p \in UpTo(n + 1) : Enough(ItemAt(intent, p), C(p))) <=>
           /\ \A p \in UpTo(n) : Enough(ItemAt(intent, p), C(p))
           /\ \A k \in 1 .. L : Enough(term[k], D(k))
    BY <2>3, <2>4, <2>d
  <2>10. UNION {ToSet(C(p)) : p \in UpTo(n + 1)} =
            (UNION {ToSet(C(p)) : p \in UpTo(n)}) \cup UNION {ToSet(D(k)) : k \in 1 .. L}
    BY <2>4, <2>d
  <2>11. /\ new.status = "ok" <=> \A p \in UpTo(n + 1) : Enough(ItemAt(intent, p), C(p))
         /\ new.status = "ok" => new.used = UNION {ToSet(C(p)) : p \in UpTo(n + 1)}
    <3>1. CASE m.status # "ok" /\ new = m
      BY <2>m, <2>9, <3>1
    <3>2. CASE m.status = "ok" /\ ~tm.ok /\ new.status = "none"
      BY <2>8, <2>9, <3>2
    <3>3. CASE m.status = "ok" /\ tm.ok /\ new.status = "ok" /\ new.used = tm.used
      BY <2>m, <2>8, <2>9, <2>10, <3>3
    <3> QED
      BY <2>7, <3>1, <3>2, <3>3
  <2> QED
    BY <2>2, <2>6, <2>11
<1>4. Nat \subseteq S
  BY <1>2, <1>3, Induction
<1>5. Good(f[N], N)
  BY <1>4, <1>n
<1>6. UpTo(N) = X
  BY <1>n
<1> HIDE DEF UpTo
<1> QED
  BY <1>1, <1>5, <1>6 DEF X, C

\* What a variant lets see has each word once.
LEMMA SeenOnce ==
    ASSUME NEW r \in Req, NEW sentence \in Seq(Seq(Element)), NEW v \in DOMAIN Variants(r, sentence)
    PROVE  LET sen == SentenceTokens(Variants(r, sentence)[v])
           IN  \A i, j \in DOMAIN sen : sen[i] = sen[j] => i = j
<1> DEFINE vrn == Variants(r, sentence)[v]
           K == {i \in DOMAIN vrn : ~IsStopWord(vrn[i])}
           sen == SentenceTokens(vrn)
<1>1. vrn \in Seq(Token) /\ \A i \in DOMAIN vrn : vrn[i].idx = i
  BY VariantFacts DEF Variants
<1>2. sen = Keep(vrn, K)
  BY DEF SentenceTokens
<1>3. DOMAIN vrn = 1 .. Len(vrn) /\ Len(vrn) \in Nat
  BY <1>1, LenProperties
<1> HIDE DEF vrn, K, sen
<1>4. sen \in Seq(Token) /\ \E at : Selects(at, sen, vrn, K)
  BY <1>1, <1>2, KeepFacts
<1>5. PICK at : Selects(at, sen, vrn, K)
  BY <1>4
<1>6. DOMAIN sen = 1 .. Len(sen) /\ Len(sen) \in Nat
  BY <1>4, LenProperties
<1>7. /\ \A k \in DOMAIN sen : at[k] \in 1 .. Len(vrn) /\ sen[k].idx = at[k]
      /\ \A j, k \in DOMAIN sen : j < k => at[j] < at[k]
  BY <1>1, <1>3, <1>5 DEF Selects
<1>8. \A i, j \in DOMAIN sen : sen[i] = sen[j] => i = j
  <2> TAKE i, j \in DOMAIN sen
  <2> HAVE sen[i] = sen[j]
  <2>1. at[i] = at[j] /\ at[i] \in Int
    BY <1>7
  <2>2. ~(i < j) /\ ~(j < i)
    BY <1>7, <2>1
  <2> QED
    BY <1>6, <2>2
<1> QED
  BY <1>8 DEF sen, vrn

\* The greedy search of one intent in one variant.
LEMMA GreedyFinds ==
    ASSUME NEW A, NEW sen \in Seq(A), NEW conv \in Seq(A), NEW intent, IntentOK(intent),
           Simple(intent),
           \A i, j \in DOMAIN sen : sen[i] = sen[j] => i = j,
           ToSet(sen) \cap ToSet(conv) = {}
    PROVE  solveIntent(intent, sen, conv).status = "ok" <=> Satisfiable(intent, sen, conv)
<1> DEFINE toks == sen \o conv
           L == Len(sen)
           N == L + Len(conv)
           X == Places(intent)
           It(p) == ItemAt(intent, p)
           C(p) == Alone(It(p), sen, conv)
           K == [p \in X |-> Fits(It(p), toks, {})]
           lo == [p \in X |-> It(p).min]
           hi == [p \in X |-> It(p).max]
           must == {i \in 1 .. L : IsUserDefined(sen[i])}
           m == solveTerms(intent, sen, conv)
<1>1. /\ L \in Nat /\ Len(conv) \in Nat /\ DOMAIN sen = 1 .. L /\ DOMAIN toks = 1 .. N
      /\ \A i \in 1 .. L : toks[i] = sen[i]
      /\ \A i \in DOMAIN toks : i > L => toks[i] \in ToSet(conv)
  BY ConcatFacts
<1>2. \A p \in X : ItemOK(It(p)) /\ p # Nowhere
  BY PlacesFacts
<1>3. \A p \in X : \E Q : AloneTakes(Q, It(p), sen, conv)
  BY <1>2, AloneFacts
<1>t. \A p \in X : \A Q : AloneTakes(Q, It(p), sen, conv) =>
         First(Q, K[p], hi[p]) /\ ToSet(C(p)) = {toks[i] : i \in Q} /\ Len(C(p)) = Cardinality(Q)
  BY DEF AloneTakes
<1>k. \A p \in X : \A i : i \in K[p] <=> i \in 1 .. N /\ Accepts(It(p), toks[i])
  BY <1>1 DEF Fits
<1>h. \A p \in X : hi[p] = It(p).max /\ lo[p] = It(p).min
  OBVIOUS
<1>s. /\ \A p, q \in X : p # q => DOMAIN It(p).accepts \cap DOMAIN It(q).accepts = {}
      /\ \A p \in X : \A e, f \in DOMAIN It(p).accepts : Info[e].user = Info[f].user
  BY DEF Simple
<1>o. \A i, j \in 1 .. L : sen[i] = sen[j] => i = j
  BY <1>1
<1>d. \A i \in 1 .. L : sen[i] \notin ToSet(conv)
  BY <1>1 DEF ToSet
<1>m. /\ m.status = "ok" <=> \A p \in X : Enough(It(p), C(p))
      /\ m.status = "ok" => m.used = UNION {ToSet(C(p)) : p \in X}
  BY TermsFind
<1>f. solveIntent(intent, sen, conv).status = "ok" <=>
         m.status = "ok" /\ LeavesNoUserToken(sen, m.used) /\ m.used \cap ToSet(sen) # {}
  BY DEF solveIntent, conclude
<1>g. Satisfiable(intent, sen, conv) <=>
         \E to \in [1 .. N -> X \cup {Nowhere}] :
            /\ \A i \in 1 .. N : to[i] # Nowhere => Accepts(It(to[i]), toks[i])
            /\ \A p \in X : Cardinality({i \in 1 .. N : to[i] = p}) \in It(p).min .. It(p).max
            /\ \A i \in 1 .. L : IsUserDefined(sen[i]) => to[i] # Nowhere
            /\ \E i \in 1 .. L : to[i] # Nowhere
  BY <1>1 DEF Satisfiable
<1>u. \A t \in ToSet(sen) : \E i \in 1 .. L : t = sen[i]
  BY <1>1 DEF ToSet
<1>v. \A i \in 1 .. L : sen[i] \in ToSet(sen)
  BY <1>1 DEF ToSet
<1>w. \A i : i \in must <=> i \in 1 .. L /\ IsUserDefined(sen[i])
  OBVIOUS
<1>e. \A p \in X : Enough(It(p), C(p)) <=> Len(C(p)) >= lo[p]
  BY <1>h DEF Enough
<1>y. L \in 0 .. N /\ N \in Nat /\ \A i \in 1 .. L : i \in 1 .. N
  BY <1>1
<1> HIDE DEF toks, L, N, X, It, C, K, lo, hi, must, m
<1> DEFINE P == [p \in X |-> CHOOSE Q : AloneTakes(Q, It(p), sen, conv)]
<1>4. \A p \in X : AloneTakes(P[p], It(p), sen, conv)
  BY <1>3
<1> HIDE DEF P
<1>5. \A p \in X : /\ First(P[p], K[p], hi[p])
                   /\ ToSet(C(p)) = {toks[i] : i \in P[p]}
                   /\ Len(C(p)) = Cardinality(P[p])
  BY <1>4, <1>t
<1>6. \A p \in X : /\ K[p] \subseteq 1 .. N /\ hi[p] \in Nat \ {0} /\ lo[p] \in 0 .. hi[p]
                   /\ First(P[p], K[p], hi[p])
  BY <1>2, <1>5, <1>h, <1>k DEF ItemOK
<1>7. \A p, q \in X : p # q => K[p] \cap K[q] = {}
  BY <1>k, <1>s DEF Accepts
<1>8. \A p \in X : \A i, j \in K[p] \cap (1 .. L) : i \in must => j \in must
  <2> TAKE p \in X
  <2> TAKE i, j \in K[p] \cap (1 .. L)
  <2>1. sen[i].el \in DOMAIN It(p).accepts /\ sen[j].el \in DOMAIN It(p).accepts
    BY <1>1, <1>k DEF Accepts
  <2>2. Info[sen[i].el].user = Info[sen[j].el].user
    BY <1>s, <2>1
  <2> QED
    BY <1>w, <2>2 DEF IsUserDefined
<1>9. must \subseteq 1 .. L /\ Nowhere \notin X
  BY <1>2, <1>w
<1>10. Serves(P, X, lo, L, must) <=> Assignable(N, X, Nowhere, K, lo, hi, L, must)
  BY <1>y, <1>6, <1>7, <1>8, <1>9, GreedyIsAsGood
<1>11. Satisfiable(intent, sen, conv) <=> Assignable(N, X, Nowhere, K, lo, hi, L, must)
  <2> DEFINE T == [1 .. N -> X \cup {Nowhere}]
             F(to) == /\ \A i \in 1 .. N : to[i] # Nowhere => i \in K[to[i]]
                      /\ \A p \in X : Cardinality({i \in 1 .. N : to[i] = p}) \in lo[p] .. hi[p]
                      /\ \A i \in must : to[i] # Nowhere
                      /\ \E i \in 1 .. L : to[i] # Nowhere
             G(to) == /\ \A i \in 1 .. N : to[i] # Nowhere => Accepts(It(to[i]), toks[i])
                      /\ \A p \in X : Cardinality({i \in 1 .. N : to[i] = p})
                                         \in It(p).min .. It(p).max
                      /\ \A i \in 1 .. L : IsUserDefined(sen[i]) => to[i] # Nowhere
                      /\ \E i \in 1 .. L : to[i] # Nowhere
  <2>1. ASSUME NEW to \in T PROVE F(to) <=> G(to)
    <3>1. (\A i \in 1 .. N : to[i] # Nowhere => i \in K[to[i]]) <=>
          (\A i \in 1 .. N : to[i] # Nowhere => Accepts(It(to[i]), toks[i]))
      BY <1>k
    <3>2. (\A p \in X : Cardinality({i \in 1 .. N : to[i] = p}) \in lo[p] .. hi[p]) <=>
          (\A p \in X : Cardinality({i \in 1 .. N : to[i] = p}) \in It(p).min .. It(p).max)
      BY <1>h
    <3>3. (\A i \in must : to[i] # Nowhere) <=>
          (\A i \in 1 .. L : IsUserDefined(sen[i]) => to[i] # Nowhere)
      BY <1>w
    <3> QED
      BY <3>1, <3>2, <3>3
  <2>2. Assignable(N, X, Nowhere, K, lo, hi, L, must) <=> \E to \in T : F(to)
    BY DEF Assignable
  <2>3. Satisfiable(intent, sen, conv) <=> \E to \in T : G(to)
    BY <1>g
  <2> HIDE DEF T, F, G
  <2> QED
    BY <2>1, <2>2, <2>3
<1>12. (\A p \in X : lo[p] <= Cardinality(P[p])) <=> m.status = "ok"
  <2>1. \A p \in X : lo[p] <= Cardinality(P[p]) <=> Enough(It(p), C(p))
    <3> TAKE p \in X
    <3>1. Cardinality(P[p]) \in Nat /\ lo[p] \in Int
      BY <1>6, FS_CardinalityType DEF First
    <3> QED
      BY <1>5, <1>e, <3>1
  <2> QED
    BY <1>m, <2>1
<1>13. ASSUME m.status = "ok", NEW i \in 1 .. L
       PROVE  sen[i] \in m.used <=> \E p \in X : i \in P[p]
  <2>1. sen[i] \in m.used <=> \E p \in X : \E j \in P[p] : sen[i] = toks[j]
    BY <1>5, <1>13, <1>m
  <2>2. ASSUME NEW p \in X, NEW j \in P[p], sen[i] = toks[j] PROVE i = j
    <3>1. j \in 1 .. N
      BY <1>6 DEF First
    <3>2. CASE j > L
      BY <1>1, <1>d, <2>2, <3>1, <3>2
    <3>3. CASE ~(j > L)
      <4>1. j \in 1 .. L
        BY <1>y, <3>1, <3>3
      <4> QED
        BY <1>1, <1>o, <2>2, <4>1
    <3> QED
      BY <3>2, <3>3
  <2>3. sen[i] = toks[i]
    BY <1>1
  <2> QED
    BY <2>1, <2>2, <2>3
<1>14. m.status = "ok" =>
          (LeavesNoUserToken(sen, m.used) <=> \A i \in must : \E p \in X : i \in P[p])
  BY <1>13, <1>u, <1>v, <1>w DEF LeavesNoUserToken
<1>15. m.status = "ok" =>
          (m.used \cap ToSet(sen) # {} <=> \E p \in X : P[p] \cap (1 .. L) # {})
  BY <1>13, <1>u, <1>v
<1> QED
  BY <1>10, <1>11, <1>12, <1>14, <1>15, <1>f DEF Serves

\* The greedy search misses nothing: an unordered intent whose items share no
\* element, each for user elements only or for others only, matches a variant
\* exactly when some assignment of the tokens of sentence and conversation
\* satisfies it (NCIntentSolverEngine goes through terms and items
\* once, never back, and takes the first tokens that fit).
THEOREM SearchIsCompleteHolds == Spec => []SearchIsComplete
<1>1. Types /\ ReadsOthers => SearchIsComplete
  <2> SUFFICES ASSUME Types, ReadsOthers, NEW r \in Req, Reading(r), NEW intent \in Intent,
                      Simple(intent), NEW v \in DOMAIN SentenceVariants(r)
               PROVE  solveIntent(intent, Seen(r, v), History(r, v, intent)).status = "ok"
                         <=> Satisfiable(intent, Seen(r, v), History(r, v, intent))
    BY DEF SearchIsComplete
  <2> DEFINE sen == Seen(r, v)
             conv == History(r, v, intent)
  <2>1. /\ sen \in Seq(Token) /\ \A s \in ToSet(sen) : s.req = r
        /\ conv \in Seq(Token) /\ \A t \in ToSet(conv) : t.req # r
    BY FoundFacts
  <2>2. IntentOK(intent)
    BY DialogueAssumption DEF DialogueAssumption
  <2>3. \A i, j \in DOMAIN sen : sen[i] = sen[j] => i = j
    <3> DEFINE sentence == query[r].sentence
    <3>1. sentence \in Seq(Seq(Element)) /\ v \in DOMAIN Variants(r, sentence)
      BY DEF Types, QueryType, SentenceVariants
    <3>2. sen = SentenceTokens(Variants(r, sentence)[v])
      BY DEF Seen, SentenceVariants
    <3> HIDE DEF sentence, sen
    <3> QED
      BY <3>1, <3>2, SeenOnce
  <2> HIDE DEF sen, conv
  <2>4. ToSet(sen) \cap ToSet(conv) = {}
    BY <2>1
  <2>5. solveIntent(intent, sen, conv).status = "ok" <=> Satisfiable(intent, sen, conv)
    BY <2>1, <2>2, <2>3, <2>4, GreedyFinds
  <2> QED
    BY <2>5 DEF sen, conv
<1> QED
  BY <1>1, TypesAlways, ReadsOthersAlways, PTL
==============================================================================
