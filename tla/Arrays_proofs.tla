------------------------------ MODULE Arrays_proofs ------------------------------
(* What Filter and FlattenSeq return for every sequence, and SumFunctionOnSet for     *)
(* every finite set.  All are recursive functions.  Induction is over sets: what is   *)
(* to be shown of every number n is that n is in the set of the numbers it holds of.  *)
EXTENDS Arrays, Functions, WellFoundedInduction, SequenceTheorems, FiniteSetTheorems, TLAPS

\* A set with 0 and the successor of each of its numbers has all of them: the least
\* number that is missing would have a predecessor.
LEMMA NatSetInduction ==
  ASSUME NEW S, 0 \in S, \A n \in Nat : n \in S => n + 1 \in S
  PROVE  \A n \in Nat : n \in S
<1>1. SUFFICES ASSUME \E n \in Nat : n \notin S PROVE FALSE
  OBVIOUS
<1> DEFINE T == {n \in Nat : n \notin S}
<1>2. T \subseteq Nat /\ T # {}
  BY <1>1
<1>3. PICK n \in T : \A m \in T : ~ (<<m, n>> \in OpToRel(<, Nat))
  <2>1. IsWellFoundedOn(OpToRel(<, Nat), Nat)
    BY NatLessThanWellFounded
  <2>2. QED
    BY <1>2, <2>1, WFMin
<1>4. n \in Nat /\ n # 0
  BY <1>2
<1>5. n - 1 \in Nat /\ (n - 1) + 1 = n
  BY <1>4
<1>6. n - 1 \notin S
  BY <1>3, <1>4, <1>5
<1>7. n - 1 \in T /\ <<n - 1, n>> \in OpToRel(<, Nat)
  BY <1>5, <1>6, <1>4 DEF OpToRel
<1>8. QED
  BY <1>3, <1>7

\* A set with the empty sequence and, with a sequence, all that are longer by one has all.
LEMMA SeqSetInduction ==
  ASSUME NEW T, NEW S, <<>> \in S,
         \A s \in Seq(T), x \in T : s \in S => Append(s, x) \in S
  PROVE  \A s \in Seq(T) : s \in S
<1> DEFINE P == {n \in Nat : \A s \in Seq(T) : Len(s) = n => s \in S}
<1>1. 0 \in P
  BY EmptySeq
<1>2. ASSUME NEW n \in Nat, n \in P PROVE n + 1 \in P
  <2>1. SUFFICES ASSUME NEW s \in Seq(T), Len(s) = n + 1 PROVE s \in S
    OBVIOUS
  <2>2. s # <<>>
    BY <2>1
  <2>3. PICK t \in Seq(T), x \in T : s = Append(t, x)
    BY <2>2, SequenceEmptyOrAppend
  <2>4. Len(t) = n
    BY <2>1, <2>3, AppendProperties
  <2>5. t \in S
    BY <2>4, <1>2
  <2>6. QED
    BY <2>3, <2>5
<1>3. \A n \in Nat : n \in P
  <2> HIDE DEF P
  <2>1. QED
    BY <1>1, <1>2, NatSetInduction
<1>4. QED
  BY <1>3, LenProperties

Steps(step, N, A) == \A n \in 1..N, a \in A : step[n][a] \in A

Iterates(f, step, N, A, base) ==
  f \in [0..N -> A] /\ f[0] = base /\ \A n \in 1..N : f[n] = step[n][f[n - 1]]

\* A function can be made from its value at 0 and how each next one is made.
LEMMA Iteration ==
  ASSUME NEW A, NEW N, NEW base, NEW step, N \in Nat, base \in A, Steps(step, N, A)
  PROVE  \E f : Iterates(f, step, N, A, base)
<1> DEFINE Good(k, f) == f[0] = base /\ \A n \in 1..k : f[n] = step[n][f[n - 1]]
           P == {k \in Nat : k <= N => \E f \in [0..k -> A] : Good(k, f)}
<1>1. 0 \in P
  <2>1. [n \in 0..0 |-> base] \in [0..0 -> A] /\ Good(0, [n \in 0..0 |-> base])
    OBVIOUS
  <2>2. QED
    BY <2>1
<1>2. ASSUME NEW k \in Nat, k \in P PROVE k + 1 \in P
  <2>1. SUFFICES ASSUME k + 1 <= N PROVE \E f \in [0..k + 1 -> A] : Good(k + 1, f)
    <3> HIDE DEF Good
    <3>1. QED
      OBVIOUS
  <2>2. PICK f \in [0..k -> A] : Good(k, f)
    BY <1>2, <2>1
  <2> DEFINE g == [n \in 0..k + 1 |-> IF n = k + 1 THEN step[k + 1][f[k]] ELSE f[n]]
  <2>3. f[k] \in A /\ k + 1 \in 1..N
    BY <2>1
  <2>4. step[k + 1][f[k]] \in A
    BY <2>3 DEF Steps
  <2>5. g \in [0..k + 1 -> A]
    BY <2>4
  <2>6. g[0] = base
    BY <2>2
  <2>7. ASSUME NEW n \in 1..k + 1 PROVE g[n] = step[n][g[n - 1]]
    <3>1. CASE n = k + 1
      <4>1. n - 1 = k /\ n - 1 \in 0..k + 1 /\ n - 1 # k + 1
        BY <3>1
      <4>2. g[n - 1] = f[k]
        BY <4>1
      <4>3. g[n] = step[n][f[k]]
        BY <3>1
      <4>4. QED
        BY <4>2, <4>3
    <3>2. CASE n # k + 1
      <4>1. n \in 1..k /\ n - 1 \in 0..k + 1 /\ n - 1 # k + 1
        BY <3>2
      <4>2. g[n] = f[n] /\ g[n - 1] = f[n - 1]
        BY <4>1
      <4>3. QED
        BY <2>2, <4>1, <4>2
    <3>3. QED
      BY <3>1, <3>2
  <2>8. QED
    <3> HIDE DEF g
    <3>1. QED
      BY <2>5, <2>6, <2>7
<1>3. N \in P
  <2>1. \A k \in Nat : k \in P
    <3> HIDE DEF P
    <3>1. QED
      BY <1>1, <1>2, NatSetInduction
  <2>2. QED
    BY <2>1
<1>4. QED
  BY <1>3 DEF Iterates

Filtering(f, seq, kept, T) ==
  /\ f \in [0..Len(seq) -> Seq(T)]
  /\ f[0] = <<>>
  /\ \A n \in 1..Len(seq) :
       f[n] = IF seq[n] \in kept THEN Append(f[n - 1], seq[n]) ELSE f[n - 1]
  /\ Filter(seq, kept) = f[Len(seq)]

\* How Filter goes through a sequence.
LEMMA FilterSteps ==
  ASSUME NEW T, NEW kept, NEW seq, seq \in Seq(T)
  PROVE  \E f : Filtering(f, seq, kept, T)
<1> DEFINE N == Len(seq)
           A == Seq(T)
           step == [n \in 1..N |-> [a \in A |->
                      IF seq[n] \in kept THEN Append(a, seq[n]) ELSE a]]
           Rec(f) == [n \in 0..N |->
                        IF n = 0 THEN <<>>
                        ELSE IF seq[n] \in kept THEN Append(f[n - 1], seq[n])
                        ELSE f[n - 1]]
           upTo == CHOOSE f : f = Rec(f)
<1>1. N \in Nat /\ <<>> \in A
  BY LenProperties
<1>2. Steps(step, N, A)
  <2>1. ASSUME NEW n \in 1..N, NEW a \in A
        PROVE  (IF seq[n] \in kept THEN Append(a, seq[n]) ELSE a) \in A
    <3>1. seq[n] \in T
      BY <2>1, ElementOfSeq
    <3>2. QED
      BY <3>1, AppendProperties
  <2>2. QED
    BY <2>1 DEF Steps
<1>3. PICK g \in [0..N -> A] :
        g[0] = <<>> /\ \A n \in 1..N : g[n] = step[n][g[n - 1]]
  <2> DEFINE base == <<>>
  <2>1. base \in A /\ N \in Nat
    BY <1>1
  <2>2. \E f : Iterates(f, step, N, A, base)
    <3> HIDE DEF step, N, A, base, upTo, Rec
    <3>1. QED
      BY <1>2, <2>1, Iteration
  <2>3. QED
    BY <2>2 DEF Iterates
<1>4. ASSUME NEW n \in 1..N
      PROVE  g[n] = IF seq[n] \in kept THEN Append(g[n - 1], seq[n]) ELSE g[n - 1]
  <2>1. n - 1 \in 0..N /\ g[n - 1] \in A
    BY <1>1, <1>3
  <2>2. step[n][g[n - 1]] = IF seq[n] \in kept THEN Append(g[n - 1], seq[n]) ELSE g[n - 1]
    BY <2>1
  <2>3. QED
    BY <1>3, <2>2
<1>5. g = Rec(g)
  <2>1. \A n \in 0..N : n = 0 \/ n \in 1..N
    BY <1>1
  <2>2. \A n \in 0..N : g[n] = Rec(g)[n]
    BY <2>1, <1>3, <1>4
  <2>3. QED
    BY <2>2
<1>6. upTo = Rec(upTo)
  BY <1>5
<1>7. DOMAIN upTo = 0..N
  BY <1>6
<1>8. \A n \in Nat : n \in 0..N => upTo[n] = g[n]
  <2> DEFINE P == {n \in Nat : n \in 0..N => upTo[n] = g[n]}
  <2>1. 0 \in P
    <3>1. 0 \in 0..N
      BY <1>1
    <3>2. Rec(upTo)[0] = <<>>
      BY <3>1
    <3>3. QED
      BY <1>3, <1>6, <3>2
  <2>2. ASSUME NEW n \in Nat, n \in P PROVE n + 1 \in P
    <3>1. SUFFICES ASSUME n + 1 \in 0..N PROVE upTo[n + 1] = g[n + 1]
      OBVIOUS
    <3>2. n \in 0..N /\ n + 1 \in 1..N /\ (n + 1) - 1 = n /\ n + 1 # 0
      BY <3>1, <1>1
    <3>3. upTo[n] = g[n]
      BY <2>2, <3>2
    <3>4. Rec(upTo)[n + 1] =
            IF seq[n + 1] \in kept THEN Append(upTo[n], seq[n + 1]) ELSE upTo[n]
      BY <3>1, <3>2
    <3>5. g[n + 1] = IF seq[n + 1] \in kept THEN Append(g[n], seq[n + 1]) ELSE g[n]
      BY <3>2, <1>4
    <3>6. QED
      <4> HIDE DEF upTo
      <4>1. QED
        BY <1>6, <3>3, <3>4, <3>5
  <2>3. \A n \in Nat : n \in P
    <3> HIDE DEF P
    <3>1. QED
      BY <2>1, <2>2, NatSetInduction
  <2>4. QED
    BY <2>3
<1>9. upTo[N] = g[N]
  <2>1. N \in 0..N
    BY <1>1
  <2>2. QED
    <3> HIDE DEF upTo
    <3>1. QED
      BY <1>1, <2>1, <1>8
<1>10. Filter(seq, kept) = upTo[N]
  BY DEF Filter
<1>11. QED
  <2> HIDE DEF upTo
  <2>1. QED
    BY <1>3, <1>4, <1>9, <1>10 DEF Filtering

LEMMA FilterType ==
  ASSUME NEW T, NEW kept, NEW seq \in Seq(T)
  PROVE  Filter(seq, kept) \in Seq(T)
<1>1. PICK f : Filtering(f, seq, kept, T)
  BY FilterSteps
<1>2. Len(seq) \in 0..Len(seq)
  BY LenProperties
<1>3. QED
  BY <1>1, <1>2 DEF Filtering

LEMMA FilterEmpty ==
  ASSUME NEW kept
  PROVE  Filter(<<>>, kept) = <<>>
<1>1. <<>> \in Seq({}) /\ Len(<<>>) = 0
  OBVIOUS
<1> DEFINE s == <<  >>
<1>2. PICK f : Filtering(f, s, kept, {})
  <2>1. s \in Seq({})
    BY <1>1
  <2>2. QED
    <3> HIDE DEF s
    <3>1. QED
      BY <2>1, FilterSteps
<1>3. QED
  BY <1>1, <1>2 DEF Filtering

\* One more member is kept or not.
LEMMA FilterAppend ==
  ASSUME NEW T, NEW kept, NEW seq \in Seq(T), NEW x \in T
  PROVE  Filter(Append(seq, x), kept) =
           IF x \in kept THEN Append(Filter(seq, kept), x) ELSE Filter(seq, kept)
<1> DEFINE N == Len(seq)
           more == Append(seq, x)
<1>1. /\ more \in Seq(T) /\ Len(more) = N + 1 /\ N \in Nat /\ more[N + 1] = x
      /\ \A n \in 1..N : more[n] = seq[n]
  BY AppendProperties, LenProperties
<1>2. PICK f : Filtering(f, seq, kept, T)
  BY FilterSteps
<1>3. PICK g : Filtering(g, more, kept, T)
  <2> HIDE DEF more
  <2>1. QED
    BY <1>1, FilterSteps
<1> HIDE DEF more, N
<1>4. \A n \in Nat : n \in 0..N => g[n] = f[n]
  <2> DEFINE P == {m \in Nat : m \in 0..N => g[m] = f[m]}
  <2>1. 0 \in P
    BY <1>2, <1>3 DEF Filtering
  <2>2. ASSUME NEW n \in Nat, n \in P PROVE n + 1 \in P
    <3>1. SUFFICES ASSUME n + 1 \in 0..N PROVE g[n + 1] = f[n + 1]
      OBVIOUS
    <3>2. n \in 0..N /\ n + 1 \in 1..N /\ n + 1 \in 1..N + 1 /\ (n + 1) - 1 = n
      BY <3>1, <1>1
    <3>3. g[n] = f[n] /\ more[n + 1] = seq[n + 1]
      BY <2>2, <3>2, <1>1
    <3>4. f[n + 1] = IF seq[n + 1] \in kept THEN Append(f[n], seq[n + 1]) ELSE f[n]
      BY <1>2, <3>2 DEF Filtering, N
    <3>5. g[n + 1] = IF more[n + 1] \in kept THEN Append(g[n], more[n + 1]) ELSE g[n]
      BY <1>1, <1>3, <3>2 DEF Filtering
    <3>6. QED
      BY <3>3, <3>4, <3>5
  <2>3. \A n \in Nat : n \in P
    <3> HIDE DEF P
    <3>1. QED
      BY <2>1, <2>2, NatSetInduction
  <2>4. QED
    BY <2>3
<1>5. g[N] = f[N]
  BY <1>1, <1>4
<1>6. g[N + 1] = IF x \in kept THEN Append(g[N], x) ELSE g[N]
  <2>1. N + 1 \in 1..N + 1 /\ (N + 1) - 1 = N
    BY <1>1
  <2>2. g[N + 1] = IF more[N + 1] \in kept THEN Append(g[N], more[N + 1]) ELSE g[N]
    BY <1>1, <1>3, <2>1 DEF Filtering
  <2>3. QED
    BY <1>1, <2>2
<1>7. QED
  BY <1>1, <1>2, <1>3, <1>5, <1>6 DEF more, N, Filtering
--------------------------------------------------------------------------------
(* FlattenSeq.                                                                      *)

Flattening(f, seqs, T) ==
  /\ f \in [0..Len(seqs) -> Seq(T)]
  /\ f[0] = <<>>
  /\ \A n \in 1..Len(seqs) : f[n] = f[n - 1] \o seqs[n]
  /\ FlattenSeq(seqs) = f[Len(seqs)]

\* How FlattenSeq goes through its sequences.
LEMMA FlattenSteps ==
  ASSUME NEW T, NEW seqs, seqs \in Seq(Seq(T))
  PROVE  \E f : Flattening(f, seqs, T)
<1> DEFINE N == Len(seqs)
           A == Seq(T)
           step == [n \in 1..N |-> [a \in A |-> a \o seqs[n]]]
           Rec(f) == [i \in 1..N |-> IF i = 1 THEN seqs[i] ELSE f[i - 1] \o seqs[i]]
           flatten == CHOOSE f : f = Rec(f)
<1>1. N \in Nat /\ \A n \in 1..N : seqs[n] \in A
  BY LenProperties, ElementOfSeq
<1>2. Steps(step, N, A)
  <2>1. ASSUME NEW n \in 1..N, NEW a \in A PROVE a \o seqs[n] \in A
    BY <1>1, ConcatProperties
  <2>2. QED
    BY <2>1 DEF Steps
<1>3. PICK g \in [0..N -> A] :
        g[0] = <<>> /\ \A n \in 1..N : g[n] = step[n][g[n - 1]]
  <2> DEFINE base == << >>
  <2>1. base \in A /\ N \in Nat
    BY <1>1, EmptySeq
  <2>2. \E f : Iterates(f, step, N, A, base)
    <3> HIDE DEF step, N, A, base, flatten, Rec
    <3>1. QED
      BY <1>2, <2>1, Iteration
  <2>3. QED
    BY <2>2 DEF Iterates
<1>4. ASSUME NEW n \in 1..N PROVE g[n] = g[n - 1] \o seqs[n]
  <2>1. n - 1 \in 0..N /\ g[n - 1] \in A
    <3> HIDE DEF N, A, step
    <3>1. n - 1 \in 0..N
      BY <1>1
    <3>2. QED
      BY <1>3, <3>1
  <2>2. step[n][g[n - 1]] = g[n - 1] \o seqs[n]
    BY <2>1
  <2>3. QED
    BY <1>3, <2>2
<1>5. 1 \in 1..N => g[1] = g[0] \o seqs[1] /\ seqs[1] \in Seq(T) /\ g[0] = <<>>
  <2>1. 1 - 1 = 0
    OBVIOUS
  <2>2. 1 \in 1..N => g[1] = g[1 - 1] \o seqs[1]
    <3> HIDE DEF N, A, step, flatten, Rec
    <3>1. QED
      BY <1>4
  <2>3. QED
    BY <1>1, <1>3, <2>1, <2>2
<1>6. CASE N = 0
  <2>1. seqs = <<>>
    BY <1>6, EmptySeq
  <2>2. FlattenSeq(seqs) = seqs
    BY <1>6 DEF FlattenSeq
  <2>3. QED
    <3> HIDE DEF flatten, Rec, step
    <3>1. QED
      BY <1>1, <1>3, <1>4, <1>6, <2>1, <2>2 DEF Flattening
<1>7. CASE N # 0
  <2> DEFINE h == [n \in 1..N |-> g[n]]
  <2>1. h = Rec(h)
    <3>1. ASSUME NEW i \in 1..N
          PROVE  h[i] = IF i = 1 THEN seqs[i] ELSE h[i - 1] \o seqs[i]
      <4>1. CASE i = 1
        <5>1. g[1] = g[0] \o seqs[1] /\ seqs[1] \in Seq(T) /\ g[0] = <<>>
          BY <1>5, <4>1
        <5>2. g[1] = seqs[1]
          BY <5>1, ConcatEmptySeq
        <5>3. QED
          BY <4>1, <5>2
      <4>2. CASE i # 1
        <5>1. i - 1 \in 1..N
          BY <1>1, <4>2
        <5>2. h[i - 1] = g[i - 1] /\ h[i] = g[i]
          BY <5>1
        <5>3. QED
          BY <1>4, <4>2, <5>2
      <4>3. QED
        BY <4>1, <4>2
    <3>2. QED
      <4> HIDE DEF step, flatten, h
      <4>1. \A i \in 1..N : h[i] = Rec(h)[i]
        BY <3>1
      <4>2. QED
        BY <4>1
  <2>2. flatten = Rec(flatten)
    <3> HIDE DEF h
    <3>1. QED
      BY <2>1
  <2>3. \A n \in Nat : n \in 1..N => flatten[n] = g[n]
    <3> DEFINE P == {n \in Nat : n \in 1..N => flatten[n] = g[n]}
    <3>1. 0 \in P
      OBVIOUS
    <3>2. ASSUME NEW n \in Nat, n \in P PROVE n + 1 \in P
      <4>1. SUFFICES ASSUME n + 1 \in 1..N PROVE flatten[n + 1] = g[n + 1]
        OBVIOUS
      <4>2. flatten[n + 1] = Rec(flatten)[n + 1]
        <5> HIDE DEF flatten, Rec
        <5>1. QED
          BY <2>2
      <4>3. CASE n = 0
        <5>1. g[1] = g[0] \o seqs[1] /\ seqs[1] \in Seq(T) /\ g[0] = <<>>
          <6> HIDE DEF N
          <6>1. 1 \in 1..N
            BY <4>1, <4>3
          <6>2. QED
            BY <1>5, <6>1
        <5>2. g[1] = seqs[1]
          BY <5>1, ConcatEmptySeq
        <5>3. Rec(flatten)[1] = seqs[1]
          BY <4>1, <4>3
        <5>4. QED
          <6> HIDE DEF flatten, Rec
          <6>1. QED
            BY <4>2, <4>3, <5>2, <5>3
      <4>4. CASE n # 0
        <5>1. n \in 1..N /\ (n + 1) - 1 = n /\ n + 1 # 1
          BY <1>1, <4>1, <4>4
        <5>2. flatten[n] = g[n]
          BY <3>2, <5>1
        <5>3. Rec(flatten)[n + 1] = flatten[n] \o seqs[n + 1]
          BY <4>1, <5>1
        <5>4. g[n + 1] = g[n] \o seqs[n + 1]
          BY <1>4, <4>1, <5>1
        <5>5. QED
          <6> HIDE DEF flatten, Rec
          <6>1. QED
            BY <4>2, <5>2, <5>3, <5>4
      <4>5. QED
        BY <4>3, <4>4
    <3>3. \A n \in Nat : n \in P
      <4> HIDE DEF P
      <4>1. QED
        BY <3>1, <3>2, NatSetInduction
    <3>4. QED
      BY <3>3
  <2>4. flatten[N] = g[N]
    <3>1. N \in 1..N
      BY <1>1, <1>7
    <3>2. QED
      <4> HIDE DEF flatten
      <4>1. QED
        BY <1>1, <2>3, <3>1
  <2>5. FlattenSeq(seqs) = flatten[N]
    BY <1>7 DEF FlattenSeq
  <2>6. QED
    <3> HIDE DEF flatten, Rec, step, h
    <3>1. QED
      BY <1>3, <1>4, <2>4, <2>5 DEF Flattening
<1>8. QED
  BY <1>6, <1>7

LEMMA FlattenType ==
  ASSUME NEW T, NEW seqs, seqs \in Seq(Seq(T))
  PROVE  FlattenSeq(seqs) \in Seq(T)
<1>1. PICK f : Flattening(f, seqs, T)
  BY FlattenSteps
<1>2. Len(seqs) \in 0..Len(seqs)
  BY LenProperties
<1>3. QED
  BY <1>1, <1>2 DEF Flattening

LEMMA FlattenEmpty == FlattenSeq(<<>>) = <<>>
  BY DEF FlattenSeq

\* What one more sequence adds to the end.
LEMMA FlattenAppend ==
  ASSUME NEW T, NEW seqs, seqs \in Seq(Seq(T)), NEW s, s \in Seq(T)
  PROVE  FlattenSeq(Append(seqs, s)) = FlattenSeq(seqs) \o s
<1> DEFINE N == Len(seqs)
           more == Append(seqs, s)
<1>1. /\ more \in Seq(Seq(T)) /\ Len(more) = N + 1 /\ N \in Nat /\ more[N + 1] = s
      /\ \A n \in 1..N : more[n] = seqs[n]
  BY AppendProperties, LenProperties
<1>2. PICK f : Flattening(f, seqs, T)
  BY FlattenSteps
<1>3. PICK g : Flattening(g, more, T)
  <2> HIDE DEF more
  <2>1. QED
    BY <1>1, FlattenSteps
<1> HIDE DEF more, N
<1>4. \A n \in Nat : n \in 0..N => g[n] = f[n]
  <2> DEFINE P == {m \in Nat : m \in 0..N => g[m] = f[m]}
  <2>1. 0 \in P
    BY <1>2, <1>3 DEF Flattening
  <2>2. ASSUME NEW n \in Nat, n \in P PROVE n + 1 \in P
    <3>1. SUFFICES ASSUME n + 1 \in 0..N PROVE g[n + 1] = f[n + 1]
      OBVIOUS
    <3>2. n \in 0..N /\ n + 1 \in 1..N /\ n + 1 \in 1..N + 1 /\ (n + 1) - 1 = n
      BY <3>1, <1>1
    <3>3. g[n] = f[n] /\ more[n + 1] = seqs[n + 1]
      BY <2>2, <3>2, <1>1
    <3>4. f[n + 1] = f[n] \o seqs[n + 1]
      BY <1>2, <3>2 DEF Flattening, N
    <3>5. g[n + 1] = g[n] \o more[n + 1]
      BY <1>1, <1>3, <3>2 DEF Flattening
    <3>6. QED
      BY <3>3, <3>4, <3>5
  <2>3. \A n \in Nat : n \in P
    <3> HIDE DEF P
    <3>1. QED
      BY <2>1, <2>2, NatSetInduction
  <2>4. QED
    BY <2>3
<1>5. g[N] = f[N]
  BY <1>1, <1>4
<1>6. g[N + 1] = g[N] \o s
  <2>1. N + 1 \in 1..N + 1 /\ (N + 1) - 1 = N
    BY <1>1
  <2>2. QED
    BY <1>1, <1>3, <2>1 DEF Flattening
<1>7. QED
  BY <1>1, <1>2, <1>3, <1>5, <1>6 DEF more, N, Flattening
--------------------------------------------------------------------------------
(* What is in a sequence, and what is left of it.                                   *)

LEMMA ToSetAppend ==
  ASSUME NEW T, NEW s, s \in Seq(T), NEW x, x \in T
  PROVE  ToSet(Append(s, x)) = ToSet(s) \cup {x}
<1>1. /\ Append(s, x) \in Seq(T) /\ Len(Append(s, x)) = Len(s) + 1 /\ Len(s) \in Nat
      /\ Append(s, x)[Len(s) + 1] = x /\ \A i \in 1..Len(s) : Append(s, x)[i] = s[i]
  BY AppendProperties, LenProperties
<1>2. DOMAIN s = 1..Len(s) /\ DOMAIN Append(s, x) = 1..Len(s) + 1
  BY <1>1, LenProperties
<1>3. 1..Len(s) + 1 = (1..Len(s)) \cup {Len(s) + 1}
  BY <1>1
<1> DEFINE t == Append(s, x)
           n == Len(s)
<1>4. {t[i] : i \in 1..n + 1} = {t[i] : i \in 1..n} \cup {t[n + 1]}
  <2> HIDE DEF t
  <2>1. QED
    BY <1>3
<1>5. {t[i] : i \in 1..n} = {s[i] : i \in 1..n}
  BY <1>1
<1>6. QED
  BY <1>1, <1>2, <1>4, <1>5 DEF ToSet

LEMMA ToSetEmpty == ToSet(<<>>) = {}
  BY DEF ToSet

LEMMA ToSetType ==
  ASSUME NEW T, NEW s, s \in Seq(T)
  PROVE  ToSet(s) \subseteq T
  BY LenProperties, ElementOfSeq DEF ToSet

LEMMA ToSetConcat ==
  ASSUME NEW T, NEW s, s \in Seq(T), NEW t, t \in Seq(T)
  PROVE  ToSet(s \o t) = ToSet(s) \cup ToSet(t)
<1> DEFINE u == s \o t
           m == Len(s)
           n == Len(t)
<1>1. /\ Len(u) = m + n /\ m \in Nat /\ n \in Nat /\ u \in Seq(T)
      /\ \A i \in 1..m + n : u[i] = IF i <= m THEN s[i] ELSE t[i - m]
  BY ConcatProperties, LenProperties
<1>2. DOMAIN s = 1..m /\ DOMAIN t = 1..n /\ DOMAIN u = 1..m + n
  BY <1>1, LenProperties
<1> HIDE DEF u, m, n
<1>3. ASSUME NEW i \in 1..m + n PROVE u[i] \in {s[j] : j \in 1..m} \cup {t[j] : j \in 1..n}
  <2>1. CASE i <= m
    <3>1. i \in 1..m /\ u[i] = s[i]
      BY <1>1, <2>1
    <3>2. QED
      BY <3>1
  <2>2. CASE ~ (i <= m)
    <3>1. i - m \in 1..n /\ u[i] = t[i - m]
      BY <1>1, <2>2
    <3>2. QED
      BY <3>1
  <2>3. QED
    BY <2>1, <2>2
<1>4. ASSUME NEW i \in 1..m PROVE s[i] \in {u[j] : j \in 1..m + n}
  <2>1. i \in 1..m + n /\ u[i] = s[i]
    BY <1>1
  <2>2. QED
    BY <2>1
<1>5. ASSUME NEW i \in 1..n PROVE t[i] \in {u[j] : j \in 1..m + n}
  <2>1. m + i \in 1..m + n /\ ~ (m + i <= m) /\ (m + i) - m = i
    BY <1>1
  <2>2. u[m + i] = t[i]
    BY <1>1, <2>1
  <2>3. QED
    BY <2>1, <2>2
<1>6. ToSet(u) = ToSet(s) \cup ToSet(t)
  BY <1>2, <1>3, <1>4, <1>5 DEF ToSet
<1>7. QED
  BY <1>6 DEF u

LEMMA FilterRange ==
  ASSUME NEW T, NEW kept
  PROVE  \A s \in Seq(T) : ToSet(Filter(s, kept)) = ToSet(s) \cap kept
<1> DEFINE P == {s \in Seq(T) : ToSet(Filter(s, kept)) = ToSet(s) \cap kept}
<1>1. <<>> \in P
  BY FilterEmpty, ToSetEmpty, EmptySeq
<1>2. ASSUME NEW s \in Seq(T), NEW x \in T, s \in P PROVE Append(s, x) \in P
  <2>1. Append(s, x) \in Seq(T) /\ Filter(s, kept) \in Seq(T)
    BY AppendProperties, FilterType
  <2>2. ToSet(Append(s, x)) = ToSet(s) \cup {x}
    BY ToSetAppend
  <2>3. ToSet(Append(Filter(s, kept), x)) = ToSet(Filter(s, kept)) \cup {x}
    BY <2>1, ToSetAppend
  <2>4. Filter(Append(s, x), kept) =
          IF x \in kept THEN Append(Filter(s, kept), x) ELSE Filter(s, kept)
    BY FilterAppend
  <2>5. QED
    BY <1>2, <2>1, <2>2, <2>3, <2>4
<1>3. \A s \in Seq(T) : s \in P
  <2> HIDE DEF P
  <2>1. QED
    BY <1>1, <1>2, SeqSetInduction
<1>4. QED
  BY <1>3

LEMMA FilterConcat ==
  ASSUME NEW T, NEW kept, NEW s, s \in Seq(T)
  PROVE  \A t \in Seq(T) : Filter(s \o t, kept) = Filter(s, kept) \o Filter(t, kept)
<1> DEFINE P == {t \in Seq(T) : Filter(s \o t, kept) = Filter(s, kept) \o Filter(t, kept)}
<1>1. <<>> \in P
  <2>1. s \o <<>> = s /\ Filter(s, kept) \o <<>> = Filter(s, kept)
    BY ConcatEmptySeq, FilterType
  <2>2. QED
    BY <2>1, FilterEmpty, EmptySeq
<1>2. ASSUME NEW t \in Seq(T), NEW x \in T, t \in P PROVE Append(t, x) \in P
  <2>1. /\ Append(t, x) \in Seq(T) /\ s \o t \in Seq(T)
        /\ Filter(s, kept) \in Seq(T) /\ Filter(t, kept) \in Seq(T)
    BY AppendProperties, FilterType, ConcatProperties
  <2>2. s \o Append(t, x) = Append(s \o t, x)
    BY <2>1
  <2>3. Filter(s, kept) \o Append(Filter(t, kept), x) =
          Append(Filter(s, kept) \o Filter(t, kept), x)
    BY <2>1
  <2>4. Filter(Append(t, x), kept) =
          IF x \in kept THEN Append(Filter(t, kept), x) ELSE Filter(t, kept)
    BY FilterAppend
  <2>5. Filter(Append(s \o t, x), kept) =
          IF x \in kept THEN Append(Filter(s \o t, kept), x) ELSE Filter(s \o t, kept)
    <3> DEFINE u == s \o t
    <3>1. u \in Seq(T)
      BY <2>1
    <3> HIDE DEF u
    <3>2. Filter(Append(u, x), kept) =
            IF x \in kept THEN Append(Filter(u, kept), x) ELSE Filter(u, kept)
      BY <3>1, FilterAppend
    <3>3. QED
      BY <3>2 DEF u
  <2>6. Filter(s \o t, kept) = Filter(s, kept) \o Filter(t, kept)
    BY <1>2
  <2>7. Filter(s \o Append(t, x), kept) = Filter(s, kept) \o Filter(Append(t, x), kept)
    BY <2>2, <2>3, <2>4, <2>5, <2>6
  <2>8. QED
    BY <2>1, <2>7
<1>3. \A t \in Seq(T) : t \in P
  <2> HIDE DEF P
  <2>1. QED
    BY <1>1, <1>2, SeqSetInduction
<1>4. QED
  BY <1>3
\* What is kept depends on which members of the sequence are.
LEMMA FilterSame ==
  ASSUME NEW T, NEW kept, NEW other
  PROVE  \A s \in Seq(T) : ToSet(s) \cap kept = ToSet(s) \cap other
                           => Filter(s, kept) = Filter(s, other)
<1> DEFINE Same(s) == ToSet(s) \cap kept = ToSet(s) \cap other
           P == {s \in Seq(T) : Same(s) => Filter(s, kept) = Filter(s, other)}
<1>1. <<>> \in P
  BY FilterEmpty, EmptySeq
<1>2. ASSUME NEW s \in Seq(T), NEW x \in T, s \in P PROVE Append(s, x) \in P
  <2>1. Append(s, x) \in Seq(T) /\ ToSet(Append(s, x)) = ToSet(s) \cup {x}
    BY AppendProperties, ToSetAppend
  <2>2. ASSUME Same(Append(s, x)) PROVE Filter(Append(s, x), kept) = Filter(Append(s, x), other)
    <3>1. Same(s) /\ (x \in kept <=> x \in other)
      BY <2>1, <2>2
    <3>2. Filter(s, kept) = Filter(s, other)
      BY <1>2, <3>1
    <3>3. Filter(Append(s, x), kept) =
            IF x \in kept THEN Append(Filter(s, kept), x) ELSE Filter(s, kept)
      BY FilterAppend
    <3>4. Filter(Append(s, x), other) =
            IF x \in other THEN Append(Filter(s, other), x) ELSE Filter(s, other)
      BY FilterAppend
    <3>5. QED
      BY <3>1, <3>2, <3>3, <3>4
  <2>3. QED
    <3> HIDE DEF Same
    <3>1. QED
      BY <2>1, <2>2
<1>3. \A s \in Seq(T) : s \in P
  <2> HIDE DEF P
  <2>1. QED
    BY <1>1, <1>2, SeqSetInduction
<1>4. QED
  BY <1>3

LEMMA FilterAll ==
  ASSUME NEW T, NEW kept
  PROVE  \A s \in Seq(T) : ToSet(s) \subseteq kept => Filter(s, kept) = s
<1> DEFINE P == {s \in Seq(T) : ToSet(s) \subseteq kept => Filter(s, kept) = s}
<1>1. <<>> \in P
  BY FilterEmpty, EmptySeq
<1>2. ASSUME NEW s \in Seq(T), NEW x \in T, s \in P PROVE Append(s, x) \in P
  <2>1. Append(s, x) \in Seq(T) /\ ToSet(Append(s, x)) = ToSet(s) \cup {x}
    BY AppendProperties, ToSetAppend
  <2>2. Filter(Append(s, x), kept) =
          IF x \in kept THEN Append(Filter(s, kept), x) ELSE Filter(s, kept)
    BY FilterAppend
  <2>3. ToSet(Append(s, x)) \subseteq kept => x \in kept /\ Filter(s, kept) = s
    BY <1>2, <2>1
  <2>4. QED
    BY <2>1, <2>2, <2>3
<1>3. \A s \in Seq(T) : s \in P
  <2> HIDE DEF P
  <2>1. QED
    BY <1>1, <1>2, SeqSetInduction
<1>4. QED
  BY <1>3

LEMMA FilterNone ==
  ASSUME NEW T, NEW kept, NEW s, s \in Seq(T), ToSet(s) \cap kept = {}
  PROVE  Filter(s, kept) = <<>>
<1>1. Filter(s, kept) \in Seq(T) /\ ToSet(Filter(s, kept)) = {}
  BY FilterType, FilterRange
<1> DEFINE f == Filter(s, kept)
<1>2. f \in Seq(T) /\ ToSet(f) = {}
  BY <1>1
<1> HIDE DEF f
<1>3. ASSUME Len(f) # 0 PROVE FALSE
  <2>1. 1 \in DOMAIN f
    BY <1>2, <1>3, LenProperties
  <2>2. f[1] \in ToSet(f)
    BY <2>1 DEF ToSet
  <2>3. QED
    BY <1>2, <2>2
<1>4. f = <<>>
  BY <1>2, <1>3, EmptySeq
<1>5. QED
  BY <1>4 DEF f

\* What is kept comes in the order of the sequence, each member from a place of its own.
Embeds(m, f, s) ==
  /\ m \in [1..Len(f) -> 1..Len(s)]
  /\ \A i \in 1..Len(f) : f[i] = s[m[i]]
  /\ \A i, j \in 1..Len(f) : i < j => m[i] < m[j]

LEMMA FilterOrder ==
  ASSUME NEW T, NEW kept
  PROVE  \A s \in Seq(T) : \E m : Embeds(m, Filter(s, kept), s)
<1> DEFINE P == {s \in Seq(T) : \E m : Embeds(m, Filter(s, kept), s)}
<1>1. <<>> \in P
  <2>1. Len(<<>>) = 0 /\ <<>> \in Seq(T)
    BY EmptySeq
  <2>2. Embeds(<<>>, <<>>, <<>>)
    BY <2>1 DEF Embeds
  <2>3. QED
    BY <2>1, <2>2, FilterEmpty
<1>2. ASSUME NEW s \in Seq(T), NEW x \in T, s \in P PROVE Append(s, x) \in P
  <2> DEFINE f == Filter(s, kept)
             n == Len(f)
             t == Append(s, x)
             g == Filter(t, kept)
  <2>1. PICK m : Embeds(m, f, s)
    BY <1>2
  <2>2. /\ t \in Seq(T) /\ Len(t) = Len(s) + 1 /\ Len(s) \in Nat
        /\ t[Len(s) + 1] = x /\ \A i \in 1..Len(s) : t[i] = s[i]
    BY AppendProperties, LenProperties
  <2>3. f \in Seq(T) /\ n \in Nat
    BY FilterType, LenProperties
  <2>4. g = IF x \in kept THEN Append(f, x) ELSE f
    BY FilterAppend
  <2> HIDE DEF f, g, t
  <2>5. CASE x \notin kept
    <3> HIDE DEF P
    <3>1. g = f
      BY <2>4, <2>5
    <3>2. Embeds(m, g, t)
      <4>1. \A i \in 1..n : m[i] \in 1..Len(s) /\ m[i] \in 1..Len(s) + 1
        BY <2>1, <2>2 DEF Embeds
      <4>2. m \in [1..n -> 1..Len(s) + 1]
        BY <2>1, <4>1 DEF Embeds
      <4>3. \A i \in 1..n : f[i] = t[m[i]]
        BY <2>1, <2>2, <4>1 DEF Embeds
      <4>4. QED
        BY <2>1, <2>2, <3>1, <4>2, <4>3 DEF Embeds
    <3>3. QED
      BY <2>2, <3>2 DEF g, t, P
  <2>6. CASE x \in kept
    <3>1. /\ g = Append(f, x) /\ Len(g) = n + 1 /\ g[n + 1] = x
          /\ \A i \in 1..n : g[i] = f[i]
      BY <2>3, <2>4, <2>6, AppendProperties
    <3> DEFINE k == [i \in 1..n + 1 |-> IF i = n + 1 THEN Len(s) + 1 ELSE m[i]]
    <3>2. \A i \in 1..n : m[i] \in 1..Len(s) /\ k[i] = m[i] /\ i \in 1..n + 1
      BY <2>1, <2>3 DEF Embeds
    <3>3. k[n + 1] = Len(s) + 1
      BY <2>3
    <3>4. \A i \in 1..n + 1 : i \in 1..n \/ i = n + 1
      BY <2>3
    <3>5. k \in [1..n + 1 -> 1..Len(s) + 1]
      <4>1. ASSUME NEW i \in 1..n + 1 PROVE k[i] \in 1..Len(s) + 1
        <5> HIDE DEF k, P
        <5>1. CASE i \in 1..n
          <6>1. m[i] \in 1..Len(s) /\ k[i] = m[i]
            BY <3>2, <5>1
          <6>2. m[i] \in 1..Len(s) + 1
            BY <2>2, <6>1
          <6>3. QED
            BY <6>1, <6>2
        <5>2. CASE i = n + 1
          BY <2>2, <3>3, <5>2
        <5>3. QED
          BY <3>4, <5>1, <5>2
      <4>2. DOMAIN k = 1..n + 1 /\ k = [i \in 1..n + 1 |-> k[i]]
        OBVIOUS
      <4> HIDE DEF k
      <4>3. QED
        BY <4>1, <4>2
    <3> HIDE DEF k
    <3>6. ASSUME NEW i \in 1..n + 1 PROVE g[i] = t[k[i]]
      <4>1. CASE i \in 1..n
        BY <2>1, <2>2, <3>1, <3>2, <4>1 DEF Embeds
      <4>2. CASE i = n + 1
        BY <2>2, <3>1, <3>3, <4>2
      <4>3. QED
        BY <3>4, <4>1, <4>2
    <3>7. ASSUME NEW i \in 1..n + 1, NEW j \in 1..n + 1, i < j PROVE k[i] < k[j]
      <4>1. i \in 1..n
        BY <2>3, <3>7
      <4>2. CASE j \in 1..n
        BY <2>1, <3>2, <3>7, <4>1, <4>2 DEF Embeds
      <4>3. CASE j = n + 1
        BY <2>2, <3>2, <3>3, <4>1, <4>3
      <4>4. QED
        BY <3>4, <4>2, <4>3
    <3>8. Embeds(k, g, t)
      BY <2>2, <3>1, <3>5, <3>6, <3>7 DEF Embeds
    <3>9. QED
      BY <2>2, <3>8 DEF g, t
  <2>7. QED
    BY <2>5, <2>6
<1>3. \A s \in Seq(T) : s \in P
  <2> HIDE DEF P
  <2>1. QED
    BY <1>1, <1>2, SeqSetInduction
<1>4. QED
  BY <1>3

LEMMA FilterInjective ==
  ASSUME NEW T, NEW kept, NEW s, s \in Seq(T), IsInjective(s)
  PROVE  IsInjective(Filter(s, kept))
<1> DEFINE f == Filter(s, kept)
<1>1. f \in Seq(T)
  BY FilterType
<1>2. PICK m : Embeds(m, f, s)
  BY FilterOrder
<1> HIDE DEF f
<1>3. DOMAIN f = 1..Len(f) /\ Len(f) \in Nat /\ DOMAIN s = 1..Len(s) /\ Len(s) \in Nat
  BY <1>1, LenProperties
<1>4. ASSUME NEW i \in 1..Len(f), NEW j \in 1..Len(f), f[i] = f[j] PROVE i = j
  <2>1. s[m[i]] = s[m[j]] /\ m[i] \in 1..Len(s) /\ m[j] \in 1..Len(s)
    BY <1>2, <1>4 DEF Embeds
  <2>2. m[i] = m[j]
    BY <1>3, <2>1 DEF IsInjective
  <2>3. ~ (i < j) /\ ~ (j < i)
    BY <1>2, <2>1, <2>2 DEF Embeds
  <2>4. QED
    BY <1>3, <2>3
<1>5. QED
  BY <1>3, <1>4 DEF IsInjective, f
LEMMA FlattenRange ==
  ASSUME NEW T
  PROVE  \A ss \in Seq(Seq(T)) :
           ToSet(FlattenSeq(ss)) = UNION {ToSet(ss[i]) : i \in DOMAIN ss}
<1> DEFINE All(ss) == UNION {ToSet(ss[i]) : i \in DOMAIN ss}
           P == {ss \in Seq(Seq(T)) : ToSet(FlattenSeq(ss)) = All(ss)}
<1>1. <<>> \in P
  <2>1. <<>> \in Seq(Seq(T)) /\ DOMAIN <<>> = {}
    OBVIOUS
  <2>2. QED
    BY <2>1, FlattenEmpty, ToSetEmpty
<1>2. ASSUME NEW ss \in Seq(Seq(T)), NEW s \in Seq(T), ss \in P PROVE Append(ss, s) \in P
  <2>1. /\ Append(ss, s) \in Seq(Seq(T)) /\ Len(ss) \in Nat
        /\ DOMAIN ss = 1..Len(ss) /\ DOMAIN Append(ss, s) = 1..Len(ss) + 1
        /\ Append(ss, s)[Len(ss) + 1] = s /\ \A i \in 1..Len(ss) : Append(ss, s)[i] = ss[i]
    BY AppendProperties, LenProperties
  <2>2. All(Append(ss, s)) = All(ss) \cup ToSet(s)
    <3> DEFINE n == Len(ss)
               t == Append(ss, s)
    <3>1. 1..n + 1 = (1..n) \cup {n + 1}
      BY <2>1
    <3>2. \A x : x \in All(t) <=> \E i \in 1..n + 1 : x \in ToSet(t[i])
      BY <2>1
    <3>3. \A x : x \in All(ss) <=> \E i \in 1..n : x \in ToSet(ss[i])
      BY <2>1
    <3> HIDE DEF All, P
    <3>4. \A x : (\E i \in 1..n + 1 : x \in ToSet(t[i]))
                 <=> (\E i \in 1..n : x \in ToSet(t[i])) \/ x \in ToSet(t[n + 1])
      BY <3>1
    <3>5. \A x : (\E i \in 1..n : x \in ToSet(t[i])) <=> (\E i \in 1..n : x \in ToSet(ss[i]))
      BY <2>1
    <3>6. QED
      BY <2>1, <3>2, <3>3, <3>4, <3>5
  <2>3. FlattenSeq(ss) \in Seq(T) /\ FlattenSeq(Append(ss, s)) = FlattenSeq(ss) \o s
    BY FlattenType, FlattenAppend
  <2>4. ToSet(FlattenSeq(ss) \o s) = ToSet(FlattenSeq(ss)) \cup ToSet(s)
    BY <2>3, ToSetConcat
  <2>5. QED
    <3> HIDE DEF All
    <3>1. QED
      BY <1>2, <2>1, <2>2, <2>3, <2>4
<1>3. \A ss \in Seq(Seq(T)) : ss \in P
  <2> HIDE DEF P
  <2>1. QED
    BY <1>1, <1>2, SeqSetInduction
<1>4. QED
  BY <1>3

--------------------------------------------------------------------------------
(* SumFunctionOnSet, of the library, takes the elements of a set one after the      *)
(* other, in an order that is not told.                                             *)

First(s) == CHOOSE x \in s : TRUE

\* What is true of {}, and of a set when it is true of the set without any one element of
\* it, is true of every part of a finite set.
LEMMA SubsetInduction ==
  ASSUME NEW S, IsFiniteSet(S), NEW P, {} \in P,
         \A s \in SUBSET S : s # {} /\ (\A x \in s : s \ {x} \in P) => s \in P
  PROVE  \A s \in SUBSET S : s \in P
<1> DEFINE Q == {n \in Nat : \A s \in SUBSET S : Cardinality(s) = n => s \in P}
<1>1. \A s \in SUBSET S : IsFiniteSet(s) /\ Cardinality(s) \in Nat
  BY FS_Subset, FS_CardinalityType
<1>2. 0 \in Q
  BY <1>1, FS_EmptySet
<1>3. ASSUME NEW n \in Nat, n \in Q PROVE n + 1 \in Q
  <2>1. SUFFICES ASSUME NEW s \in SUBSET S, Cardinality(s) = n + 1 PROVE s \in P
    OBVIOUS
  <2>2. s # {}
    BY <2>1, FS_EmptySet
  <2>3. ASSUME NEW x \in s PROVE s \ {x} \in P
    <3>1. Cardinality(s \ {x}) = n
      BY <1>1, <2>1, FS_RemoveElement
    <3>2. QED
      BY <1>3, <3>1
  <2>4. QED
    BY <2>2, <2>3
<1>4. \A n \in Nat : n \in Q
  <2> HIDE DEF Q
  <2>1. QED
    BY <1>2, <1>3, NatSetInduction
<1>5. QED
  BY <1>1, <1>4

\* One more round of the recursion that sums up, for all parts of a set.
Round(f, S, g) ==
  [s \in SUBSET S |-> IF s = {} THEN 0 ELSE f[First(s)] + g[s \ {First(s)}]]

LEMMA RoundType ==
  ASSUME NEW S, NEW f, \A x \in S : f[x] \in Int, NEW g \in [SUBSET S -> Int]
  PROVE  Round(f, S, g) \in [SUBSET S -> Int]
<1>1. ASSUME NEW s \in SUBSET S, s # {}
      PROVE  f[First(s)] + g[s \ {First(s)}] \in Int
  <2>1. First(s) \in s
    BY <1>1 DEF First
  <2>2. s \ {First(s)} \in SUBSET S
    OBVIOUS
  <2>3. QED
    BY <2>1, <2>2
<1>2. QED
  BY <1>1 DEF Round

\* There is a function that a round does not change: after as many rounds as S has elements
\* the sums of all of its parts are right.
LEMMA SumExists ==
  ASSUME NEW S, IsFiniteSet(S), NEW f, \A x \in S : f[x] \in Int
  PROVE  \E g \in [SUBSET S -> Int] : g = Round(f, S, g)
<1> DEFINE A == [SUBSET S -> Int]
           N == Cardinality(S) + 1
           base == [s \in SUBSET S |-> 0]
           step == [n \in 1..N |-> [a \in A |-> Round(f, S, a)]]
<1>1. /\ Cardinality(S) \in Nat /\ N \in Nat
      /\ \A s \in SUBSET S : Cardinality(s) \in 0..Cardinality(S)
  BY FS_Subset, FS_CardinalityType
<1>2. base \in A
  OBVIOUS
<1>3. \A n \in 1..N, a \in A : step[n][a] = Round(f, S, a)
  OBVIOUS
<1>4. Steps(step, N, A)
  <2>1. ASSUME NEW n \in 1..N, NEW a \in A PROVE step[n][a] \in A
    <3>1. Round(f, S, a) \in A
      BY RoundType
    <3>2. QED
      BY <1>3, <3>1
  <2> HIDE DEF step, A, N
  <2>2. QED
    BY <2>1 DEF Steps
<1>5. PICK g : Iterates(g, step, N, A, base)
  <2> HIDE DEF step, N, A, base
  <2>1. QED
    BY <1>1, <1>2, <1>4, Iteration
<1> HIDE DEF step, base, N
<1>6. g \in [0..N -> A] /\ g[0] = base /\ \A n \in 1..N : g[n] = Round(f, S, g[n - 1])
  <2>1. ASSUME NEW n \in 1..N PROVE g[n] = Round(f, S, g[n - 1])
    <3>1. n - 1 \in 0..N
      BY <1>1
    <3>2. g[n - 1] \in A
      BY <1>5, <3>1 DEF Iterates
    <3>3. QED
      BY <1>3, <1>5, <3>2 DEF Iterates
  <2>2. QED
    BY <1>5, <2>1 DEF Iterates
<1> DEFINE Same(k) == \A s \in SUBSET S : Cardinality(s) <= k => g[k + 1][s] = g[k][s]
           P == {k \in Nat : k < N => Same(k)}
<1>7. 0 \in P
  <2>1. SUFFICES ASSUME NEW s \in SUBSET S, Cardinality(s) <= 0 PROVE g[0 + 1][s] = g[0][s]
    OBVIOUS
  <2>2. s = {}
    <3>1. Cardinality(s) = 0
      BY <1>1, <2>1
    <3>2. QED
      BY <3>1, FS_EmptySet, FS_Subset
  <2>3. 1 \in 1..N
    BY <1>1 DEF N
  <2>4. g[1] = Round(f, S, g[0])
    BY <1>6, <2>3
  <2>5. g[1][s] = 0
    BY <2>2, <2>4 DEF Round
  <2>6. g[0][s] = 0
    BY <1>6 DEF base
  <2>7. QED
    BY <2>5, <2>6
<1>8. ASSUME NEW k \in Nat, k \in P PROVE k + 1 \in P
  <2>1. SUFFICES ASSUME k + 1 < N, NEW s \in SUBSET S, Cardinality(s) <= k + 1
                 PROVE g[(k + 1) + 1][s] = g[k + 1][s]
    OBVIOUS
  <2>2. k + 1 \in 1..N /\ (k + 1) + 1 \in 1..N /\ ((k + 1) + 1) - 1 = k + 1 /\ (k + 1) - 1 = k
    BY <1>1, <2>1
  <2>3. g[(k + 1) + 1] = Round(f, S, g[k + 1]) /\ g[k + 1] = Round(f, S, g[k])
    BY <1>6, <2>2
  <2>4. CASE s = {}
    BY <2>3, <2>4 DEF Round
  <2>5. CASE s # {}
    <3>1. First(s) \in s
      BY <2>5 DEF First
    <3>2. Cardinality(s \ {First(s)}) = Cardinality(s) - 1
      BY <3>1, FS_RemoveElement, FS_Subset
    <3>3. Cardinality(s \ {First(s)}) <= k
      BY <1>1, <2>1, <3>2
    <3>4. k < N
      BY <1>1, <2>1
    <3>5. g[k + 1][s \ {First(s)}] = g[k][s \ {First(s)}]
      BY <1>8, <3>3, <3>4
    <3>6. QED
      BY <2>3, <2>5, <3>5 DEF Round
  <2>6. QED
    BY <2>4, <2>5
<1>9. Same(Cardinality(S))
  <2>1. \A k \in Nat : k \in P
    <3> HIDE DEF P
    <3>1. QED
      BY <1>7, <1>8, NatSetInduction
  <2>2. QED
    BY <1>1, <2>1 DEF N
<1>10. g[N] = Round(f, S, g[Cardinality(S)]) /\ g[Cardinality(S)] \in A
  <2>1. N \in 1..N /\ N - 1 = Cardinality(S) /\ Cardinality(S) \in 0..N
    BY <1>1 DEF N
  <2>2. QED
    BY <1>6, <2>1
<1>11. g[N] = g[Cardinality(S)]
  <2>1. \A s \in SUBSET S : g[N][s] = g[Cardinality(S)][s]
    BY <1>1, <1>9 DEF N
  <2>2. g[N] \in A
    <3> HIDE DEF A
    <3>1. N \in 0..N
      BY <1>1
    <3>2. QED
      BY <1>6, <3>1
  <2>3. QED
    BY <1>10, <2>1, <2>2
<1>12. QED
  BY <1>10, <1>11

\* Two of them agree on what they both sum up.
LEMMA SumUnique ==
  ASSUME NEW S, IsFiniteSet(S), NEW f, NEW T \in SUBSET S, NEW g, NEW h,
         g = Round(f, S, g), h = Round(f, T, h)
  PROVE  h[T] = g[T]
<1> DEFINE P == {s \in SUBSET T : h[s] = g[s]}
<1>1. IsFiniteSet(T)
  BY FS_Subset
<1>2. \A s \in SUBSET T :
        /\ h[s] = IF s = {} THEN 0 ELSE f[First(s)] + h[s \ {First(s)}]
        /\ g[s] = IF s = {} THEN 0 ELSE f[First(s)] + g[s \ {First(s)}]
  <2>1. ASSUME NEW s \in SUBSET S
        PROVE  g[s] = IF s = {} THEN 0 ELSE f[First(s)] + g[s \ {First(s)}]
    <3>1. Round(f, S, g)[s] = IF s = {} THEN 0 ELSE f[First(s)] + g[s \ {First(s)}]
      BY DEF Round
    <3>2. QED
      BY <3>1
  <2>2. ASSUME NEW s \in SUBSET T
        PROVE  h[s] = IF s = {} THEN 0 ELSE f[First(s)] + h[s \ {First(s)}]
    <3>1. Round(f, T, h)[s] = IF s = {} THEN 0 ELSE f[First(s)] + h[s \ {First(s)}]
      BY DEF Round
    <3>2. QED
      BY <3>1
  <2>3. \A s \in SUBSET T : s \in SUBSET S
    OBVIOUS
  <2>4. QED
    BY <2>1, <2>2, <2>3
<1>3. {} \in P
  BY <1>2
<1>4. ASSUME NEW s \in SUBSET T, s # {}, \A x \in s : s \ {x} \in P PROVE s \in P
  <2>1. First(s) \in s
    BY <1>4 DEF First
  <2>2. h[s \ {First(s)}] = g[s \ {First(s)}]
    BY <1>4, <2>1
  <2>3. QED
    BY <1>2, <1>4, <2>2
<1>5. \A s \in SUBSET T : s \in P
  <2> HIDE DEF P
  <2>1. QED
    BY <1>1, <1>3, <1>4, SubsetInduction
<1>6. QED
  BY <1>5

\* The function that SumFunctionOnSet defines.
LEMMA SumRound ==
  ASSUME NEW S, IsFiniteSet(S), NEW f, \A x \in S : f[x] \in Int
  PROVE  \E g : g = Round(f, S, g) /\ SumFunctionOnSet(f, S) = g[S]
<1> DEFINE Rec(g) == [s \in SUBSET S |->
                        IF s = {} THEN 0
                        ELSE f[CHOOSE x \in s : TRUE] + g[s \ {CHOOSE x \in s : TRUE}]]
           sum == CHOOSE g : g = Rec(g)
<1>1. SumFunctionOnSet(f, S) = sum[S]
  BY DEF SumFunctionOnSet, FoldFunctionOnSet, MapThenFoldSet
<1>2. ASSUME NEW g PROVE Round(f, S, g) = Rec(g)
  BY DEF Round, First
<1>3. \E g : g = Rec(g)
  <2>1. PICK g \in [SUBSET S -> Int] : g = Round(f, S, g)
    BY SumExists
  <2>2. g = Rec(g)
    <3> HIDE DEF Rec
    <3>1. QED
      BY <1>2, <2>1
  <2>3. QED
    BY <2>2
<1>4. sum = Rec(sum)
  <2> HIDE DEF Rec
  <2>1. QED
    BY <1>3
<1>5. sum = Round(f, S, sum)
  <2> HIDE DEF Rec, sum
  <2>1. QED
    BY <1>2, <1>4
<1>6. QED
  <2> HIDE DEF sum
  <2>1. QED
    BY <1>1, <1>5

\* The sum of a set is one of its elements and the sum of the others.
LEMMA SumFirst ==
  ASSUME NEW S, IsFiniteSet(S), NEW f, \A x \in S : f[x] \in Int
  PROVE  SumFunctionOnSet(f, S) =
           IF S = {} THEN 0 ELSE f[First(S)] + SumFunctionOnSet(f, S \ {First(S)})
<1>1. PICK g : g = Round(f, S, g) /\ SumFunctionOnSet(f, S) = g[S]
  BY SumRound
<1>2. g[S] = IF S = {} THEN 0 ELSE f[First(S)] + g[S \ {First(S)}]
  <2>1. Round(f, S, g)[S] = IF S = {} THEN 0 ELSE f[First(S)] + g[S \ {First(S)}]
    BY DEF Round
  <2>2. QED
    BY <1>1, <2>1
<1> DEFINE T == S \ {First(S)}
<1>3. T \in SUBSET S /\ IsFiniteSet(T) /\ \A x \in T : f[x] \in Int
  BY FS_Subset
<1>4. PICK h : h = Round(f, T, h) /\ SumFunctionOnSet(f, T) = h[T]
  <2> HIDE DEF T
  <2>1. QED
    BY <1>3, SumRound
<1>5. h[T] = g[T]
  <2> HIDE DEF T
  <2>1. QED
    BY <1>1, <1>3, <1>4, SumUnique
<1>6. QED
  BY <1>1, <1>2, <1>4, <1>5

LEMMA SumType ==
  ASSUME NEW S, IsFiniteSet(S), NEW f, \A x \in S : f[x] \in Int
  PROVE  \A s \in SUBSET S : SumFunctionOnSet(f, s) \in Int
<1> DEFINE P == {s \in SUBSET S : SumFunctionOnSet(f, s) \in Int}
<1>1. \A s \in SUBSET S : IsFiniteSet(s) /\ \A x \in s : f[x] \in Int
  BY FS_Subset
<1>2. {} \in P
  <2>1. SumFunctionOnSet(f, {}) = 0
    BY <1>1, SumFirst
  <2>2. QED
    BY <2>1
<1>3. ASSUME NEW s \in SUBSET S, s # {}, \A x \in s : s \ {x} \in P PROVE s \in P
  <2>1. First(s) \in s
    BY <1>3 DEF First
  <2>2. SumFunctionOnSet(f, s \ {First(s)}) \in Int /\ f[First(s)] \in Int
    BY <1>1, <1>3, <2>1
  <2>3. SumFunctionOnSet(f, s) = f[First(s)] + SumFunctionOnSet(f, s \ {First(s)})
    BY <1>1, <1>3, SumFirst
  <2>4. SumFunctionOnSet(f, s) \in Int
    BY <2>2, <2>3
  <2>5. QED
    BY <2>4
<1>4. \A s \in SUBSET S : s \in P
  <2> HIDE DEF P
  <2>1. QED
    BY <1>2, <1>3, SubsetInduction
<1>5. QED
  BY <1>4

\* Any element may be taken first.
LEMMA SumTaken ==
  ASSUME NEW S, IsFiniteSet(S), NEW f, \A x \in S : f[x] \in Int
  PROVE  \A s \in SUBSET S : \A x \in s :
           SumFunctionOnSet(f, s) = f[x] + SumFunctionOnSet(f, s \ {x})
<1> DEFINE Total(s) == SumFunctionOnSet(f, s)
           P == {s \in SUBSET S : \A x \in s : Total(s) = f[x] + Total(s \ {x})}
<1>1. \A s \in SUBSET S : /\ IsFiniteSet(s) /\ \A x \in s : f[x] \in Int
                          /\ Total(s) \in Int
  BY FS_Subset, SumType
<1>2. \A s \in SUBSET S : s # {} => Total(s) = f[First(s)] + Total(s \ {First(s)})
  BY <1>1, SumFirst
<1> HIDE DEF Total
<1>3. {} \in P
  OBVIOUS
<1>4. ASSUME NEW s \in SUBSET S, s # {}, \A x \in s : s \ {x} \in P PROVE s \in P
  <2>1. SUFFICES ASSUME NEW x \in s PROVE Total(s) = f[x] + Total(s \ {x})
    OBVIOUS
  <2> DEFINE c == First(s)
  <2>2. c \in s
    BY <1>4 DEF First
  <2>3. Total(s) = f[c] + Total(s \ {c})
    BY <1>2, <1>4
  <2> HIDE DEF c
  <2>4. CASE x = c
    BY <2>3, <2>4
  <2>5. CASE x # c
    <3>1. Total(s \ {c}) = f[x] + Total((s \ {c}) \ {x})
      BY <1>4, <2>2, <2>5
    <3>2. Total(s \ {x}) = f[c] + Total((s \ {x}) \ {c})
      BY <1>4, <2>2, <2>5
    <3>3. (s \ {c}) \ {x} = (s \ {x}) \ {c}
      OBVIOUS
    <3>4. f[x] \in Int /\ f[c] \in Int /\ Total((s \ {x}) \ {c}) \in Int
      BY <1>1, <2>2
    <3>5. ASSUME NEW i \in Int, NEW j \in Int, NEW k \in Int PROVE i + (j + k) = j + (i + k)
      OBVIOUS
    <3>6. f[c] + (f[x] + Total((s \ {x}) \ {c})) = f[x] + (f[c] + Total((s \ {x}) \ {c}))
      BY <3>4, <3>5
    <3>7. QED
      BY <2>3, <3>1, <3>2, <3>3, <3>6, Zenon
  <2>6. QED
    BY <2>4, <2>5
<1>5. \A s \in SUBSET S : s \in P
  <2> HIDE DEF P
  <2>1. QED
    BY <1>3, <1>4, SubsetInduction
<1>6. QED
  BY <1>5 DEF Total

\* What is summed up is what is in the set.
LEMMA SumSame ==
  ASSUME NEW S, IsFiniteSet(S), NEW f, NEW g, \A x \in S : f[x] \in Int /\ f[x] = g[x]
  PROVE  SumFunctionOnSet(f, S) = SumFunctionOnSet(g, S)
<1> DEFINE P == {s \in SUBSET S : SumFunctionOnSet(f, s) = SumFunctionOnSet(g, s)}
<1>1. ASSUME NEW s \in SUBSET S
      PROVE  /\ IsFiniteSet(s) /\ \A x \in s : f[x] \in Int
             /\ \A x \in s : g[x] \in Int
  BY FS_Subset
<1>2. ASSUME NEW s \in SUBSET S
      PROVE  /\ SumFunctionOnSet(f, s) =
                  IF s = {} THEN 0 ELSE f[First(s)] + SumFunctionOnSet(f, s \ {First(s)})
             /\ SumFunctionOnSet(g, s) =
                  IF s = {} THEN 0 ELSE g[First(s)] + SumFunctionOnSet(g, s \ {First(s)})
  BY <1>1, SumFirst
<1>3. {} \in P
  BY <1>2
<1>4. ASSUME NEW s \in SUBSET S, s # {}, \A x \in s : s \ {x} \in P PROVE s \in P
  <2>1. First(s) \in s
    BY <1>4 DEF First
  <2>2. SumFunctionOnSet(f, s \ {First(s)}) = SumFunctionOnSet(g, s \ {First(s)})
    BY <1>4, <2>1
  <2>3. QED
    BY <1>2, <1>4, <2>1, <2>2
<1>5. \A s \in SUBSET S : s \in P
  <2> HIDE DEF P
  <2>1. QED
    BY <1>3, <1>4, SubsetInduction
<1>6. QED
  BY <1>5

================================================================================
