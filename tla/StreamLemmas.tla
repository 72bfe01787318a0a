---------------------------- MODULE StreamLemmas ----------------------------
(* What spans, beginnings and pieces of streams have to do with each       *)
(* other.                                                                  *)
EXTENDS Streams, SequenceTheorems, TLAPS

LEMMA LesserIs ==
  ASSUME NEW m \in Int, NEW n \in Int
  PROVE  /\ Lesser(m, n) \in Int
         /\ Lesser(m, n) <= m /\ Lesser(m, n) <= n
         /\ Lesser(m, n) \in {m, n}
  BY DEF Lesser

LEMMA SpanIs ==
  ASSUME NEW a \in Int, NEW b \in Int, a <= b
  PROVE  /\ Span(a, b) \in Seq(Int)
         /\ Len(Span(a, b)) = b - a
         /\ \A k \in 1 .. b - a : Span(a, b)[k] = a + k
<1>1. Span(a, b) \in [1 .. b - a -> Int]
  BY DEF Span
<1>2. b - a \in Nat
  OBVIOUS
<1> QED
  BY <1>1, <1>2, IsASeq, LenProperties DEF Span

LEMMA SpanNat ==
  ASSUME NEW a \in Nat, NEW b \in Int, a <= b
  PROVE  Span(a, b) \in Seq(Nat)
<1>1. Span(a, b) \in [1 .. b - a -> Nat]
  BY DEF Span
<1>2. b - a \in Nat
  OBVIOUS
<1> QED
  BY <1>1, <1>2, IsASeq

LEMMA SpanFromStart ==
  ASSUME NEW b \in Nat
  PROVE  /\ Span(0, b) \in Seq(Nat)
         /\ Len(Span(0, b)) = b
         /\ \A k \in 1 .. b : Span(0, b)[k] = k
<1>1. 0 \in Nat /\ 0 \in Int /\ b \in Int /\ 0 <= b /\ b - 0 = b
  OBVIOUS
<1>2. Span(0, b) \in Seq(Nat)
  BY <1>1, SpanNat
<1>3. Len(Span(0, b)) = b - 0 /\ \A k \in 1 .. b - 0 : Span(0, b)[k] = 0 + k
  BY <1>1, SpanIs
<1> QED
  BY <1>1, <1>2, <1>3

LEMMA SpanEmpty ==
  ASSUME NEW a \in Nat
  PROVE  Span(a, a) = << >>
<1>1. Span(a, a) \in Seq(Int) /\ Len(Span(a, a)) = 0
  BY SpanIs
<1> QED
  BY <1>1, EmptySeq

LEMMA SpanJoin ==
  ASSUME NEW a \in Nat, NEW b \in Nat, NEW c \in Nat, a <= b, b <= c
  PROVE  Span(a, b) \o Span(b, c) = Span(a, c)
<1> DEFINE s == Span(a, b)
           t == Span(b, c)
           u == Span(a, c)
<1>1. /\ s \in Seq(Int) /\ Len(s) = b - a /\ \A k \in 1 .. b - a : s[k] = a + k
      /\ t \in Seq(Int) /\ Len(t) = c - b /\ \A k \in 1 .. c - b : t[k] = b + k
      /\ u \in Seq(Int) /\ Len(u) = c - a /\ \A k \in 1 .. c - a : u[k] = a + k
  <2>1. s \in Seq(Int) /\ Len(s) = b - a /\ \A k \in 1 .. b - a : s[k] = a + k
    BY SpanIs
  <2>2. t \in Seq(Int) /\ Len(t) = c - b /\ \A k \in 1 .. c - b : t[k] = b + k
    BY SpanIs
  <2>3. u \in Seq(Int) /\ Len(u) = c - a /\ \A k \in 1 .. c - a : u[k] = a + k
    <3>1. a <= c
      OBVIOUS
    <3> QED
      BY <3>1, SpanIs
  <2> QED
    BY <2>1, <2>2, <2>3
<1> HIDE DEF s, t, u
<1>2. /\ s \o t \in Seq(Int)
      /\ Len(s \o t) = c - a
      /\ \A k \in 1 .. Len(s) + Len(t) :
           (s \o t)[k] = IF k <= Len(s) THEN s[k] ELSE t[k - Len(s)]
  <2>1. /\ s \o t \in Seq(Int)
        /\ Len(s \o t) = Len(s) + Len(t)
        /\ \A k \in 1 .. Len(s) + Len(t) :
             (s \o t)[k] = IF k <= Len(s) THEN s[k] ELSE t[k - Len(s)]
    BY <1>1, ConcatProperties
  <2>2. Len(s) + Len(t) = c - a
    BY <1>1
  <2> QED
    BY <2>1, <2>2
<1>3. \A k \in 1 .. c - a : (s \o t)[k] = u[k]
  <2> TAKE k \in 1 .. c - a
  <2>0. (s \o t)[k] = IF k <= b - a THEN s[k] ELSE t[k - (b - a)]
    <3>1. Len(s) + Len(t) = c - a /\ Len(s) = b - a
      BY <1>1
    <3> QED
      BY <1>2, <3>1
  <2>1. CASE k <= b - a
    BY <1>1, <2>0, <2>1
  <2>2. CASE k > b - a
    <3>1. k - (b - a) \in 1 .. c - b
      BY <2>2
    <3>2. t[k - (b - a)] = b + (k - (b - a))
      BY <1>1, <3>1
    <3>3. u[k] = a + k
      BY <1>1
    <3> QED
      BY <2>0, <2>2, <3>2, <3>3
  <2>3. k <= b - a \/ k > b - a
    OBVIOUS
  <2> QED
    BY <2>1, <2>2, <2>3
<1>4. s \o t = u
  BY <1>1, <1>2, <1>3, SeqEqual
<1> QED
  BY <1>4 DEF s, t, u

LEMMA PieceIs ==
  ASSUME NEW S, NEW s \in Seq(S), NEW m \in 1 .. Len(s) + 1, NEW n \in m - 1 .. Len(s)
  PROVE  /\ SubSeq(s, m, n) \in Seq(S)
         /\ Len(SubSeq(s, m, n)) = n - m + 1
         /\ \A k \in 1 .. n - m + 1 : SubSeq(s, m, n)[k] = s[m + k - 1]
<1>1. \A k \in m .. n : s[k] \in S
  BY ElementOfSeq
<1> QED
  BY <1>1, SubSeqProperties

(* A stream is its first n bytes and its rest. *)
LEMMA Split ==
  ASSUME NEW S, NEW s \in Seq(S), NEW n \in 0 .. Len(s)
  PROVE  /\ SubSeq(s, 1, n) \in Seq(S) /\ Len(SubSeq(s, 1, n)) = n
         /\ SubSeq(s, n + 1, Len(s)) \in Seq(S)
         /\ Len(SubSeq(s, n + 1, Len(s))) = Len(s) - n
         /\ SubSeq(s, 1, n) \o SubSeq(s, n + 1, Len(s)) = s
<1>1. SubSeq(s, 1, n) \o SubSeq(s, n + 1, Len(s)) = SubSeq(s, 1, Len(s))
  <2>1. 1 \in 1 .. Len(s) + 1 /\ n \in 1 - 1 .. Len(s) /\ Len(s) \in n .. Len(s)
    OBVIOUS
  <2> QED
    BY <2>1, ConcatAdjacentSubSeq
<1>2. SubSeq(s, 1, Len(s)) = s
  BY SubSeqFull
<1>3. SubSeq(s, 1, n) \in Seq(S) /\ Len(SubSeq(s, 1, n)) = n
  <2>1. 1 \in 1 .. Len(s) + 1 /\ n \in 1 - 1 .. Len(s)
    OBVIOUS
  <2> QED
    BY <2>1, PieceIs
<1>4. /\ SubSeq(s, n + 1, Len(s)) \in Seq(S)
      /\ Len(SubSeq(s, n + 1, Len(s))) = Len(s) - n
  <2>1. n + 1 \in 1 .. Len(s) + 1 /\ Len(s) \in (n + 1) - 1 .. Len(s)
    OBVIOUS
  <2> QED
    BY <2>1, PieceIs
<1> QED
  BY <1>1, <1>2, <1>3, <1>4

(* Bytes that move from the front of s to the end of w stay in their place. *)
LEMMA MoveOn ==
  ASSUME NEW S, NEW w \in Seq(S), NEW s \in Seq(S), NEW n \in 0 .. Len(s)
  PROVE  (w \o SubSeq(s, 1, n)) \o SubSeq(s, n + 1, Len(s)) = w \o s
<1> DEFINE t == SubSeq(s, 1, n)
           u == SubSeq(s, n + 1, Len(s))
<1>1. t \in Seq(S) /\ u \in Seq(S)
  BY Split
<1>2. t \o u = s
  BY Split
<1> HIDE DEF t, u
<1>3. (w \o t) \o u = w \o (t \o u)
  BY <1>1, ConcatAssociative
<1>4. (w \o t) \o u = w \o s
  BY <1>2, <1>3
<1> QED
  BY <1>4 DEF t, u

(* The last bytes of a stream. *)
LEMMA LastOf ==
  ASSUME NEW S, NEW s \in Seq(S), NEW t \in Seq(S)
  PROVE  SubSeq(s \o t, Len(s \o t) - Len(t) + 1, Len(s \o t)) = t
<1> DEFINE u == s \o t
           v == SubSeq(u, Len(s) + 1, Len(u))
<1>1. /\ u \in Seq(S)
      /\ Len(u) = Len(s) + Len(t)
      /\ \A k \in 1 .. Len(s) + Len(t) : u[k] = IF k <= Len(s) THEN s[k] ELSE t[k - Len(s)]
  BY ConcatProperties
<1> HIDE DEF u
<1>2. /\ v \in Seq(S)
      /\ Len(v) = Len(t)
      /\ \A k \in 1 .. Len(t) : v[k] = u[Len(s) + k]
  <2>1. Len(s) + 1 \in 1 .. Len(u) + 1 /\ Len(u) \in (Len(s) + 1) - 1 .. Len(u)
    BY <1>1
  <2>2. /\ v \in Seq(S)
        /\ Len(v) = Len(u) - (Len(s) + 1) + 1
        /\ \A k \in 1 .. Len(u) - (Len(s) + 1) + 1 : v[k] = u[(Len(s) + 1) + k - 1]
    BY <1>1, <2>1, PieceIs
  <2> QED
    BY <1>1, <2>2
<1> HIDE DEF v
<1>3. \A k \in 1 .. Len(v) : v[k] = t[k]
  <2> TAKE k \in 1 .. Len(v)
  <2>1. Len(s) + k \in 1 .. Len(s) + Len(t) /\ ~(Len(s) + k <= Len(s))
    BY <1>2
  <2>2. u[Len(s) + k] = t[Len(s) + k - Len(s)]
    BY <1>1, <2>1
  <2> QED
    BY <1>2, <2>2
<1>4. v = t
  BY <1>2, <1>3, SeqEqual
<1>5. Len(u) - Len(t) + 1 = Len(s) + 1
  BY <1>1
<1> QED
  BY <1>4, <1>5 DEF u, v

LEMMA BeginsConcat ==
  ASSUME NEW S, NEW s \in Seq(S), NEW t \in Seq(S)
  PROVE  Begins(s, s \o t)
<1>1. /\ s \o t \in Seq(S)
      /\ Len(s \o t) = Len(s) + Len(t)
      /\ \A k \in 1 .. Len(s) : (s \o t)[k] = s[k]
  <2>1. \A k \in 1 .. Len(s) : k \in 1 .. Len(s) + Len(t) /\ k <= Len(s)
    OBVIOUS
  <2> QED
    BY <2>1, ConcatProperties
<1>2. Len(s) \in 0 .. Len(s \o t)
  BY <1>1
<1>3. /\ SubSeq(s \o t, 1, Len(s)) \in Seq(S)
      /\ Len(SubSeq(s \o t, 1, Len(s))) = Len(s)
      /\ \A k \in 1 .. Len(s) : SubSeq(s \o t, 1, Len(s))[k] = (s \o t)[k]
  <2>1. 1 \in 1 .. Len(s \o t) + 1 /\ Len(s) \in 1 - 1 .. Len(s \o t)
    BY <1>2
  <2>2. /\ SubSeq(s \o t, 1, Len(s)) \in Seq(S)
        /\ Len(SubSeq(s \o t, 1, Len(s))) = Len(s) - 1 + 1
        /\ \A k \in 1 .. Len(s) - 1 + 1 :
             SubSeq(s \o t, 1, Len(s))[k] = (s \o t)[1 + k - 1]
    BY <1>1, <2>1, PieceIs
  <2> QED
    BY <2>2
<1>4. SubSeq(s \o t, 1, Len(s)) = s
  BY <1>1, <1>3, SeqEqual
<1> QED
  BY <1>2, <1>4 DEF Begins

LEMMA BeginsWith ==
  ASSUME NEW S, NEW s \in Seq(S), NEW t \in Seq(S), Begins(s, t)
  PROVE  \E r \in Seq(S) : t = s \o r
<1>1. Len(s) \in 0 .. Len(t) /\ s = SubSeq(t, 1, Len(s))
  BY DEF Begins
<1>2. /\ SubSeq(t, Len(s) + 1, Len(t)) \in Seq(S)
      /\ SubSeq(t, 1, Len(s)) \o SubSeq(t, Len(s) + 1, Len(t)) = t
  BY <1>1, Split
<1> QED
  BY <1>1, <1>2

LEMMA BeginsTrans ==
  ASSUME NEW S, NEW s \in Seq(S), NEW t \in Seq(S), NEW u \in Seq(S),
         Begins(s, t), Begins(t, u)
  PROVE  Begins(s, u)
<1>1. PICK r \in Seq(S) : t = s \o r
  BY BeginsWith
<1>2. PICK q \in Seq(S) : u = t \o q
  BY BeginsWith
<1>3. u = s \o (r \o q)
  BY <1>1, <1>2, ConcatAssociative
<1>4. r \o q \in Seq(S)
  BY ConcatProperties
<1> QED
  BY <1>3, <1>4, BeginsConcat

LEMMA BeginsItself ==
  ASSUME NEW S, NEW s \in Seq(S)
  PROVE  Begins(s, s)
  BY SubSeqFull DEF Begins

(* The first of the bytes of a span are a beginning of a longer one. *)
LEMMA BeginsSpan ==
  ASSUME NEW w \in Seq(Int), NEW r \in Seq(Int),
         NEW a \in Nat, NEW b \in Nat, NEW c \in Nat,
         a <= b, b <= c, w \o r = Span(a, b)
  PROVE  Begins(w, Span(a, c))
<1>1. /\ Span(a, b) \in Seq(Int)
      /\ Span(b, c) \in Seq(Int)
      /\ Span(a, c) \in Seq(Int)
  <2>1. Span(a, b) \in Seq(Int)
    BY SpanIs
  <2>2. Span(b, c) \in Seq(Int)
    BY SpanIs
  <2>3. a <= c
    OBVIOUS
  <2>4. Span(a, c) \in Seq(Int)
    BY <2>3, SpanIs
  <2> QED
    BY <2>1, <2>2, <2>4
<1>2. Begins(w, Span(a, b))
  BY BeginsConcat
<1>3. Begins(Span(a, b), Span(a, c))
  <2>1. Span(a, c) = Span(a, b) \o Span(b, c)
    BY SpanJoin
  <2>2. Begins(Span(a, b), Span(a, b) \o Span(b, c))
    BY <1>1, BeginsConcat
  <2> QED
    BY <2>1, <2>2
<1> QED
  BY <1>1, <1>2, <1>3, BeginsTrans

LEMMA FrontOfSpan ==
  ASSUME NEW a \in Int, NEW b \in Int, NEW n \in 0 .. b - a
  PROVE  SubSeq(Span(a, b), 1, n) = Span(a, a + n)
<1> DEFINE s == Span(a, b)
           t == Span(a, a + n)
           u == SubSeq(s, 1, n)
<1>1. s \in Seq(Int) /\ Len(s) = b - a /\ \A k \in 1 .. b - a : s[k] = a + k
  <2>1. a <= b
    OBVIOUS
  <2> QED
    BY <2>1, SpanIs
<1>2. t \in Seq(Int) /\ Len(t) = n /\ \A k \in 1 .. n : t[k] = a + k
  <2>1. a + n \in Int /\ a <= a + n /\ (a + n) - a = n
    OBVIOUS
  <2>2. /\ t \in Seq(Int)
        /\ Len(t) = (a + n) - a
        /\ \A k \in 1 .. (a + n) - a : t[k] = a + k
    BY <2>1, SpanIs
  <2> QED
    BY <2>1, <2>2
<1> HIDE DEF s, t
<1>3. u \in Seq(Int) /\ Len(u) = n /\ \A k \in 1 .. n : u[k] = s[k]
  <2>1. 1 \in 1 .. Len(s) + 1 /\ n \in 1 - 1 .. Len(s)
    BY <1>1
  <2>2. /\ u \in Seq(Int)
        /\ Len(u) = n - 1 + 1
        /\ \A k \in 1 .. n - 1 + 1 : u[k] = s[1 + k - 1]
    BY <1>1, <2>1, PieceIs
  <2> QED
    BY <2>2
<1> HIDE DEF u
<1>4. \A k \in 1 .. Len(u) : u[k] = t[k]
  <2> TAKE k \in 1 .. Len(u)
  <2>1. k \in 1 .. n /\ k \in 1 .. b - a
    BY <1>3
  <2>2. u[k] = s[k] /\ s[k] = a + k /\ t[k] = a + k
    BY <1>1, <1>2, <1>3, <2>1
  <2> QED
    BY <2>2
<1>5. u = t
  BY <1>2, <1>3, <1>4, SeqEqual
<1> QED
  BY <1>5 DEF s, t, u

LEMMA BackOfSpan ==
  ASSUME NEW a \in Int, NEW b \in Int, NEW n \in 0 .. b - a
  PROVE  SubSeq(Span(a, b), n + 1, b - a) = Span(a + n, b)
<1> DEFINE s == Span(a, b)
           t == Span(a + n, b)
           u == SubSeq(s, n + 1, b - a)
<1>1. s \in Seq(Int) /\ Len(s) = b - a /\ \A k \in 1 .. b - a : s[k] = a + k
  <2>1. a <= b
    OBVIOUS
  <2> QED
    BY <2>1, SpanIs
<1>2. t \in Seq(Int) /\ Len(t) = b - a - n /\ \A k \in 1 .. b - a - n : t[k] = a + n + k
  <2>1. a + n \in Int /\ a + n <= b /\ b - (a + n) = b - a - n
    OBVIOUS
  <2>2. /\ t \in Seq(Int)
        /\ Len(t) = b - (a + n)
        /\ \A k \in 1 .. b - (a + n) : t[k] = (a + n) + k
    BY <2>1, SpanIs
  <2> QED
    BY <2>1, <2>2
<1> HIDE DEF s, t
<1>3. u \in Seq(Int) /\ Len(u) = b - a - n /\ \A k \in 1 .. b - a - n : u[k] = s[n + k]
  <2>1. n + 1 \in 1 .. Len(s) + 1 /\ b - a \in (n + 1) - 1 .. Len(s)
    BY <1>1
  <2>2. /\ u \in Seq(Int)
        /\ Len(u) = (b - a) - (n + 1) + 1
        /\ \A k \in 1 .. (b - a) - (n + 1) + 1 : u[k] = s[(n + 1) + k - 1]
    BY <1>1, <2>1, PieceIs
  <2> QED
    BY <2>2
<1> HIDE DEF u
<1>4. \A k \in 1 .. Len(u) : u[k] = t[k]
  <2> TAKE k \in 1 .. Len(u)
  <2>1. k \in 1 .. b - a - n /\ n + k \in 1 .. b - a
    BY <1>3
  <2>2. u[k] = s[n + k] /\ s[n + k] = a + (n + k) /\ t[k] = a + n + k
    BY <1>1, <1>2, <1>3, <2>1
  <2> QED
    BY <2>2
<1>5. u = t
  BY <1>2, <1>3, <1>4, SeqEqual
<1> QED
  BY <1>5 DEF s, t, u

(* One byte more. *)
LEMMA SpanOneMore ==
  ASSUME NEW b \in Nat
  PROVE  Append(Span(0, b), b + 1) = Span(0, b + 1)
<1>1. Span(b, b + 1) = << b + 1 >>
  <2>1. b \in Int /\ b + 1 \in Int /\ b <= b + 1 /\ (b + 1) - b = 1
    OBVIOUS
  <2>2. /\ Span(b, b + 1) \in Seq(Int)
        /\ Len(Span(b, b + 1)) = (b + 1) - b
        /\ \A k \in 1 .. (b + 1) - b : Span(b, b + 1)[k] = b + k
    BY <2>1, SpanIs
  <2>3. << b + 1 >> \in Seq(Int) /\ Len(<< b + 1 >>) = 1 /\ << b + 1 >>[1] = b + 1
    OBVIOUS
  <2>4. \A k \in 1 .. Len(Span(b, b + 1)) : Span(b, b + 1)[k] = << b + 1 >>[k]
    BY <2>1, <2>2, <2>3
  <2>5. Len(Span(b, b + 1)) = Len(<< b + 1 >>)
    BY <2>1, <2>2, <2>3
  <2> QED
    BY <2>2, <2>3, <2>4, <2>5, SeqEqual
<1>2. Span(0, b) \o Span(b, b + 1) = Span(0, b + 1)
  <2>1. 0 \in Nat /\ b + 1 \in Nat /\ 0 <= b /\ b <= b + 1
    OBVIOUS
  <2> QED
    BY <2>1, SpanJoin
<1>3. Append(Span(0, b), b + 1) = Span(0, b) \o << b + 1 >>
  <2>1. Span(0, b) \in Seq(Nat) /\ b + 1 \in Nat
    BY SpanFromStart
  <2> QED
    BY <2>1, AppendIsConcat
<1> QED
  BY <1>1, <1>2, <1>3

LEMMA AppendToRest ==
  ASSUME NEW S, NEW s \in Seq(S), NEW t \in Seq(S), NEW x \in S
  PROVE  s \o Append(t, x) = Append(s \o t, x)
<1>1. << x >> \in Seq(S) /\ s \o t \in Seq(S)
  BY ConcatProperties
<1>2. (s \o t) \o << x >> = s \o (t \o << x >>)
  BY <1>1, ConcatAssociative
<1>3. Append(t, x) = t \o << x >>
  BY AppendIsConcat
<1>4. Append(s \o t, x) = (s \o t) \o << x >>
  BY <1>1, AppendIsConcat
<1> QED
  BY <1>2, <1>3, <1>4

LEMMA BeginsAppend ==
  ASSUME NEW S, NEW s \in Seq(S), NEW t \in Seq(S), NEW x \in S, Begins(s, t)
  PROVE  Begins(s, Append(t, x))
<1>1. Append(t, x) = t \o << x >> /\ << x >> \in Seq(S) /\ Append(t, x) \in Seq(S)
  BY AppendIsConcat, AppendProperties
<1>2. Begins(t, t \o << x >>)
  BY <1>1, BeginsConcat
<1>3. Begins(t, Append(t, x))
  BY <1>1, <1>2
<1> QED
  BY <1>1, <1>3, BeginsTrans

(* What the first of four pieces has to do with all of them. *)
LEMMA FirstOfFour ==
  ASSUME NEW S, NEW s \in Seq(S), NEW t \in Seq(S), NEW u \in Seq(S), NEW v \in Seq(S)
  PROVE  Begins(s, ((s \o t) \o u) \o v)
<1> DEFINE p == s \o t
           q == p \o u
           r == q \o v
<1>1. p \in Seq(S) /\ Begins(s, p)
  BY ConcatProperties, BeginsConcat
<1> HIDE DEF p
<1>2. q \in Seq(S) /\ Begins(p, q)
  BY <1>1, ConcatProperties, BeginsConcat
<1> HIDE DEF q
<1>3. r \in Seq(S) /\ Begins(q, r)
  BY <1>2, ConcatProperties, BeginsConcat
<1> HIDE DEF r
<1>4. Begins(s, q)
  BY <1>1, <1>2, BeginsTrans
<1>5. Begins(s, r)
  BY <1>2, <1>3, <1>4, BeginsTrans
<1> QED
  BY <1>5 DEF p, q, r
=============================================================================
