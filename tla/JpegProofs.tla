----------------------------- MODULE JpegProofs -----------------------------
(***************************************************************************)
(* Proofs about the entropy coders, for every sequence of jobs: the passes *)
(* of the compressor go through the scans of its script in order, the      *)
(* correction bits always fit in bit_buffer, the decompressor takes every  *)
(* script the compressor accepts and finds each restart segment in data    *)
(* that lost markers, and what the encoder writes for a symbol, a DC       *)
(* difference or an AC coefficient is decoded to just that.                *)
(***************************************************************************)
EXTENDS EntropyCoding, SequenceTheorems, FiniteSetTheorems, TLAPS

-----------------------------------------------------------------------------
(* Sequences.                                                                *)

LEMMA ListOf ==
  ASSUME NEW S, NEW s \in Seq(S)
  PROVE  /\ IsList(s) /\ Len(s) \in Nat /\ DOMAIN s = 1 .. Len(s)
         /\ s = << >> <=> Len(s) = 0
<1> DEFINE R == {s[n] : n \in DOMAIN s}
<1>1. /\ Len(s) \in Nat /\ DOMAIN s = 1 .. Len(s) /\ s \in [1 .. Len(s) -> S]
      /\ s = << >> <=> Len(s) = 0
  BY LenProperties, EmptySeq
<1>2. s \in [1 .. Len(s) -> R]
  BY <1>1
<1>3. s \in Seq(R)
  BY <1>1, <1>2, SeqDef
<1> QED
  BY <1>1, <1>3 DEF IsList

\* A function on 1 .. n is a sequence.
LEMMA FunctionIsSeq ==
  ASSUME NEW S, NEW n \in Nat, NEW s \in [1 .. n -> S]
  PROVE  s \in Seq(S) /\ Len(s) = n
<1>1. s \in Seq(S)
  BY SeqDef
<1> QED
  BY <1>1, LenProperties

LEMMA ListLen ==
  ASSUME NEW s, IsList(s)
  PROVE  /\ Len(s) \in Nat /\ DOMAIN s = 1 .. Len(s)
         /\ s = << >> <=> Len(s) = 0
<1> DEFINE R == {s[n] : n \in DOMAIN s}
<1>1. s \in Seq(R)
  BY DEF IsList
<1> HIDE DEF R
<1> QED
  BY <1>1, ListOf

LEMMA EmptyList == IsList(<< >>) /\ Len(<< >>) = 0
<1>1. << >> \in Seq({})
  BY EmptySeq
<1> QED
  BY <1>1, ListOf

LEMMA ListAppend ==
  ASSUME NEW s, IsList(s), NEW x
  PROVE  /\ IsList(Append(s, x)) /\ Len(Append(s, x)) = Len(s) + 1
         /\ \A n \in 1 .. Len(s) : Append(s, x)[n] = s[n]
         /\ Append(s, x)[Len(s) + 1] = x
<1> DEFINE R == {s[n] : n \in DOMAIN s} \cup {x}
<1>1. s \in Seq({s[n] : n \in DOMAIN s})
  BY DEF IsList
<1>2. s \in Seq(R) /\ x \in R
  BY <1>1, SeqMonotonic
<1> HIDE DEF R
<1>3. Append(s, x) \in Seq(R)
  BY <1>2, AppendProperties
<1>4. IsList(Append(s, x))
  BY <1>3, ListOf
<1>5. /\ Len(Append(s, x)) = Len(s) + 1
      /\ \A n \in 1 .. Len(s) : Append(s, x)[n] = s[n]
      /\ Append(s, x)[Len(s) + 1] = x
  BY <1>2, AppendProperties
<1> QED
  BY <1>4, <1>5

LEMMA ListConcat ==
  ASSUME NEW s, NEW t, IsList(s), IsList(t)
  PROVE  IsList(s \o t) /\ Len(s \o t) = Len(s) + Len(t)
<1> DEFINE R == {s[n] : n \in DOMAIN s} \cup {t[n] : n \in DOMAIN t}
<1>1. s \in Seq({s[n] : n \in DOMAIN s}) /\ t \in Seq({t[n] : n \in DOMAIN t})
  BY DEF IsList
<1>2. s \in Seq(R) /\ t \in Seq(R)
  BY <1>1, SeqMonotonic
<1> HIDE DEF R
<1>3. s \o t \in Seq(R) /\ Len(s \o t) = Len(s) + Len(t)
  BY <1>2, ConcatProperties
<1> QED
  BY <1>3, ListOf

-----------------------------------------------------------------------------
(* Induction over an interval, for sets: a set that holds the first number  *)
(* and with each number the next one holds all of them. Were x outside, the  *)
(* numbers outside up to x would map one to one into those below x. With it  *)
(* the recursive functions of the model are shown to exist, and what their   *)
(* steps keep to hold at their last value.                                   *)

LEMMA UpTheInterval ==
  ASSUME NEW a \in Nat, NEW b \in Nat, NEW A, a \in A,
         \A n \in a .. b : n < b /\ n \in A => n + 1 \in A
  PROVE  a .. b \subseteq A
<1> SUFFICES ASSUME NEW x \in a .. b, x \notin A
             PROVE  FALSE
  OBVIOUS
<1> DEFINE S == {n \in a .. x : n \notin A}
           T == S \ {x}
           down == [n \in S |-> n - 1]
<1>1. x \in Int /\ x \in S /\ S \subseteq a .. x /\ T \subseteq S
  OBVIOUS
<1>2. IsFiniteSet(S)
  <2>1. IsFiniteSet(a .. x)
    BY <1>1, FS_Interval
  <2> QED
    BY <1>1, <2>1, FS_Subset
<1>3. IsFiniteSet(T) /\ Cardinality(T) = Cardinality(S) - 1 /\ Cardinality(S) \in Nat
  <2> HIDE DEF S
  <2> QED BY <1>1, <1>2, FS_RemoveElement, FS_CardinalityType
<1>4. ASSUME NEW n \in S
      PROVE  n - 1 \in T
  <2>1. n \in a .. b /\ n # a /\ n <= x /\ n \notin A
    BY <1>4
  <2>2. n - 1 \in a .. b /\ n - 1 < b
    BY <2>1
  <2>3. n - 1 \notin A
    BY <2>1, <2>2
  <2> QED
    BY <2>1, <2>2, <2>3
<1>5. down \in [S -> T]
  BY <1>4
<1>6. \E m, n \in S : m # n /\ down[m] = down[n]
  <2> HIDE DEF S, T, down
  <2> QED BY <1>2, <1>3, <1>5, FS_PigeonHole
<1> QED
  BY <1>6

-----------------------------------------------------------------------------
(* The encoder's state: what the routines do to EOBRUN, BE and high.         *)

Fields == {"last", "EOBRUN", "BE", "togo", "next", "high", "out"}

\* The state between MCUs, with the bound on high.
Good(e) == CoderOk(e) /\ e.high <= MAX_CORR_BITS

SameRun(e, f) == f.EOBRUN = e.EOBRUN /\ f.BE = e.BE
Flushed(f) == f.EOBRUN = 0 /\ f.BE = << >>

\* f is e but for what it emitted and counted, and the run may be written.
Calm(e, f) ==
  DOMAIN f = DOMAIN e /\ f.high = e.high /\ (SameRun(e, f) \/ Flushed(f))

LEMMA Sizes ==
  /\ MaxEobRun \in Nat /\ MaxEobRun >= 1
  /\ MAX_CORR_BITS \in Nat /\ MAX_CORR_BITS >= 64 /\ DCTSIZE2 = 64
BY HuffEncoderAssumption DEF DCTSIZE2

LEMMA CalmIsGood ==
  ASSUME NEW e, NEW f, Good(e), Calm(e, f)
  PROVE  Good(f)
BY Sizes, EmptyList DEF Good, CoderOk, Calm, SameRun, Flushed

LEMMA CalmTwice ==
  ASSUME NEW e, NEW f, NEW g, Calm(e, f), Calm(f, g)
  PROVE  Calm(e, g)
BY DEF Calm, SameRun, Flushed

LEMMA CalmOut ==
  ASSUME NEW e, DOMAIN e = Fields, NEW x
  PROVE  /\ Calm(e, [e EXCEPT !.out = x]) /\ SameRun(e, [e EXCEPT !.out = x])
         /\ [e EXCEPT !.out = x].high = e.high
BY DEF Calm, SameRun, Fields

\* e with another out and another last.
With(e, out, last) == [e EXCEPT !.out = out, !.last = last]

LEMMA GoodWith ==
  ASSUME NEW e, Good(e), NEW out, NEW last
  PROVE  Good(With(e, out, last))
<1>1. DOMAIN e = Fields
  BY DEF Good, CoderOk, Fields
<1>2. Calm(e, With(e, out, last))
  BY <1>1 DEF With, Calm, SameRun, Fields
<1> QED
  BY <1>2, CalmIsGood

LEMMA GoodOut ==
  ASSUME NEW e, Good(e), NEW out
  PROVE  Good([e EXCEPT !.out = out])
<1>1. DOMAIN e = Fields
  BY DEF Good, CoderOk, Fields
<1> DEFINE f == [e EXCEPT !.out = out]
<1>2. Calm(e, f)
  BY <1>1 DEF Calm, SameRun, Fields
<1> HIDE DEF f
<1>3. Good(f)
  BY <1>2, CalmIsGood
<1> QED
  BY <1>3 DEF f

\* A run that is written leaves no correction bits.
LEMMA EmitFlushes ==
  ASSUME NEW e, NEW tbl, DOMAIN e = Fields, e.BE # << >> => e.EOBRUN # 0
  PROVE  Calm(e, emit_eobrun(e, tbl)) /\ Flushed(emit_eobrun(e, tbl))
<1>1. CASE e.EOBRUN = 0
  BY <1>1 DEF emit_eobrun, Calm, SameRun, Flushed
<1>2. CASE e.EOBRUN # 0
  <2>1. PICK x : emit_eobrun(e, tbl) = [e EXCEPT !.out = x, !.EOBRUN = 0, !.BE = << >>]
    BY <1>2 DEF emit_eobrun
  <2> QED
    BY <2>1 DEF Calm, Flushed, Fields
<1> QED
  BY <1>1, <1>2

\* One more band: the run is longer by one or written.
LEMMA EndBandOk ==
  ASSUME NEW e, NEW tbl, DOMAIN e = Fields, e.EOBRUN \in 0 .. MaxEobRun - 1
  PROVE  LET f == EndBand(e, tbl)
         IN  /\ DOMAIN f = Fields /\ f.high = e.high
             /\ \/ f.EOBRUN = e.EOBRUN + 1 /\ f.EOBRUN < MaxEobRun /\ f.BE = e.BE
                \/ Flushed(f)
<1> DEFINE g == [e EXCEPT !.EOBRUN = @ + 1]
<1>1. DOMAIN g = Fields /\ g.high = e.high /\ g.BE = e.BE /\ g.EOBRUN = e.EOBRUN + 1
  BY DEF Fields
<1>2. g.EOBRUN # 0 /\ (g.EOBRUN = MaxEobRun \/ g.EOBRUN < MaxEobRun)
  BY <1>1, Sizes
<1>3. EndBand(e, tbl) = IF g.EOBRUN = MaxEobRun THEN emit_eobrun(g, tbl) ELSE g
  BY DEF EndBand
<1> HIDE DEF g
<1>4. Calm(g, emit_eobrun(g, tbl)) /\ Flushed(emit_eobrun(g, tbl))
  BY <1>1, <1>2, EmitFlushes
<1> QED
  BY <1>1, <1>2, <1>3, <1>4 DEF Calm

-----------------------------------------------------------------------------
(* A refinement: the walk over a band.                                       *)

\* The walk after at most n positions of a block that was begun with e.
WalkOk(e, w, n) ==
  /\ DOMAIN w = {"e", "r", "BR"} /\ DOMAIN w.e = Fields
  /\ w.e.high \in Nat /\ w.e.high <= MAX_CORR_BITS
  /\ SameRun(e, w.e) \/ Flushed(w.e)
  /\ IsList(w.BR) /\ Len(w.BR) <= n

LEMMA RefineStep ==
  ASSUME NEW e, Good(e), NEW w, NEW n \in Nat, n < 63, WalkOk(e, w, n),
         NEW k, NEW block, NEW tbl, NEW Al, NEW EOB
  PROVE  WalkOk(e, RefineAt(w, k, block, tbl, Al, EOB), n + 1)
<1> DEFINE m == AcMagnitude(block[k + 1], Al)
           zrls == IF k <= EOB THEN w.r \div 16 ELSE 0
           f == emit_eobrun(w.e, tbl)
           out == f.out \o <<ZRL(tbl)>> \o CorrectionBits(w.BR)
                        \o [z \in 1 .. zrls - 1 |-> ZRL(tbl)]
           e1 == IF zrls = 0 THEN w.e ELSE [f EXCEPT !.out = out]
           BR == IF zrls = 0 THEN w.BR ELSE << >>
           left == w.r - 16 * zrls
           fill == Len(e1.BE) + Len(BR) + 1
           e2 == emit_eobrun(e1, tbl)
           sign == IF block[k + 1] < 0 THEN 0 ELSE 1
           out2 == e2.out \o <<<<"ac", tbl, 16 * left + 1>>, <<"bits", 1, sign>>>>
                          \o CorrectionBits(BR)
           high == IF fill > e1.high THEN fill ELSE e1.high
           bit == m % 2
           zero == [w EXCEPT !.r = @ + 1]
           old == [e |-> [e1 EXCEPT !.high = high], r |-> left, BR |-> Append(BR, bit)]
           new == [e |-> [e2 EXCEPT !.out = out2], r |-> 0, BR |-> << >>]
<1>1. RefineAt(w, k, block, tbl, Al, EOB)
        = IF m = 0 THEN zero ELSE IF m > 1 THEN old ELSE new
  BY DEF RefineAt
<1>2. /\ DOMAIN e = Fields /\ e.EOBRUN \in Nat /\ (e.BE # << >> => e.EOBRUN > 0)
      /\ IsList(e.BE) /\ Len(e.BE) <= MAX_CORR_BITS - 63 /\ Len(e.BE) \in Nat
  BY Sizes, ListLen DEF Good, CoderOk, Fields
<1>3. w.e.BE # << >> => w.e.EOBRUN # 0
  BY <1>2 DEF WalkOk, SameRun, Flushed
<1>4. DOMAIN w.e = Fields
  BY DEF WalkOk
<1>5. Calm(w.e, f) /\ Flushed(f)
  <2> HIDE DEF f
  <2> QED BY <1>3, <1>4, EmitFlushes DEF f
<1>6. DOMAIN f = Fields
  BY <1>4, <1>5 DEF Calm
<1>7. /\ DOMAIN e1 = Fields /\ e1.high = w.e.high
      /\ SameRun(e, e1) \/ Flushed(e1)
  <2> HIDE DEF f, zrls, out
  <2> QED BY <1>4, <1>5, <1>6 DEF WalkOk, Calm, SameRun, Flushed, Fields
<1>8. IsList(BR) /\ Len(BR) <= n /\ Len(BR) \in Nat
  <2> HIDE DEF zrls
  <2> QED BY ListLen, EmptyList DEF WalkOk
<1>9. /\ IsList(e1.BE) /\ Len(e1.BE) <= MAX_CORR_BITS - 63 /\ Len(e1.BE) \in Nat
      /\ e1.BE # << >> => e1.EOBRUN # 0
  <2> HIDE DEF e1
  <2> QED BY <1>2, <1>7, EmptyList, Sizes DEF SameRun, Flushed
<1> HIDE DEF e1, BR, m, left
<1>10. CASE m = 0
  <2>1. DOMAIN zero = DOMAIN w /\ zero.e = w.e /\ zero.BR = w.BR
    BY DEF WalkOk
  <2>2. w.BR = w.BR /\ IsList(w.BR) /\ Len(w.BR) <= n + 1
    BY ListLen DEF WalkOk
  <2> HIDE DEF zero
  <2>3. WalkOk(e, zero, n + 1)
    BY <2>1, <2>2 DEF WalkOk
  <2> QED
    BY <1>1, <1>10, <2>3
<1>11. CASE m # 0 /\ m > 1
  <2>1. fill \in Nat /\ fill <= MAX_CORR_BITS
    BY <1>8, <1>9, Sizes
  <2>2. high \in Nat /\ high <= MAX_CORR_BITS
    <3> HIDE DEF fill
    <3> QED BY <2>1, <1>7 DEF WalkOk
  <2> HIDE DEF high, bit
  <2>3. IsList(Append(BR, bit)) /\ Len(Append(BR, bit)) <= n + 1
    BY <1>8, ListAppend
  <2>4. LET g == [e1 EXCEPT !.high = high]
        IN  DOMAIN g = Fields /\ g.high = high /\ g.BE = e1.BE /\ g.EOBRUN = e1.EOBRUN
    BY <1>7 DEF Fields
  <2>5. WalkOk(e, old, n + 1)
    BY <1>7, <2>2, <2>3, <2>4 DEF WalkOk, SameRun, Flushed
  <2> QED
    BY <1>1, <1>11, <2>5
<1>12. CASE m # 0 /\ ~(m > 1)
  <2>1. Calm(e1, e2) /\ Flushed(e2)
    <3> HIDE DEF e2
    <3> QED BY <1>7, <1>9, EmitFlushes DEF e2
  <2> HIDE DEF e2, out2
  <2> DEFINE g == [e2 EXCEPT !.out = out2]
  <2>2. DOMAIN g = Fields /\ g.high = w.e.high /\ Flushed(g)
    BY <1>7, <2>1 DEF Fields, Calm, Flushed
  <2>3. w.e.high \in Nat /\ w.e.high <= MAX_CORR_BITS
    BY DEF WalkOk
  <2>4. DOMAIN new = {"e", "r", "BR"} /\ new.e = g /\ new.BR = << >>
    OBVIOUS
  <2> HIDE DEF g, new
  <2>5. WalkOk(e, new, n + 1)
    BY <2>2, <2>3, <2>4, EmptyList DEF WalkOk
  <2> QED
    BY <1>1, <1>12, <2>5
<1> QED
  BY <1>10, <1>11, <1>12

\* The recursive function of RefineBand exists and has its value at the last
\* position.
LEMMA RefineWalk ==
  ASSUME NEW e, NEW block, NEW tbl, NEW scan, NEW EOB,
         scan.Ss \in 1 .. 63, scan.Se \in scan.Ss .. 63
  PROVE  \E f : /\ f[scan.Ss - 1] = [e |-> e, r |-> 0, BR |-> << >>]
                /\ \A k \in scan.Ss .. scan.Se :
                     f[k] = RefineAt(f[k - 1], k, block, tbl, scan.Al, EOB)
                /\ RefineBand(e, block, tbl, scan, EOB) = f[scan.Se]
<1> DEFINE a == scan.Ss - 1
           b == scan.Se
           w0 == [e |-> e, r |-> 0, BR |-> << >>]
           Step(w, k) == RefineAt(w, k, block, tbl, scan.Al, EOB)
           Is(f, n) == f = [k \in a .. n |-> IF k = a THEN w0 ELSE Step(f[k - 1], k)]
           A == {n \in a .. b : \E f : Is(f, n)}
<1>1. a \in Nat /\ b \in Nat /\ a < b
  OBVIOUS
<1>2. RefineBand(e, block, tbl, scan, EOB) = (CHOOSE f : Is(f, b))[b]
  BY DEF RefineBand
<1> HIDE DEF a, b, w0, Step
<1>3. a \in A
  <2> DEFINE g == [k \in a .. a |-> w0]
  <2>1. Is(g, a)
    BY <1>1
  <2>2. a \in a .. b
    BY <1>1
  <2> HIDE DEF Is, g
  <2> QED
    BY <2>1, <2>2
<1>4. ASSUME NEW n \in a .. b, n < b, n \in A
      PROVE  n + 1 \in A
  <2>1. PICK f : Is(f, n)
    BY <1>4
  <2> DEFINE g == [k \in a .. n + 1 |-> IF k = n + 1 THEN Step(f[n], n + 1) ELSE f[k]]
  <2>2. \A k \in a .. n : g[k] = f[k] /\ k # n + 1
    BY <1>1
  <2>3. g[n + 1] = Step(g[n], n + 1)
    BY <1>1, <2>2
  <2>4. \A k \in a .. n : g[k] = IF k = a THEN w0 ELSE Step(g[k - 1], k)
    <3>1. \A k \in a .. n : f[k] = IF k = a THEN w0 ELSE Step(f[k - 1], k)
      BY <2>1
    <3>2. \A k \in a .. n : k # a => k - 1 \in a .. n
      BY <1>1
    <3> HIDE DEF g, Is
    <3> QED BY <2>2, <3>1, <3>2
  <2>5. \A k \in a .. n + 1 : g[k] = IF k = a THEN w0 ELSE Step(g[k - 1], k)
    <3>1. \A k \in a .. n + 1 : k \in a .. n \/ (k = n + 1 /\ k - 1 = n /\ k # a)
      BY <1>1
    <3> HIDE DEF g
    <3> QED BY <2>3, <2>4, <3>1
  <2>6. g = [k \in a .. n + 1 |-> g[k]]
    OBVIOUS
  <2>7. Is(g, n + 1)
    <3> HIDE DEF g
    <3> QED BY <2>5, <2>6
  <2>8. n + 1 \in a .. b
    BY <1>1, <1>4
  <2> HIDE DEF Is, g
  <2> QED
    BY <2>7, <2>8
<1>5. b \in A
  <2> HIDE DEF A
  <2>1. a .. b \subseteq A
    BY <1>1, <1>3, <1>4, UpTheInterval
  <2> QED
    BY <1>1, <2>1
<1> DEFINE f == CHOOSE f : Is(f, b)
<1>6. Is(f, b)
  BY <1>5
<1> HIDE DEF f
<1>7. f[a] = w0 /\ \A k \in a + 1 .. b : f[k] = Step(f[k - 1], k)
  BY <1>1, <1>6
<1>8. a + 1 = scan.Ss
  BY DEF a
<1> QED
  BY <1>2, <1>7, <1>8 DEF f, a, b, w0, Step

LEMMA RefineBandOk ==
  ASSUME NEW e, Good(e), NEW block, NEW tbl, NEW scan, NEW EOB,
         scan.Ss \in 1 .. 63, scan.Se \in scan.Ss .. 63
  PROVE  WalkOk(e, RefineBand(e, block, tbl, scan, EOB), 63)
<1> DEFINE a == scan.Ss - 1
           b == scan.Se
           w0 == [e |-> e, r |-> 0, BR |-> << >>]
<1>1. PICK f : /\ f[a] = w0
               /\ \A k \in scan.Ss .. b :
                    f[k] = RefineAt(f[k - 1], k, block, tbl, scan.Al, EOB)
               /\ RefineBand(e, block, tbl, scan, EOB) = f[b]
  BY RefineWalk
<1> DEFINE A == {k \in a .. b : WalkOk(e, f[k], k - a)}
<1>2. a \in Nat /\ b \in Nat /\ a < b /\ b - a <= 63 /\ a + 1 = scan.Ss
  OBVIOUS
<1>3. WalkOk(e, w0, 0)
  <2>1. DOMAIN w0 = {"e", "r", "BR"} /\ w0.e = e /\ w0.BR = << >>
    OBVIOUS
  <2>2. DOMAIN e = Fields /\ e.high \in Nat /\ e.high <= MAX_CORR_BITS /\ SameRun(e, e)
    BY DEF Good, CoderOk, Fields, SameRun
  <2> HIDE DEF w0
  <2> QED
    BY <2>1, <2>2, EmptyList DEF WalkOk
<1>4. a \in A
  BY <1>1, <1>2, <1>3
<1> HIDE DEF w0
<1>5. ASSUME NEW n \in a .. b, n < b, n \in A
      PROVE  n + 1 \in A
  <2>1. WalkOk(e, f[n], n - a) /\ n - a \in Nat /\ n - a < 63
    BY <1>2, <1>5
  <2>2. /\ n + 1 \in scan.Ss .. b /\ n + 1 \in a .. b
        /\ (n + 1) - 1 = n /\ (n + 1) - a = (n - a) + 1
    BY <1>2, <1>5
  <2>3. f[n + 1] = RefineAt(f[n], n + 1, block, tbl, scan.Al, EOB)
    BY <1>1, <2>2
  <2>4. WalkOk(e, f[n + 1], (n - a) + 1)
    BY <2>1, <2>3, RefineStep
  <2> QED
    BY <2>2, <2>4
<1>6. b \in A
  <2> HIDE DEF A, a, b
  <2>1. a .. b \subseteq A
    BY <1>2, <1>4, <1>5, UpTheInterval
  <2> QED
    BY <1>2, <2>1
<1>7. WalkOk(e, f[b], b - a) /\ b - a <= 63 /\ b - a \in Nat
  BY <1>2, <1>6
<1>8. WalkOk(e, f[b], 63)
  <2> HIDE DEF a, b
  <2> QED BY <1>7, ListLen DEF WalkOk
<1> QED
  BY <1>1, <1>8

LEMMA RefineOk ==
  ASSUME NEW e, Good(e), NEW blocks, NEW scan,
         scan.Ss \in 1 .. 63, scan.Se \in scan.Ss .. 63
  PROVE  Good(encode_mcu_AC_refine(e, blocks, scan))
<1> DEFINE block == blocks[1].block
           tbl == blocks[1].tbl
<1>1. PICK EOB :
        LET w == RefineBand(e, block, tbl, scan, EOB)
            ended == EndBand([w.e EXCEPT !.BE = @ \o w.BR], tbl)
        IN  encode_mcu_AC_refine(e, blocks, scan)
              = IF w.r = 0 /\ w.BR = << >> THEN w.e
                ELSE IF BufferMayOverflow(ended) THEN emit_eobrun(ended, tbl) ELSE ended
  BY Zenon DEF encode_mcu_AC_refine
<1> DEFINE w == RefineBand(e, block, tbl, scan, EOB)
           with == [w.e EXCEPT !.BE = @ \o w.BR]
           ended == EndBand(with, tbl)
           result == encode_mcu_AC_refine(e, blocks, scan)
<1>2. result = IF w.r = 0 /\ w.BR = << >> THEN w.e
                ELSE IF BufferMayOverflow(ended) THEN emit_eobrun(ended, tbl) ELSE ended
  BY <1>1
<1> HIDE DEF result
<1>3. WalkOk(e, w, 63)
  BY RefineBandOk
<1> HIDE DEF w
<1>4. /\ DOMAIN w.e = Fields /\ w.e.high \in Nat /\ w.e.high <= MAX_CORR_BITS
      /\ SameRun(e, w.e) \/ Flushed(w.e)
      /\ IsList(w.BR) /\ Len(w.BR) <= 63 /\ Len(w.BR) \in Nat
  BY <1>3, ListLen DEF WalkOk
<1>5. Calm(w.e, w.e) /\ CoderOk(w.e)
  BY <1>4, EmptyList, Sizes DEF Calm, SameRun, Flushed, Good, CoderOk, Fields
<1>6. IsList(w.e.BE) /\ Len(w.e.BE) <= MAX_CORR_BITS - 63 /\ w.e.EOBRUN \in 0 .. MaxEobRun - 1
  BY <1>5, Sizes DEF CoderOk
<1> DEFINE all == w.e.BE \o w.BR
<1>7. IsList(all) /\ Len(all) <= MAX_CORR_BITS /\ Len(all) \in Nat
  <2> DEFINE m == Len(w.e.BE)
             n == Len(w.BR)
  <2>1. IsList(all) /\ Len(all) = m + n
    BY <1>4, <1>6, ListConcat
  <2>2. m \in Nat /\ m <= MAX_CORR_BITS - 63
    BY <1>6, ListLen
  <2>3. n \in Nat /\ n <= 63
    BY <1>4
  <2> HIDE DEF all, m, n
  <2>4. IsList(all)
    BY <2>1
  <2>5. Len(all) \in Nat
    BY <2>1, <2>2, <2>3
  <2>6. Len(all) <= MAX_CORR_BITS
    BY <2>1, <2>2, <2>3, Sizes
  <2> QED
    BY <2>4, <2>5, <2>6
<1>8. /\ DOMAIN with = Fields /\ with.high = w.e.high /\ with.EOBRUN = w.e.EOBRUN
      /\ with.BE = all
  BY <1>4 DEF Fields
<1> HIDE DEF with, all
<1>9. /\ DOMAIN ended = Fields /\ ended.high = w.e.high
      /\ \/ ended.EOBRUN = w.e.EOBRUN + 1 /\ ended.EOBRUN < MaxEobRun /\ ended.BE = all
         \/ Flushed(ended)
  BY <1>6, <1>8, EndBandOk
<1> HIDE DEF ended
<1>10. ended.EOBRUN \in 0 .. MaxEobRun - 1 /\ (ended.BE # << >> => ended.EOBRUN > 0)
  <2>1. CASE ended.EOBRUN = w.e.EOBRUN + 1 /\ ended.EOBRUN < MaxEobRun
    BY <1>6, <2>1, Sizes
  <2>2. CASE Flushed(ended)
    BY <2>2, Sizes DEF Flushed
  <2> QED
    BY <1>9, <2>1, <2>2
<1>11. ASSUME BufferMayOverflow(ended) PROVE Good(result)
  <2>1. Calm(ended, emit_eobrun(ended, tbl)) /\ Flushed(emit_eobrun(ended, tbl))
    BY <1>9, <1>10, EmitFlushes
  <2>2. Good(emit_eobrun(ended, tbl))
    BY <1>4, <1>9, <2>1, EmptyList, Sizes DEF Calm, Flushed, Good, CoderOk, Fields
  <2>3. Good(w.e)
    BY <1>4, <1>5 DEF Good
  <2> QED
    BY <1>2, <1>11, <2>2, <2>3
<1>12. ASSUME ~BufferMayOverflow(ended) PROVE Good(result)
  <2>1. IsList(ended.BE) /\ Len(ended.BE) <= MAX_CORR_BITS - 63
    <3>1. CASE ended.BE = all
      BY <1>7, <1>12, <3>1, Sizes DEF BufferMayOverflow
    <3>2. CASE ended.BE = << >>
      BY <3>2, EmptyList, Sizes
    <3> QED
      BY <1>9, <3>1, <3>2 DEF Flushed
  <2>2. Good(ended)
    BY <1>4, <1>9, <1>10, <2>1, Sizes DEF Good, CoderOk, Fields
  <2>3. Good(w.e)
    BY <1>4, <1>5 DEF Good
  <2> QED
    BY <1>2, <1>12, <2>2, <2>3
<1>13. Good(result)
  BY <1>11, <1>12
<1> QED
  BY <1>13 DEF result

-----------------------------------------------------------------------------
(* The other routines for an MCU.                                            *)

LEMMA FirstOk ==
  ASSUME NEW e, Good(e), NEW blocks, NEW scan
  PROVE  Good(encode_mcu_AC_first(e, blocks, scan))
<1> DEFINE tbl == blocks[1].tbl
<1>1. PICK out, f : LET g == [f EXCEPT !.out = out]
                  IN  /\ f = e \/ f = emit_eobrun(e, tbl)
                      /\ encode_mcu_AC_first(e, blocks, scan) \in {g, EndBand(g, tbl)}
  BY Zenon DEF encode_mcu_AC_first
<1> DEFINE g == [f EXCEPT !.out = out]
<1>2. DOMAIN e = Fields /\ (e.BE # << >> => e.EOBRUN # 0)
  BY DEF Good, CoderOk, Fields
<1>3. Calm(e, f)
  BY <1>1, <1>2, EmitFlushes DEF Calm, SameRun
<1>4. DOMAIN f = Fields
  BY <1>2, <1>3 DEF Calm
<1>5. Good(g)
  BY <1>3, <1>4, CalmOut, CalmTwice, CalmIsGood
<1> HIDE DEF g
<1>6. DOMAIN g = Fields /\ g.EOBRUN \in 0 .. MaxEobRun - 1
  BY <1>5 DEF Good, CoderOk, Fields
<1>7. Good(EndBand(g, tbl))
  <2> DEFINE h == EndBand(g, tbl)
  <2>1. /\ DOMAIN h = Fields /\ h.high = g.high
        /\ \/ h.EOBRUN = g.EOBRUN + 1 /\ h.EOBRUN < MaxEobRun /\ h.BE = g.BE
           \/ Flushed(h)
    BY <1>6, EndBandOk
  <2> HIDE DEF h
  <2>2. Good(h)
    BY <1>5, <2>1, EmptyList, Sizes DEF Good, CoderOk, Flushed, Fields
  <2> QED
    BY <2>2 DEF h
<1> QED
  BY <1>1, <1>5, <1>7 DEF g

LEMMA CountRestartOk ==
  ASSUME NEW e, Good(e), NEW interval
  PROVE  Good(CountRestart(e, interval))
<1>1. DOMAIN e = Fields
  BY DEF Good, CoderOk, Fields
<1>2. PICK togo, next :
        CountRestart(e, interval) \in {e, [e EXCEPT !.togo = togo, !.next = next],
                                       [e EXCEPT !.togo = togo]}
  BY DEF CountRestart
<1>3. /\ Calm(e, e) /\ Calm(e, [e EXCEPT !.togo = togo])
      /\ Calm(e, [e EXCEPT !.togo = togo, !.next = next])
  BY <1>1 DEF Calm, SameRun, Fields
<1> QED
  BY <1>2, <1>3, CalmIsGood

LEMMA RestartOk ==
  ASSUME NEW e, Good(e), NEW tbl, NEW Ss
  PROVE  Good(emit_restart_e(e, tbl, Ss)) /\ Good(emit_restart_s(e))
<1>1. DOMAIN e = Fields /\ (e.BE # << >> => e.EOBRUN # 0)
  BY DEF Good, CoderOk, Fields
<1>2. Good(emit_restart_s(e))
  <2>1. PICK out, last : emit_restart_s(e) = With(e, out, last)
    BY DEF With, emit_restart_s
  <2> QED
    BY <2>1, GoodWith
<1> DEFINE f == emit_eobrun(e, tbl)
           g == [f EXCEPT !.out = @ \o <<<<"restart", e.next>>>>]
           h == [g EXCEPT !.last = [i \in DOMAIN @ |-> 0]]
           k == [g EXCEPT !.EOBRUN = 0, !.BE = << >>]
<1>3. Calm(e, f) /\ Flushed(f)
  BY <1>1, EmitFlushes
<1>4. emit_restart_e(e, tbl, Ss) \in {h, k}
  BY DEF emit_restart_e
<1> HIDE DEF f
<1>5. DOMAIN f = Fields
  BY <1>1, <1>3 DEF Calm
<1>6. Calm(e, g) /\ DOMAIN g = Fields
  BY <1>1, <1>3, <1>5 DEF Calm, Flushed, Fields
<1> HIDE DEF g
<1>7. Calm(g, h) /\ Calm(g, k)
  BY <1>6 DEF Calm, Flushed, SameRun, Fields
<1>8. Good(h) /\ Good(k)
  BY <1>6, <1>7, CalmTwice, CalmIsGood
<1> QED
  BY <1>2, <1>4, <1>8

LEMMA EncodeMcuOk ==
  ASSUME NEW e0, Good(e0), NEW blocks, NEW scan, NEW progressive \in BOOLEAN,
         NEW gather \in BOOLEAN, NEW interval,
         progressive /\ scan.Ss # 0 => scan.Ss \in 1 .. 63 /\ scan.Se \in scan.Ss .. 63
  PROVE  Good(encode_mcu(e0, blocks, scan, progressive, gather, interval))
<1> DEFINE e == [e0 EXCEPT !.out = << >>]
           due == interval # 0 /\ e.togo = 0
           s == IF ~due THEN e
                ELSE IF progressive THEN emit_restart_e(e, blocks[1].tbl, scan.Ss)
                ELSE emit_restart_s(e)
           coded == CASE ~progressive /\ gather -> encode_mcu_gather(s, blocks, scan.Se)
                     [] ~progressive /\ ~gather -> encode_mcu_huff(s, blocks, scan.Se)
                     [] progressive /\ scan.Ss = 0 /\ scan.Ah = 0
                          -> encode_mcu_DC_first(s, blocks, scan.Al)
                     [] progressive /\ scan.Ss # 0 /\ scan.Ah = 0
                          -> encode_mcu_AC_first(s, blocks, scan)
                     [] progressive /\ scan.Ss = 0 /\ scan.Ah # 0
                          -> encode_mcu_DC_refine(s, blocks, scan.Al)
                     [] progressive /\ scan.Ss # 0 /\ scan.Ah # 0
                          -> encode_mcu_AC_refine(s, blocks, scan)
<1>1. encode_mcu(e0, blocks, scan, progressive, gather, interval)
        = CountRestart(coded, interval)
  BY DEF encode_mcu
<1>3. Good(e)
  BY GoodOut
<1> HIDE DEF e
<1>4. Good(s)
  BY <1>3, RestartOk
<1> HIDE DEF s
<1>6. Good(encode_mcu_gather(s, blocks, scan.Se))
  <2>1. PICK out, last : encode_mcu_gather(s, blocks, scan.Se)
                           = With(s, out, last)
    BY DEF With, encode_mcu_gather
  <2> QED
    BY <1>4, <2>1, GoodWith
<1>7. Good(encode_mcu_huff(s, blocks, scan.Se))
  <2>1. PICK out, last : encode_mcu_huff(s, blocks, scan.Se)
                           = With(s, out, last)
    BY DEF With, encode_mcu_huff
  <2> QED
    BY <1>4, <2>1, GoodWith
<1>8. Good(encode_mcu_DC_first(s, blocks, scan.Al))
  <2>1. PICK out, last : encode_mcu_DC_first(s, blocks, scan.Al)
                           = With(s, out, last)
    BY DEF With, encode_mcu_DC_first
  <2> QED
    BY <1>4, <2>1, GoodWith
<1>9. Good(encode_mcu_DC_refine(s, blocks, scan.Al))
  <2> DEFINE out == s.out \o [b \in DOMAIN blocks |->
                              <<"bits", 1, DcPoint(blocks[b].block[1], scan.Al) % 2>>]
  <2>1. encode_mcu_DC_refine(s, blocks, scan.Al) = [s EXCEPT !.out = out]
    BY DEF encode_mcu_DC_refine
  <2> HIDE DEF out
  <2>2. Good([s EXCEPT !.out = out])
    BY <1>4, GoodOut
  <2> QED
    BY <2>1, <2>2
<1>10. Good(encode_mcu_AC_first(s, blocks, scan))
  BY <1>4, FirstOk
<1>11. progressive /\ scan.Ss # 0 => Good(encode_mcu_AC_refine(s, blocks, scan))
  BY <1>4, RefineOk
<1>12. \/ coded = encode_mcu_gather(s, blocks, scan.Se)
       \/ coded = encode_mcu_huff(s, blocks, scan.Se)
       \/ coded = encode_mcu_DC_first(s, blocks, scan.Al)
       \/ coded = encode_mcu_AC_first(s, blocks, scan)
       \/ coded = encode_mcu_DC_refine(s, blocks, scan.Al)
       \/ progressive /\ scan.Ss # 0 /\ coded = encode_mcu_AC_refine(s, blocks, scan)
  OBVIOUS
<1> HIDE DEF coded
<1>13. Good(coded)
  BY <1>6, <1>7, <1>8, <1>9, <1>10, <1>11, <1>12
<1> QED
  BY <1>1, <1>13, CountRestartOk

-----------------------------------------------------------------------------
(* The script the compressor works through.                                  *)

\* What reduce_script keeps: entries of the script, and the first when it is a
\* DC scan.
KeptOk(s, lim_Se, n, r) ==
  /\ IsList(r)
  /\ \A i \in 1 .. Len(r) :
       \E m \in 1 .. n : s[m].Ss <= lim_Se /\ r[i] = UpTo(s[m], lim_Se)
  /\ n >= 1 /\ s[1].Ss <= lim_Se => Len(r) >= 1

LEMMA KeptStep ==
  ASSUME NEW s, NEW lim_Se \in Int, NEW n \in Nat, s[n + 1].Ss \in Int,
         NEW r, KeptOk(s, lim_Se, n, r)
  PROVE  KeptOk(s, lim_Se, n + 1,
                IF s[n + 1].Ss > lim_Se THEN r ELSE Append(r, UpTo(s[n + 1], lim_Se)))
<1> DEFINE x == UpTo(s[n + 1], lim_Se)
           t == Append(r, x)
<1>1. /\ IsList(r) /\ Len(r) \in Nat
      /\ \A i \in 1 .. Len(r) :
           \E m \in 1 .. n : s[m].Ss <= lim_Se /\ r[i] = UpTo(s[m], lim_Se)
      /\ n >= 1 /\ s[1].Ss <= lim_Se => Len(r) >= 1
  BY ListLen DEF KeptOk
<1>2. 1 .. n \subseteq 1 .. n + 1 /\ n + 1 \in 1 .. n + 1 /\ (n + 1 >= 1) /\ (n >= 1 \/ n = 0)
  OBVIOUS
<1>3. CASE s[n + 1].Ss > lim_Se
  <2>1. KeptOk(s, lim_Se, n + 1, r)
    <3>1. \A i \in 1 .. Len(r) :
            \E m \in 1 .. n + 1 : s[m].Ss <= lim_Se /\ r[i] = UpTo(s[m], lim_Se)
      BY <1>1, <1>2
    <3>2. s[1].Ss <= lim_Se => Len(r) >= 1
      <4>1. CASE n = 0
        BY <1>3, <4>1
      <4>2. CASE n >= 1
        BY <1>1, <4>2
      <4> QED
        BY <1>2, <4>1, <4>2
    <3> QED
      BY <1>1, <3>1, <3>2 DEF KeptOk
  <2> QED
    BY <1>3, <2>1
<1>4. CASE ~(s[n + 1].Ss > lim_Se)
  <2>1. /\ IsList(t) /\ Len(t) = Len(r) + 1 /\ t[Len(r) + 1] = x
        /\ \A i \in 1 .. Len(r) : t[i] = r[i]
    BY <1>1, ListAppend
  <2>2. s[n + 1].Ss <= lim_Se
    BY <1>4
  <2> HIDE DEF t
  <2>3. ASSUME NEW i \in 1 .. Len(t)
        PROVE  \E m \in 1 .. n + 1 : s[m].Ss <= lim_Se /\ t[i] = UpTo(s[m], lim_Se)
    <3>1. CASE i = Len(r) + 1
      BY <1>2, <2>1, <2>2, <3>1
    <3>2. CASE i # Len(r) + 1
      <4>1. i \in 1 .. Len(r)
        BY <1>1, <2>1, <3>2
      <4> QED
        BY <1>1, <1>2, <2>1, <4>1
    <3> QED
      BY <3>1, <3>2
  <2>4. Len(t) >= 1
    BY <1>1, <2>1
  <2>5. KeptOk(s, lim_Se, n + 1, t)
    BY <2>1, <2>3, <2>4 DEF KeptOk
  <2> QED
    BY <1>4, <2>5 DEF t
<1> QED
  BY <1>3, <1>4

LEMMA ReduceWalk ==
  ASSUME NEW s, IsList(s), NEW lim_Se
  PROVE  \E f : /\ f[0] = << >>
                /\ \A n \in 1 .. Len(s) :
                     f[n] = IF s[n].Ss > lim_Se THEN f[n - 1]
                            ELSE Append(f[n - 1], UpTo(s[n], lim_Se))
                /\ reduce_script(s, lim_Se) = f[Len(s)]
<1> DEFINE b == Len(s)
           Step(r, n) == IF s[n].Ss > lim_Se THEN r ELSE Append(r, UpTo(s[n], lim_Se))
           Is(f, n) == f = [k \in 0 .. n |-> IF k = 0 THEN << >> ELSE Step(f[k - 1], k)]
           A == {n \in 0 .. b : \E f : Is(f, n)}
<1>1. b \in Nat
  BY ListLen
<1>2. reduce_script(s, lim_Se) = (CHOOSE f : Is(f, b))[b]
  BY DEF reduce_script
<1> HIDE DEF b, Step
<1>3. 0 \in A
  <2> DEFINE g == [k \in 0 .. 0 |-> << >>]
  <2>1. Is(g, 0)
    OBVIOUS
  <2>2. 0 \in 0 .. b
    BY <1>1
  <2> HIDE DEF Is, g
  <2> QED
    BY <2>1, <2>2
<1>4. ASSUME NEW n \in 0 .. b, n < b, n \in A
      PROVE  n + 1 \in A
  <2>1. PICK f : Is(f, n)
    BY <1>4
  <2> DEFINE g == [k \in 0 .. n + 1 |-> IF k = n + 1 THEN Step(f[n], n + 1) ELSE f[k]]
  <2>2. \A k \in 0 .. n : g[k] = f[k] /\ k # n + 1
    BY <1>1
  <2>3. g[n + 1] = Step(g[n], n + 1)
    BY <1>1, <2>2
  <2>4. \A k \in 0 .. n : g[k] = IF k = 0 THEN << >> ELSE Step(g[k - 1], k)
    <3>1. \A k \in 0 .. n : f[k] = IF k = 0 THEN << >> ELSE Step(f[k - 1], k)
      BY <2>1
    <3>2. \A k \in 0 .. n : k # 0 => k - 1 \in 0 .. n
      BY <1>1
    <3> HIDE DEF g, Is
    <3> QED BY <2>2, <3>1, <3>2
  <2>5. \A k \in 0 .. n + 1 : g[k] = IF k = 0 THEN << >> ELSE Step(g[k - 1], k)
    <3>1. \A k \in 0 .. n + 1 : k \in 0 .. n \/ (k = n + 1 /\ k - 1 = n /\ k # 0)
      BY <1>1
    <3> HIDE DEF g
    <3> QED BY <2>3, <2>4, <3>1
  <2>6. g = [k \in 0 .. n + 1 |-> g[k]]
    OBVIOUS
  <2>7. Is(g, n + 1)
    <3> HIDE DEF g
    <3> QED BY <2>5, <2>6
  <2>8. n + 1 \in 0 .. b
    BY <1>1, <1>4
  <2> HIDE DEF Is, g
  <2> QED
    BY <2>7, <2>8
<1>5. b \in A
  <2> HIDE DEF A
  <2>1. 0 .. b \subseteq A
    BY <1>1, <1>3, <1>4, UpTheInterval
  <2> QED
    BY <1>1, <2>1
<1> DEFINE f == CHOOSE f : Is(f, b)
<1>6. Is(f, b)
  BY <1>5
<1> HIDE DEF f
<1>7. f[0] = << >> /\ \A k \in 1 .. b : f[k] = Step(f[k - 1], k)
  BY <1>1, <1>6
<1> QED
  BY <1>2, <1>7 DEF f, b, Step

LEMMA ReduceOk ==
  ASSUME NEW s, IsList(s), NEW lim_Se \in Int,
         \A n \in 1 .. Len(s) : s[n].Ss \in Int
  PROVE  KeptOk(s, lim_Se, Len(s), reduce_script(s, lim_Se))
<1> DEFINE b == Len(s)
           Step(r, n) == IF s[n].Ss > lim_Se THEN r ELSE Append(r, UpTo(s[n], lim_Se))
<1>1. b \in Nat
  BY ListLen
<1>2. PICK f : /\ f[0] = << >>
               /\ \A n \in 1 .. b : f[n] = Step(f[n - 1], n)
               /\ reduce_script(s, lim_Se) = f[b]
  BY ReduceWalk
<1> DEFINE A == {n \in 0 .. b : KeptOk(s, lim_Se, n, f[n])}
<1>3. 0 \in A
  <2>1. KeptOk(s, lim_Se, 0, << >>)
    BY EmptyList DEF KeptOk
  <2> QED
    BY <1>1, <1>2, <2>1
<1>4. ASSUME NEW n \in 0 .. b, n < b, n \in A
      PROVE  n + 1 \in A
  <2>1. n \in Nat /\ n + 1 \in 1 .. b /\ (n + 1) - 1 = n /\ KeptOk(s, lim_Se, n, f[n])
    BY <1>1, <1>4
  <2>2. f[n + 1] = Step(f[n], n + 1)
    <3> HIDE DEF Step
    <3> QED BY <1>2, <2>1
  <2>3. KeptOk(s, lim_Se, n + 1, Step(f[n], n + 1))
    BY <2>1, KeptStep
  <2> HIDE DEF Step
  <2> QED
    BY <1>1, <2>1, <2>2, <2>3
<1>5. b \in A
  <2> HIDE DEF A, b
  <2>1. 0 .. b \subseteq A
    BY <1>1, <1>3, <1>4, UpTheInterval
  <2> QED
    BY <1>1, <2>1
<1> QED
  BY <1>2, <1>5

\* What an accepted job says: its scan script, as the passes take it, is not
\* empty, and in a progressive one an AC scan has its band within the block.
BandOk(scan) == scan.Ss # 0 => scan.Ss \in 1 .. 63 /\ scan.Se \in scan.Ss .. 63

LEMMA ProgressiveBand ==
  ASSUME NEW s, NEW n, ProgressiveOk(s, n)
  PROVE  BandOk(s[n])
BY DEF ProgressiveOk, BandOk, DCTSIZE2

\* The first scan of a script is of DC coefficients.
LEMMA FirstIsDc ==
  ASSUME NEW s \in Seq(ScanInfo), s # << >>, NEW num, validate_script(s, num)
  PROVE  s[1].Ss = 0
<1>1. 1 \in DOMAIN s /\ s[1] \in ScanInfo
  BY ListOf, EmptySeq, ElementOfSeq
<1>2. /\ ComponentsOk(s[1], num)
      /\ IF IsProgressive(s) THEN ProgressiveOk(s, 1) ELSE SequentialOk(s, 1)
  BY <1>1 DEF validate_script
<1>3. CASE ~IsProgressive(s)
  BY <1>2, <1>3 DEF SequentialOk
<1>4. CASE IsProgressive(s)
  <2>1. s[1].comps \in Seq(Nat) /\ Len(s[1].comps) \in 1 .. 4
    BY <1>1, <1>2 DEF ScanInfo, ComponentsOk, MAX_COMPS_IN_SCAN
  <2>2. 1 \in DOMAIN s[1].comps
    BY <2>1, ListOf
  <2>3. PICK ci : ci \in InScan(s[1])
    BY <2>2 DEF InScan
  <2>4. s[1].Ss # 0 => LastBitpos(s, 1, ci, 0) >= 0
    BY <1>2, <1>4, <2>3 DEF ProgressiveOk
  <2>5. LastBitpos(s, 1, ci, 0) = -1
    <3>1. {m \in 1 .. 1 - 1 : Covers(s[m], ci, 0)} = {}
      OBVIOUS
    <3> QED
      BY <3>1 DEF LastBitpos
  <2> QED
    BY <2>4, <2>5
<1> QED
  BY <1>3, <1>4

LEMMA JobTypes ==
  ASSUME job \in AcceptedJobs
  PROVE  /\ J.script \in Seq(ScanInfo)
         /\ J.lim_Se \in Int /\ J.lim_Se >= 0 /\ J.lim_Se <= 63
         /\ J.arith \in BOOLEAN /\ J.optimize \in BOOLEAN
         /\ J.script # << >> => validate_script(J.script, Len(J.comps))
<1>1. job \in DOMAIN Jobs /\ (J.script # << >> => validate_script(J.script, Len(J.comps)))
  BY DEF AcceptedJobs, J
<1>2. /\ J.script \in Seq(ScanInfo) /\ J.lim_Se \in 0 .. 63
      /\ J.arith \in BOOLEAN /\ J.optimize \in BOOLEAN
  BY <1>1, JobsAssumption DEF J, DCTSIZE2
<1>3. \A x \in 0 .. 63 : x \in Int /\ x >= 0 /\ x <= 63
  OBVIOUS
<1> QED
  BY <1>1, <1>2, <1>3, Zenon

LEMMA ScriptOk ==
  ASSUME job \in AcceptedJobs, J.script # << >>
  PROVE  /\ IsList(script(J)) /\ Len(script(J)) >= 1
         /\ progressive_mode => \A i \in 1 .. Len(script(J)) : BandOk(script(J)[i])
<1> DEFINE s == J.script
           lim_Se == J.lim_Se
<1>1. /\ s \in Seq(ScanInfo) /\ validate_script(s, Len(J.comps))
      /\ lim_Se \in Int /\ lim_Se >= 0 /\ lim_Se <= 63
  BY JobTypes
<1>2. IsList(s) /\ Len(s) \in Nat /\ Len(s) >= 1 /\ DOMAIN s = 1 .. Len(s)
  BY <1>1, ListOf
<1>3. \A n \in 1 .. Len(s) : s[n] \in ScanInfo
  BY <1>1, ElementOfSeq
<1>4. progressive_mode => \A n \in 1 .. Len(s) : BandOk(s[n])
  BY <1>1, <1>2, ProgressiveBand DEF validate_script, progressive_mode
<1>5. CASE ~(lim_Se < 63)
  BY <1>2, <1>4, <1>5 DEF script, DCTSIZE2
<1>6. CASE lim_Se < 63
  <2> DEFINE r == reduce_script(s, lim_Se)
  <2>1. script(J) = r
    BY <1>6 DEF script, DCTSIZE2
  <2>2. \A n \in 1 .. Len(s) : s[n].Ss \in Int
    BY <1>3 DEF ScanInfo
  <2>3. KeptOk(s, lim_Se, Len(s), r)
    <3> HIDE DEF s, lim_Se
    <3> QED BY <1>1, <1>2, <2>2, ReduceOk
  <2>4. s[1].Ss = 0
    BY <1>1, FirstIsDc
  <2> HIDE DEF r, lim_Se
  <2>5. IsList(r) /\ Len(r) >= 1
    <3>1. s[1].Ss <= lim_Se
      BY <1>1, <2>4
    <3> HIDE DEF s
    <3> QED BY <1>2, <2>3, <3>1 DEF KeptOk
  <2>6. ASSUME progressive_mode, NEW i \in 1 .. Len(r)
        PROVE  BandOk(r[i])
    <3>1. PICK m \in 1 .. Len(s) : s[m].Ss <= lim_Se /\ r[i] = UpTo(s[m], lim_Se)
      BY <2>3 DEF KeptOk
    <3> DEFINE scan == s[m]
    <3>2. scan \in ScanInfo /\ BandOk(scan)
      BY <1>3, <1>4, <2>6
    <3>3. r[i].Ss = scan.Ss /\ r[i].Se = IF scan.Se > lim_Se THEN lim_Se ELSE scan.Se
      BY <3>1, <3>2 DEF UpTo, ScanInfo
    <3>4. scan.Ss <= lim_Se
      BY <3>1
    <3>5. scan.Ss \in Int /\ scan.Se \in Int
      BY <3>2 DEF ScanInfo
    <3>6. CASE scan.Ss = 0
      BY <3>3, <3>6 DEF BandOk
    <3>7. CASE scan.Ss # 0
      <4>1. scan.Ss \in 1 .. 63 /\ scan.Se \in scan.Ss .. 63
        BY <3>2, <3>7 DEF BandOk
      <4> HIDE DEF scan
      <4>2. r[i].Se \in r[i].Ss .. 63
        BY <1>1, <3>3, <3>4, <4>1
      <4> QED
        BY <3>3, <4>1, <4>2 DEF BandOk
    <3> QED
      BY <3>6, <3>7
  <2> QED
    BY <2>1, <2>5, <2>6
<1> QED
  BY <1>5, <1>6

LEMMA ScansOk ==
  ASSUME job \in AcceptedJobs
  PROVE  /\ num_scans(J) \in Nat /\ num_scans(J) >= 1
         /\ progressive_mode \in BOOLEAN /\ optimize_coding(J) \in BOOLEAN
         /\ progressive_mode => \A n \in 0 .. num_scans(J) - 1 : BandOk(ScanParameters(n))
<1>1. CASE J.script = << >>
  BY <1>1 DEF num_scans, progressive_mode, IsProgressive, optimize_coding
<1>2. CASE J.script # << >>
  <2>1. /\ IsList(script(J)) /\ Len(script(J)) >= 1
        /\ progressive_mode => \A i \in 1 .. Len(script(J)) : BandOk(script(J)[i])
    BY <1>2, ScriptOk
  <2>2. Len(script(J)) \in Nat /\ num_scans(J) = Len(script(J))
    BY <1>2, <2>1, ListLen DEF num_scans
  <2>3. progressive_mode \in BOOLEAN /\ optimize_coding(J) \in BOOLEAN
    BY DEF progressive_mode, IsProgressive, optimize_coding
  <2>4. ASSUME progressive_mode, NEW n \in 0 .. num_scans(J) - 1
        PROVE  BandOk(ScanParameters(n))
    <3> DEFINE scan == select_scan_parameters(script(J), n, num_components, J.lim_Se)
    <3>1. n + 1 \in 1 .. Len(script(J))
      BY <2>2
    <3>2. BandOk(script(J)[n + 1])
      BY <2>1, <2>4, <3>1
    <3>3. scan = script(J)[n + 1] \/ scan.Ss = 0
      BY DEF select_scan_parameters
    <3>4. ScanParameters(n).Ss = scan.Ss /\ ScanParameters(n).Se = scan.Se
      BY DEF ScanParameters
    <3> HIDE DEF scan
    <3> QED
      BY <3>2, <3>3, <3>4 DEF BandOk
  <2> QED
    BY <2>1, <2>2, <2>3, <2>4
<1> QED
  BY <1>1, <1>2

-----------------------------------------------------------------------------
(* The invariant.                                                            *)

LEMMA SameJob ==
  ASSUME job' = job
  PROVE  /\ J' = J /\ progressive_mode' = progressive_mode
         /\ num_scans(J)' = num_scans(J) /\ total_passes(J)' = total_passes(J)
         /\ optimize_coding(J)' = optimize_coding(J)
         /\ \A n : ScanParameters(n)' = ScanParameters(n)
<1>1. J' = J
  BY DEF J
<1>2. progressive_mode' = progressive_mode /\ num_components' = num_components
  BY <1>1 DEF progressive_mode, num_components
<1>3. script(J)' = script(J) /\ optimize_coding(J)' = optimize_coding(J)
  BY <1>1 DEF script, optimize_coding
<1>4. num_scans(J)' = num_scans(J)
  BY <1>1, <1>3 DEF num_scans
<1>5. total_passes(J)' = total_passes(J)
  BY <1>3, <1>4 DEF total_passes
<1>6. \A n : ScanParameters(n)' = ScanParameters(n)
  BY <1>1, <1>2, <1>3 DEF ScanParameters
<1> QED
  BY <1>1, <1>2, <1>3, <1>4, <1>5, <1>6

\* total_passes, with the number of scans.
LEMMA TotalPasses ==
  total_passes(J) = IF optimize_coding(J) THEN 2 * num_scans(J) ELSE num_scans(J)
BY DEF total_passes

\* The record of the pass.
PassFields == {"type", "scan_number", "pass_number", "gather", "last", "ready"}
PassTypes == {"main_pass", "huff_opt_pass", "output_pass"}

\* What PassInv says of a pass p of a job of s scans that makes its tables when
\* opt is TRUE.
InPlace(p, s, opt) ==
  /\ p.scan_number \in 0 .. s - 1
  /\ p.pass_number = IF ~opt THEN p.scan_number
                     ELSE 2 * p.scan_number + (IF p.type = "output_pass" THEN 1 ELSE 0)
  /\ p.type = "huff_opt_pass" => opt

LEMMA Pass ==
  PassInv <=>
    /\ job \in AcceptedJobs /\ phase \in {"encode", "written", "failed"}
    /\ DOMAIN master = PassFields /\ master.type \in PassTypes
    /\ master.ready \in BOOLEAN /\ master.gather \in BOOLEAN /\ master.last \in BOOLEAN
    /\ phase = "encode" =>
         /\ InPlace(master, num_scans(J), optimize_coding(J))
         /\ master.ready =>
              /\ master.gather <=> master.type # "output_pass" /\ optimize_coding(J)
              /\ master.last <=> master.pass_number = total_passes(J) - 1
BY Zenon DEF PassInv, InPlace, PassFields, PassTypes

LEMMA InitOk == CompressInit => CompressorInv
<1> SUFFICES ASSUME CompressInit
             PROVE  CompressorInv
  OBVIOUS
<1>1. job \in AcceptedJobs /\ phase = "encode"
  BY DEF CompressInit
<1>2. /\ DOMAIN master = PassFields /\ master.type = "main_pass" /\ master.scan_number = 0
      /\ master.pass_number = 0 /\ master.gather = FALSE /\ master.last = FALSE
      /\ master.ready = FALSE
  BY DEF CompressInit, PassFields
<1>3. num_scans(J) \in Nat /\ num_scans(J) >= 1 /\ optimize_coding(J) \in BOOLEAN
  BY <1>1, ScansOk
<1>4. InPlace(master, num_scans(J), optimize_coding(J))
  BY <1>2, <1>3 DEF InPlace
<1>5. PassInv
  BY <1>1, <1>2, <1>4, Pass DEF PassTypes
<1>6. FileInv
  BY <1>1, <1>2, EmptyList DEF CompressInit, FileInv
<1>7. CoderInv /\ CorrectionBitsFit
  BY <1>2 DEF CoderInv, CorrectionBitsFit
<1> QED
  BY <1>5, <1>6, <1>7 DEF CompressorInv

LEMMA PrepareOk == CompressorInv /\ prepare_for_pass => CompressorInv'
<1> SUFFICES ASSUME CompressorInv, prepare_for_pass
             PROVE  CompressorInv'
  OBVIOUS
<1> DEFINE scan == ScanParameters(master.scan_number)
           skip == master.type = "huff_opt_pass" /\ scan.Ss = 0 /\ scan.Ah # 0
           type == IF skip THEN "output_pass" ELSE master.type
           number == master.pass_number + (IF skip THEN 1 ELSE 0)
           opt == optimize_coding(J)
           scans == num_scans(J)
           gather == type # "output_pass" /\ opt
           last == (number = total_passes(J) - 1)
<1>1. /\ phase = "encode" /\ ~master.ready /\ phase' \in {"encode", "failed"}
      /\ master' = [master EXCEPT !.type = type, !.pass_number = number,
                      !.gather = gather, !.ready = TRUE, !.last = last]
      /\ ~J.arith => entropy' = start_pass_huff(scan, J.interval)
      /\ job' = job /\ file' = file
  BY DEF prepare_for_pass
<1>2. /\ job \in AcceptedJobs /\ DOMAIN master = PassFields /\ master.type \in PassTypes
      /\ InPlace(master, scans, opt)
  BY <1>1, Pass DEF CompressorInv
<1>3. scans \in Nat /\ scans >= 1 /\ opt \in BOOLEAN
  BY <1>2, ScansOk
<1>4. /\ J' = J /\ num_scans(J)' = scans /\ total_passes(J)' = total_passes(J)
      /\ optimize_coding(J)' = opt /\ \A n : ScanParameters(n)' = ScanParameters(n)
  BY <1>1, SameJob
<1>5. type \in PassTypes /\ gather \in BOOLEAN /\ last \in BOOLEAN
  BY <1>2, <1>3 DEF PassTypes
<1>6. InPlace([type |-> type, scan_number |-> master.scan_number, pass_number |-> number],
              scans, opt)
  <2>1. skip => opt /\ master.type # "output_pass"
    BY <1>2 DEF InPlace
  <2> HIDE DEF scan
  <2>2. CASE skip
    BY <1>2, <1>3, <2>1, <2>2 DEF InPlace
  <2>3. CASE ~skip
    <3>1. number = master.pass_number
      BY <1>2, <1>3, <2>3 DEF InPlace
    <3> QED
      BY <1>2, <2>3, <3>1 DEF InPlace
  <2> QED
    BY <2>2, <2>3
<1> HIDE DEF type, number, gather, last
<1>7. /\ DOMAIN master' = PassFields /\ master'.type = type /\ master'.pass_number = number
      /\ master'.gather = gather /\ master'.last = last /\ master'.ready = TRUE
      /\ master'.scan_number = master.scan_number
  BY <1>1, <1>2 DEF PassFields
<1>8. InPlace(master', scans, opt)
  BY <1>6, <1>7 DEF InPlace
<1>9. PassInv'
  <2>1. job' \in AcceptedJobs /\ phase' \in {"encode", "written", "failed"}
    BY <1>1, <1>2
  <2>2. /\ master'.gather <=> master'.type # "output_pass" /\ opt
        /\ master'.last <=> master'.pass_number = total_passes(J) - 1
    BY <1>7 DEF gather, last
  <2> HIDE DEF scans, opt
  <2> QED
    BY <1>4, <1>5, <1>7, <1>8, <2>1, <2>2 DEF PassInv, InPlace, PassFields, PassTypes
<1>10. FileInv'
  BY <1>1, <1>4, <1>7 DEF CompressorInv, FileInv
<1>11. CoderInv' /\ CorrectionBitsFit'
  <2>1. ASSUME ~J.arith
        PROVE  Good(entropy')
    <3>1. entropy' = start_pass_huff(scan, J.interval)
      BY <1>1, <2>1
    <3>2. Good(start_pass_huff(scan, J.interval))
      <4> HIDE DEF scan
      <4> QED BY EmptyList, Sizes DEF start_pass_huff, Good, CoderOk
    <3> QED
      BY <3>1, <3>2
  <2> QED
    BY <1>4, <2>1 DEF CoderInv, CorrectionBitsFit, Good
<1> QED
  BY <1>9, <1>10, <1>11 DEF CompressorInv

LEMMA EncodeOk == CompressorInv /\ EncodeMcu => CompressorInv'
<1> SUFFICES ASSUME CompressorInv, EncodeMcu
             PROVE  CompressorInv'
  OBVIOUS
<1> DEFINE scan == ScanParameters(master.scan_number)
           blocks == McuOf(scan, mcu, J.picture)
<1>1. /\ phase = "encode" /\ master.ready /\ entropy' = McuEncoded(blocks, scan)
      /\ job' = job /\ phase' = phase /\ master' = master /\ file' = file
  BY DEF EncodeMcu, Encoded
<1>2. /\ J' = J /\ num_scans(J)' = num_scans(J) /\ total_passes(J)' = total_passes(J)
      /\ optimize_coding(J)' = optimize_coding(J)
      /\ \A n : ScanParameters(n)' = ScanParameters(n)
  BY <1>1, SameJob
<1>3. PassInv' /\ FileInv'
  BY <1>1, <1>2 DEF CompressorInv, PassInv, FileInv
<1>4. ASSUME ~J.arith
      PROVE  Good(entropy')
  <2>1. Good(entropy)
    BY <1>1, <1>4 DEF CompressorInv, CoderInv, CorrectionBitsFit, Good
  <2>2. job \in AcceptedJobs /\ master.gather \in BOOLEAN
        /\ master.scan_number \in 0 .. num_scans(J) - 1
    BY <1>1, Pass DEF CompressorInv, InPlace
  <2>3. progressive_mode \in BOOLEAN /\ (progressive_mode => BandOk(scan))
    BY <2>2, ScansOk
  <2>4. entropy' = encode_mcu(entropy, blocks, scan, progressive_mode, master.gather,
                              J.interval)
    BY <1>1, <1>4 DEF McuEncoded
  <2> HIDE DEF scan, blocks
  <2>5. progressive_mode /\ scan.Ss # 0 => scan.Ss \in 1 .. 63 /\ scan.Se \in scan.Ss .. 63
    BY <2>3 DEF BandOk
  <2> DEFINE interval == J.interval
             e == encode_mcu(entropy, blocks, scan, progressive_mode, master.gather, interval)
  <2> HIDE DEF interval
  <2>6. Good(e)
    BY <2>1, <2>2, <2>3, <2>5, EncodeMcuOk
  <2> QED
    BY <2>4, <2>6 DEF interval
<1>5. CoderInv' /\ CorrectionBitsFit'
  BY <1>2, <1>4 DEF CoderInv, CorrectionBitsFit, Good
<1> QED
  BY <1>3, <1>5 DEF CompressorInv

LEMMA FinishOk == CompressorInv /\ finish_pass_master => CompressorInv'
<1> SUFFICES ASSUME CompressorInv, finish_pass_master
             PROVE  CompressorInv'
  OBVIOUS
<1> DEFINE opt == optimize_coding(J)
           scans == num_scans(J)
           s == master.scan_number
           next == CASE master.type = "main_pass" \/ master.type = "huff_opt_pass"
                          -> "output_pass"
                     [] master.type = "output_pass"
                          -> IF opt THEN "huff_opt_pass" ELSE "output_pass"
           s1 == IF master.gather THEN s ELSE s + 1
           number == master.pass_number + 1
<1>1. /\ phase = "encode" /\ master.ready /\ job' = job
      /\ master' = [master EXCEPT !.type = next, !.ready = FALSE,
                      !.scan_number = IF master.gather THEN @ ELSE @ + 1,
                      !.pass_number = @ + 1]
      /\ phase' = IF master.last THEN "written" ELSE "encode"
  BY Zenon DEF finish_pass_master
<1>2. \E tables, data : file' = IF master.gather THEN file
                               ELSE Append(file, [scan |-> ScanParameters(s),
                                                  tables |-> tables, data |-> data])
  BY Zenon DEF finish_pass_master
<1>3. /\ job \in AcceptedJobs /\ DOMAIN master = PassFields /\ master.type \in PassTypes
      /\ InPlace(master, scans, opt)
      /\ master.gather \in BOOLEAN /\ master.last \in BOOLEAN
      /\ master.gather <=> master.type # "output_pass" /\ opt
      /\ master.last <=> master.pass_number = total_passes(J) - 1
  BY <1>1, Pass DEF CompressorInv
<1>4. /\ scans \in Nat /\ scans >= 1 /\ opt \in BOOLEAN
      /\ total_passes(J) = IF opt THEN 2 * scans ELSE scans
  BY <1>3, ScansOk, TotalPasses
<1>5. /\ J' = J /\ num_scans(J)' = scans /\ total_passes(J)' = total_passes(J)
      /\ optimize_coding(J)' = opt /\ \A n : ScanParameters(n)' = ScanParameters(n)
  BY <1>1, SameJob
<1>6. /\ DOMAIN master' = PassFields /\ master'.type = next /\ master'.ready = FALSE
      /\ master'.scan_number = s1 /\ master'.pass_number = number
      /\ master'.gather = master.gather /\ master'.last = master.last
  <2> HIDE DEF next
  <2> QED BY <1>1, <1>3 DEF PassFields
<1>7. /\ next \in PassTypes
      /\ next = "output_pass" <=> master.type # "output_pass" \/ ~opt
      /\ next = "huff_opt_pass" => opt
  BY <1>3, <1>4 DEF PassTypes
<1> HIDE DEF next, opt, scans
<1>8. s \in 0 .. scans - 1 /\ s1 \in Nat
  BY <1>3, <1>4 DEF InPlace
<1>9. \/ opt /\ master.gather /\ master.pass_number = 2 * s /\ next = "output_pass"
      \/ opt /\ ~master.gather /\ master.pass_number = 2 * s + 1 /\ next # "output_pass"
      \/ ~opt /\ ~master.gather /\ master.pass_number = s /\ next = "output_pass"
  <2>1. CASE ~opt
    BY <1>3, <1>7, <2>1 DEF InPlace
  <2>2. CASE opt /\ master.type = "output_pass"
    BY <1>3, <1>7, <2>2 DEF InPlace
  <2>3. CASE opt /\ master.type # "output_pass"
    BY <1>3, <1>7, <1>8, <2>3 DEF InPlace
  <2> QED
    BY <1>4, <2>1, <2>2, <2>3
<1>10. /\ ~master.last => s1 \in 0 .. scans - 1
       /\ master.last => s1 = scans
       /\ number = IF ~opt THEN s1 ELSE 2 * s1 + (IF next = "output_pass" THEN 1 ELSE 0)
  <2>1. CASE opt /\ master.gather /\ master.pass_number = 2 * s /\ next = "output_pass"
    BY <1>3, <1>4, <1>8, <2>1
  <2>2. CASE opt /\ ~master.gather /\ master.pass_number = 2 * s + 1 /\ next # "output_pass"
    BY <1>3, <1>4, <1>8, <2>2
  <2>3. CASE ~opt /\ ~master.gather /\ master.pass_number = s /\ next = "output_pass"
    BY <1>3, <1>4, <1>8, <2>3
  <2> QED
    BY <1>9, <2>1, <2>2, <2>3
<1> HIDE DEF s1, number
<1>11. PassInv'
  <2>1. job' \in AcceptedJobs /\ phase' \in {"encode", "written", "failed"}
    BY <1>1, <1>3
  <2>2. phase' = "encode" => InPlace(master', scans, opt)
    BY <1>1, <1>3, <1>6, <1>7, <1>10 DEF InPlace
  <2> QED
    BY <1>3, <1>5, <1>6, <1>7, <2>1, <2>2 DEF PassInv, InPlace, PassFields, PassTypes
<1>12. FileInv'
  <2>1. IsList(file) /\ Len(file) = s /\ \A n \in 1 .. s : file[n].scan = ScanParameters(n - 1)
    BY DEF CompressorInv, FileInv
  <2>2. phase' = "written" => s1 = scans
    BY <1>1, <1>3, <1>10
  <2>3. CASE master.gather
    <3>1. file' = file /\ s1 = s
      BY <1>2, <2>3 DEF s1
    <3> HIDE DEF s
    <3> QED
      BY <1>5, <1>6, <2>1, <2>2, <3>1 DEF FileInv
  <2>4. CASE ~master.gather
    <3>1. PICK tables, data :
            file' = Append(file, [scan |-> ScanParameters(s), tables |-> tables,
                                  data |-> data])
      BY <1>2, <2>4
    <3> DEFINE entry == [scan |-> ScanParameters(s), tables |-> tables, data |-> data]
    <3>2. entry.scan = ScanParameters(s) /\ s1 = s + 1
      BY <2>4 DEF s1
    <3> HIDE DEF entry
    <3>3. /\ IsList(file') /\ Len(file') = s + 1 /\ file'[s + 1] = entry
          /\ \A n \in 1 .. s : file'[n] = file[n]
      BY <2>1, <3>1, ListAppend DEF entry
    <3> HIDE DEF s
    <3>4. ASSUME NEW n \in 1 .. s + 1
          PROVE  file'[n].scan = ScanParameters(n - 1)
      <4>1. n = s + 1 => n - 1 = s
        BY <1>8
      <4>2. n \in 1 .. s \/ n = s + 1
        BY <1>8
      <4> QED
        BY <2>1, <3>2, <3>3, <4>1, <4>2
    <3> QED
      BY <1>5, <1>6, <2>2, <3>2, <3>3, <3>4 DEF FileInv
  <2> QED
    BY <1>3, <2>3, <2>4
<1>13. CoderInv' /\ CorrectionBitsFit'
  BY <1>6 DEF CoderInv, CorrectionBitsFit
<1> QED
  BY <1>11, <1>12, <1>13 DEF CompressorInv

LEMMA CompressorStep == CompressorInv /\ [CompressNext]_compressor => CompressorInv'
<1> SUFFICES ASSUME CompressorInv, [CompressNext]_compressor
             PROVE  CompressorInv'
  OBVIOUS
<1>1. CASE CompressNext
  BY <1>1, PrepareOk, EncodeOk, FinishOk DEF CompressNext
<1>2. CASE UNCHANGED compressor
  <2>1. /\ job' = job /\ phase' = phase /\ master' = master /\ entropy' = entropy
        /\ file' = file
    BY <1>2 DEF compressor
  <2>2. /\ J' = J /\ num_scans(J)' = num_scans(J) /\ total_passes(J)' = total_passes(J)
        /\ optimize_coding(J)' = optimize_coding(J)
        /\ \A n : ScanParameters(n)' = ScanParameters(n)
    BY <2>1, SameJob
  <2> QED
    BY <2>1, <2>2
       DEF CompressorInv, PassInv, FileInv, CoderInv, CoderOk, CorrectionBitsFit
<1> QED
  BY <1>1, <1>2

\* Whatever the jobs are, the invariant of the compressor holds: the passes take
\* the scans of the script in order and write each of them once, and bit_buffer
\* has room for the correction bits of any block (jcmaster.c, jchuff.c).
THEOREM CompressorInvariant == CompressSpec => []CompressorInv
BY InitOk, CompressorStep, PTL DEF CompressSpec

\* What the buffer of correction bits needs room for, by itself: the bits of a
\* block fit in it whatever was put off before (jchuff.c, encode_mcu_AC_refine).
THEOREM CorrectionBitsAlwaysFit == CompressSpec => []CorrectionBitsFit
<1>1. CompressorInv => CorrectionBitsFit
  BY DEF CompressorInv
<1> QED
  BY CompressorInvariant, <1>1, PTL

-----------------------------------------------------------------------------
(* The script as the decompressor meets it. What validate_script has found   *)
(* for a scan holds of it in the reduced script: the scans left out send only *)
(* coefficients that are left out too.                                        *)

\* Where the entries that reduce_script keeps of the first n of a script come
\* from: f, in order, and nothing else of the block is left out.
KeptFrom(s, lim_Se, n, r, f) ==
  /\ IsList(r) /\ f \in [1 .. Len(r) -> 1 .. n]
  /\ \A i, j \in 1 .. Len(r) : i < j => f[i] < f[j]
  /\ \A i \in 1 .. Len(r) : s[f[i]].Ss <= lim_Se /\ r[i] = UpTo(s[f[i]], lim_Se)
  /\ \A m \in 1 .. n : s[m].Ss <= lim_Se => \E i \in 1 .. Len(r) : f[i] = m

LEMMA KeptFromStep ==
  ASSUME NEW s, NEW lim_Se \in Int, NEW n \in Nat, s[n + 1].Ss \in Int,
         NEW r, NEW f, KeptFrom(s, lim_Se, n, r, f)
  PROVE  \E g : KeptFrom(s, lim_Se, n + 1,
                  IF s[n + 1].Ss > lim_Se THEN r ELSE Append(r, UpTo(s[n + 1], lim_Se)), g)
<1>1. /\ IsList(r) /\ Len(r) \in Nat /\ f \in [1 .. Len(r) -> 1 .. n]
      /\ \A i, j \in 1 .. Len(r) : i < j => f[i] < f[j]
      /\ \A i \in 1 .. Len(r) : s[f[i]].Ss <= lim_Se /\ r[i] = UpTo(s[f[i]], lim_Se)
      /\ \A m \in 1 .. n : s[m].Ss <= lim_Se => \E i \in 1 .. Len(r) : f[i] = m
  BY ListLen DEF KeptFrom
<1>2. /\ 1 .. n \subseteq 1 .. n + 1 /\ n + 1 \in 1 .. n + 1
      /\ \A m \in 1 .. n + 1 : m # n + 1 => m \in 1 .. n
      /\ \A m \in 1 .. n : m < n + 1
  OBVIOUS
<1>3. CASE s[n + 1].Ss > lim_Se
  <2>1. f \in [1 .. Len(r) -> 1 .. n + 1]
    BY <1>1, <1>2
  <2>2. \A m \in 1 .. n + 1 : s[m].Ss <= lim_Se => \E i \in 1 .. Len(r) : f[i] = m
    <3>1. ~(s[n + 1].Ss <= lim_Se)
      BY <1>3
    <3> QED
      BY <1>1, <1>2, <3>1
  <2>3. KeptFrom(s, lim_Se, n + 1, r, f)
    BY <1>1, <2>1, <2>2 DEF KeptFrom
  <2> QED
    BY <1>3, <2>3
<1>4. CASE ~(s[n + 1].Ss > lim_Se)
  <2> DEFINE x == UpTo(s[n + 1], lim_Se)
             t == Append(r, x)
             l == Len(r)
             g == [i \in 1 .. l + 1 |-> IF i = l + 1 THEN n + 1 ELSE f[i]]
  <2>1. /\ IsList(t) /\ Len(t) = l + 1 /\ t[l + 1] = x
        /\ \A i \in 1 .. l : t[i] = r[i]
    BY <1>1, ListAppend
  <2>2. s[n + 1].Ss <= lim_Se
    BY <1>4
  <2> HIDE DEF t, l
  <2>3. /\ l \in Nat /\ l + 1 \in 1 .. l + 1 /\ 1 .. l \subseteq 1 .. l + 1
        /\ \A i \in 1 .. l + 1 : i # l + 1 => i \in 1 .. l
        /\ \A i \in 1 .. l : i # l + 1 /\ ~(l + 1 < i)
    <3>1. l \in Nat
      BY <1>1 DEF l
    <3> QED
      BY <3>1
  <2>4. /\ g \in [1 .. l + 1 -> 1 .. n + 1] /\ g[l + 1] = n + 1
        /\ \A i \in 1 .. l : g[i] = f[i] /\ f[i] \in 1 .. n
    <3>1. \A i \in 1 .. l : f[i] \in 1 .. n
      BY <1>1 DEF l
    <3> QED
      BY <1>2, <2>3, <3>1
  <2> HIDE DEF g
  <2>5. \A i, j \in 1 .. l + 1 : i < j => g[i] < g[j]
    <3> SUFFICES ASSUME NEW i \in 1 .. l + 1, NEW j \in 1 .. l + 1, i < j
                 PROVE  g[i] < g[j]
      OBVIOUS
    <3>1. i # l + 1
      BY <2>3
    <3>2. CASE j = l + 1
      BY <1>2, <2>3, <2>4, <3>1, <3>2
    <3>3. CASE j # l + 1
      <4>1. i \in 1 .. l /\ j \in 1 .. l
        BY <2>3, <3>1, <3>3
      <4>2. f[i] < f[j]
        BY <1>1, <4>1 DEF l
      <4> QED
        BY <2>4, <4>1, <4>2
    <3> QED
      BY <3>2, <3>3
  <2>6. \A i \in 1 .. l + 1 : s[g[i]].Ss <= lim_Se /\ t[i] = UpTo(s[g[i]], lim_Se)
    <3> SUFFICES ASSUME NEW i \in 1 .. l + 1
                 PROVE  s[g[i]].Ss <= lim_Se /\ t[i] = UpTo(s[g[i]], lim_Se)
      OBVIOUS
    <3>1. CASE i = l + 1
      BY <2>1, <2>2, <2>4, <3>1
    <3>2. CASE i # l + 1
      <4>1. i \in 1 .. l
        BY <2>3, <3>2
      <4>2. s[f[i]].Ss <= lim_Se /\ r[i] = UpTo(s[f[i]], lim_Se)
        BY <1>1, <4>1 DEF l
      <4> QED
        BY <2>1, <2>4, <4>1, <4>2
    <3> QED
      BY <3>1, <3>2
  <2>7. \A m \in 1 .. n + 1 : s[m].Ss <= lim_Se => \E i \in 1 .. l + 1 : g[i] = m
    <3> SUFFICES ASSUME NEW m \in 1 .. n + 1, s[m].Ss <= lim_Se
                 PROVE  \E i \in 1 .. l + 1 : g[i] = m
      OBVIOUS
    <3>1. CASE m = n + 1
      BY <2>3, <2>4, <3>1
    <3>2. CASE m # n + 1
      <4>1. PICK i \in 1 .. l : f[i] = m
        BY <1>1, <1>2, <3>2 DEF l
      <4> QED
        BY <2>3, <2>4, <4>1
    <3> QED
      BY <3>1, <3>2
  <2>8. KeptFrom(s, lim_Se, n + 1, t, g)
    BY <2>1, <2>4, <2>5, <2>6, <2>7 DEF KeptFrom
  <2>9. t = IF s[n + 1].Ss > lim_Se THEN r ELSE Append(r, UpTo(s[n + 1], lim_Se))
    BY <1>4 DEF t
  <2> QED
    BY <2>8, <2>9
<1> QED
  BY <1>3, <1>4

LEMMA ReduceKeeps ==
  ASSUME NEW s, IsList(s), NEW lim_Se \in Int,
         \A n \in 1 .. Len(s) : s[n].Ss \in Int
  PROVE  \E f : KeptFrom(s, lim_Se, Len(s), reduce_script(s, lim_Se), f)
<1> DEFINE b == Len(s)
           Step(r, n) == IF s[n].Ss > lim_Se THEN r ELSE Append(r, UpTo(s[n], lim_Se))
<1>1. b \in Nat
  BY ListLen
<1>2. PICK w : /\ w[0] = << >>
               /\ \A n \in 1 .. b : w[n] = Step(w[n - 1], n)
               /\ reduce_script(s, lim_Se) = w[b]
  BY ReduceWalk
<1> DEFINE A == {n \in 0 .. b : \E f : KeptFrom(s, lim_Se, n, w[n], f)}
<1>3. 0 \in A
  <2> DEFINE none == [i \in 1 .. 0 |-> 0]
  <2>1. KeptFrom(s, lim_Se, 0, << >>, none)
    BY EmptyList DEF KeptFrom
  <2> HIDE DEF none
  <2> QED
    BY <1>1, <1>2, <2>1
<1>4. ASSUME NEW n \in 0 .. b, n < b, n \in A
      PROVE  n + 1 \in A
  <2>1. n \in Nat /\ n + 1 \in 1 .. b /\ n + 1 \in 0 .. b /\ (n + 1) - 1 = n
    BY <1>1, <1>4
  <2>2. PICK f : KeptFrom(s, lim_Se, n, w[n], f)
    BY <1>4
  <2>3. w[n + 1] = Step(w[n], n + 1)
    <3> HIDE DEF Step
    <3> QED BY <1>2, <2>1
  <2>4. \E g : KeptFrom(s, lim_Se, n + 1, Step(w[n], n + 1), g)
    BY <2>1, <2>2, KeptFromStep
  <2> HIDE DEF Step
  <2> QED
    BY <2>1, <2>3, <2>4
<1>5. b \in A
  <2> HIDE DEF A, b
  <2>1. 0 .. b \subseteq A
    BY <1>1, <1>3, <1>4, UpTheInterval
  <2> QED
    BY <1>1, <2>1
<1> QED
  BY <1>2, <1>5

\* Which scan has sent a coefficient last, in terms of a number of the scan.
LEMMA LastIs ==
  ASSUME NEW s, NEW n \in Nat, NEW ci, NEW k, NEW m \in 1 .. n - 1, Covers(s[m], ci, k),
         \A o \in 1 .. n - 1 : Covers(s[o], ci, k) => o <= m
  PROVE  LastBitpos(s, n, ci, k) = s[m].Al
<1> DEFINE before == {o \in 1 .. n - 1 : Covers(s[o], ci, k)}
<1>1. m \in before /\ \A o \in before : m >= o
  OBVIOUS
<1>2. \A x \in before : (\A o \in before : x >= o) => x = m
  BY <1>1
<1> HIDE DEF before
<1>3. Max(before) = m
  BY <1>1, <1>2 DEF Max
<1> QED
  BY <1>1, <1>3 DEF LastBitpos, before

LEMMA NoneBefore ==
  ASSUME NEW s, NEW n \in Nat, NEW ci, NEW k, \A o \in 1 .. n - 1 : ~Covers(s[o], ci, k)
  PROVE  LastBitpos(s, n, ci, k) = -1
<1>1. {o \in 1 .. n - 1 : Covers(s[o], ci, k)} = {}
  OBVIOUS
<1> QED
  BY <1>1 DEF LastBitpos

LEMMA SomeBefore ==
  ASSUME NEW s, NEW n \in Nat, NEW ci, NEW k, NEW x \in 1 .. n - 1, Covers(s[x], ci, k)
  PROVE  \E m \in 1 .. n - 1 :
           /\ Covers(s[m], ci, k)
           /\ \A o \in 1 .. n - 1 : Covers(s[o], ci, k) => o <= m
<1> DEFINE before == {o \in 1 .. n - 1 : Covers(s[o], ci, k)}
           A == {i \in 0 .. n : \E m \in before : i <= m}
<1> SUFFICES ASSUME ~\E m \in before : \A o \in before : o <= m
             PROVE  FALSE
  OBVIOUS
<1>1. \A m \in before : m \in 1 .. n - 1 /\ \E o \in before : m + 1 <= o
  OBVIOUS
<1>2. x \in before /\ x \in Nat
  OBVIOUS
<1> HIDE DEF before
<1>3. 0 \in A
  BY <1>2
<1>4. ASSUME NEW i \in 0 .. n, i < n, i \in A
      PROVE  i + 1 \in A
  <2>1. PICK m \in before : i <= m
    BY <1>4
  <2>2. PICK o \in before : m + 1 <= o
    BY <1>1
  <2>3. m \in 1 .. n - 1 /\ o \in 1 .. n - 1
    BY <1>1
  <2>4. i + 1 <= o /\ i + 1 \in 0 .. n
    BY <2>1, <2>2, <2>3, <1>4
  <2> QED
    BY <2>4
<1>5. n \in A
  <2> HIDE DEF A
  <2>1. 0 .. n \subseteq A
    BY <1>3, <1>4, UpTheInterval
  <2> QED
    BY <2>1
<1>6. PICK m \in before : n <= m
  BY <1>5
<1> QED
  BY <1>1, <1>6

LEMMA UpToFields ==
  ASSUME NEW x \in ScanInfo, NEW lim_Se \in Int
  PROVE  /\ UpTo(x, lim_Se).comps = x.comps /\ UpTo(x, lim_Se).Ss = x.Ss
         /\ UpTo(x, lim_Se).Ah = x.Ah /\ UpTo(x, lim_Se).Al = x.Al
         /\ UpTo(x, lim_Se).Se = IF x.Se > lim_Se THEN lim_Se ELSE x.Se
         /\ x.comps \in Seq(Nat)
         /\ x.Ss \in Int /\ x.Se \in Int /\ x.Ah \in Int /\ x.Al \in Int
BY DEF UpTo, ScanInfo

\* The coefficients up to lim_Se are covered as before.
LEMMA CoversUpTo ==
  ASSUME NEW x \in ScanInfo, NEW lim_Se \in Int, NEW ci, NEW k \in Int, k <= lim_Se
  PROVE  Covers(UpTo(x, lim_Se), ci, k) <=> Covers(x, ci, k)
<1> DEFINE y == UpTo(x, lim_Se)
<1>1. /\ y.comps = x.comps /\ y.Ss = x.Ss
      /\ y.Se = IF x.Se > lim_Se THEN lim_Se ELSE x.Se
      /\ x.Ss \in Int /\ x.Se \in Int
  BY UpToFields
<1> HIDE DEF y
<1>2. InScan(y) = InScan(x)
  BY <1>1 DEF InScan
<1>3. k \in y.Ss .. y.Se <=> k \in x.Ss .. x.Se
  BY <1>1
<1>4. Covers(y, ci, k) <=> Covers(x, ci, k)
  BY <1>2, <1>3 DEF Covers
<1> QED
  BY <1>4 DEF y

\* The scans before the i-th of s that send coefficient k of component ci are
\* those before the n-th of t, by f.
SameSenders(s, i, t, n, f, ci, k) ==
  /\ f \in [1 .. n - 1 -> 1 .. i - 1]
  /\ \A a, b \in 1 .. n - 1 : a < b => f[a] < f[b]
  /\ \A a \in 1 .. n - 1 :
       t[a].Al = s[f[a]].Al /\ (Covers(t[a], ci, k) <=> Covers(s[f[a]], ci, k))
  /\ \A m \in 1 .. i - 1 : Covers(s[m], ci, k) => \E a \in 1 .. n - 1 : f[a] = m

LEMMA SameLast ==
  ASSUME NEW s, NEW t, NEW n \in Nat, NEW i \in Nat, NEW f, NEW ci, NEW k,
         SameSenders(s, i, t, n, f, ci, k)
  PROVE  LastBitpos(t, n, ci, k) = LastBitpos(s, i, ci, k)
<1> USE DEF SameSenders
<1>1. CASE \A a \in 1 .. n - 1 : ~Covers(t[a], ci, k)
  <2>1. \A m \in 1 .. i - 1 : ~Covers(s[m], ci, k)
    BY <1>1
  <2>2. LastBitpos(t, n, ci, k) = -1
    BY <1>1, NoneBefore
  <2>3. LastBitpos(s, i, ci, k) = -1
    BY <2>1, NoneBefore
  <2> QED
    BY <2>2, <2>3
<1>2. CASE \E a \in 1 .. n - 1 : Covers(t[a], ci, k)
  <2>1. PICK m \in 1 .. n - 1 :
          /\ Covers(t[m], ci, k)
          /\ \A o \in 1 .. n - 1 : Covers(t[o], ci, k) => o <= m
    BY <1>2, SomeBefore
  <2>2. f[m] \in 1 .. i - 1 /\ Covers(s[f[m]], ci, k) /\ t[m].Al = s[f[m]].Al
    BY <2>1
  <2>3. ASSUME NEW o \in 1 .. i - 1, Covers(s[o], ci, k)
        PROVE  o <= f[m]
    <3>1. PICK a \in 1 .. n - 1 : f[a] = o
      BY <2>3
    <3>2. Covers(t[a], ci, k)
      BY <2>3, <3>1
    <3>3. a <= m
      BY <2>1, <3>2
    <3>4. CASE a = m
      BY <2>2, <3>1, <3>4
    <3>5. CASE a # m
      <4>1. a < m
        BY <3>3, <3>5
      <4>2. f[a] < f[m]
        BY <4>1
      <4> QED
        BY <2>2, <3>1, <4>2
    <3> QED
      BY <3>4, <3>5
  <2>4. LastBitpos(t, n, ci, k) = t[m].Al
    BY <2>1, LastIs
  <2>5. LastBitpos(s, i, ci, k) = s[f[m]].Al
    <3> DEFINE p == f[m]
    <3>1. p \in 1 .. i - 1 /\ Covers(s[p], ci, k)
      BY <2>2
    <3> HIDE DEF p
    <3>2. \A o \in 1 .. i - 1 : Covers(s[o], ci, k) => o <= p
      BY <2>3 DEF p
    <3>3. LastBitpos(s, i, ci, k) = s[p].Al
      BY <3>1, <3>2, LastIs
    <3> QED
      BY <3>3 DEF p
  <2> QED
    BY <2>2, <2>4, <2>5
<1> QED
  BY <1>1, <1>2

\* A scan of the reduced script finds of its coefficients what it found before.
LEMMA LastReduced ==
  ASSUME NEW s, NEW lim_Se \in Int, NEW n \in Nat, NEW r, NEW f,
         KeptFrom(s, lim_Se, n, r, f), \A m \in 1 .. n : s[m] \in ScanInfo,
         NEW i \in 1 .. Len(r), NEW ci, NEW k \in Int, k <= lim_Se
  PROVE  f[i] \in 1 .. n /\ LastBitpos(r, i, ci, k) = LastBitpos(s, f[i], ci, k)
<1>1. /\ IsList(r) /\ Len(r) \in Nat /\ f \in [1 .. Len(r) -> 1 .. n]
      /\ \A a, b \in 1 .. Len(r) : a < b => f[a] < f[b]
      /\ \A a \in 1 .. Len(r) : s[f[a]].Ss <= lim_Se /\ r[a] = UpTo(s[f[a]], lim_Se)
      /\ \A m \in 1 .. n : s[m].Ss <= lim_Se => \E a \in 1 .. Len(r) : f[a] = m
  BY ListLen DEF KeptFrom
<1> DEFINE l == Len(r)
           h == f[i]
           g == [a \in 1 .. i - 1 |-> f[a]]
<1>2. /\ l \in Nat /\ i \in 1 .. l /\ i \in Nat /\ 1 .. i - 1 \subseteq 1 .. l
      /\ \A a \in 1 .. l : a < i => a \in 1 .. i - 1
      /\ \A a \in 1 .. i - 1 : a < i
  BY <1>1
<1>3. h \in 1 .. n /\ h \in Nat
  BY <1>1
<1>4. g \in [1 .. i - 1 -> 1 .. h - 1]
  <2>1. ASSUME NEW a \in 1 .. i - 1
        PROVE  f[a] \in 1 .. h - 1
    <3>1. f[a] \in 1 .. n /\ f[a] < f[i]
      BY <1>1, <1>2
    <3>2. f[a] \in 1 .. n /\ f[a] < h
      BY <3>1
    <3> HIDE DEF h
    <3> QED
      BY <1>3, <3>2
  <2> QED
    BY <2>1
<1>5. \A a, b \in 1 .. i - 1 : a < b => g[a] < g[b]
  BY <1>1, <1>2
<1>6. ASSUME NEW a \in 1 .. i - 1
      PROVE  r[a].Al = s[g[a]].Al /\ (Covers(r[a], ci, k) <=> Covers(s[g[a]], ci, k))
  <2> DEFINE x == s[f[a]]
  <2>1. a \in 1 .. Len(r) /\ f[a] \in 1 .. n
    BY <1>1, <1>2
  <2>2. x \in ScanInfo /\ r[a] = UpTo(x, lim_Se) /\ g[a] = f[a]
    BY <1>1, <2>1
  <2> HIDE DEF x
  <2>3. r[a].Al = x.Al
    BY <2>2, UpToFields
  <2>4. Covers(r[a], ci, k) <=> Covers(x, ci, k)
    BY <2>2, CoversUpTo
  <2> QED
    BY <2>2, <2>3, <2>4 DEF x
<1>7. ASSUME NEW m \in 1 .. h - 1, Covers(s[m], ci, k)
      PROVE  \E a \in 1 .. i - 1 : g[a] = m
  <2>1. m \in 1 .. n /\ m < h
    BY <1>3
  <2>2. s[m].Ss \in Int /\ s[m].Se \in Int
    BY <2>1 DEF ScanInfo
  <2>3. s[m].Ss <= lim_Se
    BY <1>7, <2>2 DEF Covers
  <2>4. PICK a \in 1 .. Len(r) : f[a] = m
    BY <1>1, <2>1, <2>3
  <2>5. a < i
    <3>1. CASE a = i
      BY <2>1, <2>4, <3>1
    <3>2. CASE i < a
      <4>1. f[i] < f[a]
        BY <1>1, <3>2
      <4>2. h < m
        BY <2>4, <4>1
      <4> HIDE DEF h
      <4> QED
        BY <1>3, <2>1, <4>2
    <3> QED
      BY <1>2, <3>1, <3>2
  <2>6. a \in 1 .. i - 1
    BY <1>2, <2>5
  <2> QED
    BY <2>4, <2>6
<1> HIDE DEF g, h
<1>8. SameSenders(s, h, r, i, g, ci, k)
  BY <1>4, <1>5, <1>6, <1>7 DEF SameSenders
<1>9. LastBitpos(r, i, ci, k) = LastBitpos(s, h, ci, k)
  BY <1>2, <1>3, <1>8, SameLast
<1> QED
  BY <1>3, <1>9 DEF h

\* What the decompressor looks for in the i-th scan of a list, for blocks up to
\* coefficient lim_Se.
SentInOrder(s, i, lim_Se) ==
  LET scan == s[i]
      SentLast(ci, k) == LastBitpos(s, i, ci, k)
  IN  /\ IF scan.Ss = 0 THEN scan.Se = 0
         ELSE scan.Se \in scan.Ss .. lim_Se /\ Len(scan.comps) = 1
      /\ scan.Ah # 0 => scan.Al = scan.Ah - 1
      /\ scan.Al \in 0 .. MAX_AH_AL
      /\ \A ci \in InScan(scan) :
           /\ scan.Ss # 0 => SentLast(ci, 0) >= 0
           /\ \A k \in scan.Ss .. scan.Se : scan.Ah = IF SentLast(ci, k) < 0 THEN 0 ELSE SentLast(ci, k)

LEMMA ValidInOrder ==
  ASSUME NEW s \in Seq(ScanInfo), NEW num, validate_script(s, num), IsProgressive(s),
         NEW i \in 1 .. Len(s)
  PROVE  SentInOrder(s, i, 63)
<1> DEFINE scan == s[i]
           SentLast(ci, k) == LastBitpos(s, i, ci, k)
<1>1. i \in DOMAIN s /\ scan \in ScanInfo
  BY ListOf, ElementOfSeq
<1>2. ComponentsOk(s[i], num) /\ ProgressiveOk(s, i)
  BY <1>1 DEF validate_script
<1>3. /\ scan.comps \in Seq(Nat) /\ Len(scan.comps) \in 1 .. 4
      /\ scan.Ss \in Int /\ scan.Se \in Int /\ scan.Ah \in Int /\ scan.Al \in Int
  BY <1>1, <1>2 DEF ComponentsOk, ScanInfo, MAX_COMPS_IN_SCAN
<1>4. /\ scan.Ss \in 0 .. 63 /\ scan.Se \in scan.Ss .. 63
      /\ scan.Ah \in 0 .. 10 /\ scan.Al \in 0 .. 10
      /\ IF scan.Ss = 0 THEN scan.Se = 0 ELSE Len(scan.comps) = 1
      /\ \A ci \in InScan(scan) :
           /\ scan.Ss # 0 => SentLast(ci, 0) >= 0
           /\ \A k \in scan.Ss .. scan.Se :
                IF SentLast(ci, k) < 0 THEN scan.Ah = 0
                ELSE scan.Ah = SentLast(ci, k) /\ scan.Al = scan.Ah - 1
  BY <1>2 DEF ProgressiveOk, DCTSIZE2, MAX_AH_AL
<1>5. PICK c : c \in InScan(scan)
  <2>1. 1 \in DOMAIN scan.comps
    <3> HIDE DEF scan
    <3> QED BY <1>3, ListOf
  <2> QED
    BY <2>1 DEF InScan
<1> HIDE DEF scan, SentLast
<1>6. scan.Ah # 0 => scan.Al = scan.Ah - 1
  <2>1. scan.Ss \in scan.Ss .. scan.Se
    BY <1>3, <1>4
  <2> QED
    BY <1>4, <1>5, <2>1
<1>7. IF scan.Ss = 0 THEN scan.Se = 0
      ELSE scan.Se \in scan.Ss .. 63 /\ Len(scan.comps) = 1
  BY <1>4
<1>8. \A ci \in InScan(scan) :
        /\ scan.Ss # 0 => SentLast(ci, 0) >= 0
        /\ \A k \in scan.Ss .. scan.Se : scan.Ah = IF SentLast(ci, k) < 0 THEN 0 ELSE SentLast(ci, k)
  BY <1>4
<1>9. scan.Al \in 0 .. 10
  BY <1>4
<1> QED
  BY <1>6, <1>7, <1>8, <1>9 DEF SentInOrder, scan, SentLast, MAX_AH_AL

\* The scans that reduce_script keeps are in order among themselves.
LEMMA ReducedInOrder ==
  ASSUME NEW s, NEW n \in Nat, NEW lim_Se \in Int, lim_Se >= 0, lim_Se <= 63,
         \A m \in 1 .. n : s[m] \in ScanInfo /\ SentInOrder(s, m, 63),
         NEW r, NEW f, KeptFrom(s, lim_Se, n, r, f), NEW i \in 1 .. Len(r)
  PROVE  SentInOrder(r, i, lim_Se)
<1> DEFINE h == f[i]
           x == s[h]
           y == r[i]
<1>1. h \in 1 .. n /\ x.Ss <= lim_Se /\ y = UpTo(x, lim_Se)
  BY DEF KeptFrom
<1>2. x \in ScanInfo /\ SentInOrder(s, h, 63)
  BY <1>1
<1>3. ASSUME NEW ci, NEW k \in Int, k <= lim_Se
      PROVE  LastBitpos(r, i, ci, k) = LastBitpos(s, h, ci, k)
  <2>1. \A m \in 1 .. n : s[m] \in ScanInfo
    OBVIOUS
  <2> HIDE DEF h
  <2>2. f[i] \in 1 .. n /\ LastBitpos(r, i, ci, k) = LastBitpos(s, f[i], ci, k)
    BY <1>3, <2>1, LastReduced, SMTT(60)
  <2> QED
    BY <2>2 DEF h
<1> HIDE DEF h
<1>4. /\ IF x.Ss = 0 THEN x.Se = 0 ELSE x.Se \in x.Ss .. 63 /\ Len(x.comps) = 1
      /\ x.Ah # 0 => x.Al = x.Ah - 1
      /\ x.Al \in 0 .. MAX_AH_AL
      /\ \A ci \in InScan(x) :
           /\ x.Ss # 0 => LastBitpos(s, h, ci, 0) >= 0
           /\ \A k \in x.Ss .. x.Se :
                x.Ah = IF LastBitpos(s, h, ci, k) < 0 THEN 0 ELSE LastBitpos(s, h, ci, k)
  BY <1>2 DEF SentInOrder
<1> HIDE DEF x, y
<1>5. /\ y.comps = x.comps /\ y.Ss = x.Ss /\ y.Ah = x.Ah /\ y.Al = x.Al
      /\ y.Se = IF x.Se > lim_Se THEN lim_Se ELSE x.Se
      /\ x.Ss \in Int /\ x.Se \in Int
  BY <1>1, <1>2, UpToFields
<1>6. IF y.Ss = 0 THEN y.Se = 0 ELSE y.Se \in y.Ss .. lim_Se /\ Len(y.comps) = 1
  BY <1>1, <1>4, <1>5
<1>7. InScan(y) = InScan(x)
  BY <1>5 DEF InScan
<1>8. y.Se \in Int /\ y.Se <= x.Se /\ y.Se <= lim_Se
  BY <1>5
<1>9. ASSUME NEW ci \in InScan(y)
      PROVE  /\ y.Ss # 0 => LastBitpos(r, i, ci, 0) >= 0
             /\ \A k \in y.Ss .. y.Se :
                  y.Ah = IF LastBitpos(r, i, ci, k) < 0 THEN 0 ELSE LastBitpos(r, i, ci, k)
  <2>1. y.Ss # 0 => LastBitpos(r, i, ci, 0) >= 0
    BY <1>3, <1>4, <1>5, <1>7
  <2>2. ASSUME NEW k \in y.Ss .. y.Se
        PROVE  y.Ah = IF LastBitpos(r, i, ci, k) < 0 THEN 0 ELSE LastBitpos(r, i, ci, k)
    <3>1. k \in Int /\ k <= lim_Se /\ k \in x.Ss .. x.Se
      BY <1>5, <1>8
    <3>2. LastBitpos(r, i, ci, k) = LastBitpos(s, h, ci, k)
      BY <1>3, <3>1
    <3> QED
      BY <1>4, <1>5, <1>7, <3>1, <3>2
  <2> QED
    BY <2>1, <2>2
<1> QED
  BY <1>4, <1>5, <1>6, <1>9 DEF SentInOrder, y

LEMMA ScriptInOrder ==
  ASSUME job \in AcceptedJobs, progressive_mode, NEW i \in 1 .. num_scans(J)
  PROVE  /\ J.script # << >> /\ IsProgressive(script(J)) /\ script(J) # << >>
         /\ SentInOrder(script(J), i, J.lim_Se)
<1> DEFINE s == J.script
           lim_Se == J.lim_Se
<1>1. s # << >> /\ IsProgressive(s)
  BY DEF progressive_mode, IsProgressive
<1>2. /\ s \in Seq(ScanInfo) /\ validate_script(s, Len(J.comps))
      /\ lim_Se \in Int /\ lim_Se >= 0 /\ lim_Se <= 63
  BY <1>1, JobTypes
<1>3. IsList(s) /\ Len(s) \in Nat /\ Len(s) >= 1 /\ DOMAIN s = 1 .. Len(s)
  BY <1>1, <1>2, ListOf
<1>4. \A m \in 1 .. Len(s) : s[m] \in ScanInfo /\ SentInOrder(s, m, 63)
  BY <1>1, <1>2, ElementOfSeq, ValidInOrder
<1>5. num_scans(J) = Len(script(J))
  BY <1>1 DEF num_scans
<1>6. CASE ~(lim_Se < 63)
  <2>1. script(J) = s /\ lim_Se = 63
    BY <1>2, <1>6 DEF script, DCTSIZE2
  <2> QED
    BY <1>1, <1>4, <1>5, <2>1
<1>7. CASE lim_Se < 63
  <2> DEFINE r == reduce_script(s, lim_Se)
  <2>1. script(J) = r
    BY <1>1, <1>7 DEF script, DCTSIZE2
  <2>2. \A n \in 1 .. Len(s) : s[n].Ss \in Int
    BY <1>4 DEF ScanInfo
  <2>3. PICK f : KeptFrom(s, lim_Se, Len(s), r, f)
    <3> HIDE DEF s, lim_Se
    <3> QED BY <1>2, <1>3, <2>2, ReduceKeeps
  <2> HIDE DEF r
  <2>4. s[1].Ss = 0
    BY <1>1, <1>2, FirstIsDc
  <2>5. IsList(r) /\ Len(r) \in Nat /\ Len(r) >= 1 /\ r # << >>
    <3>1. 1 \in 1 .. Len(s) /\ s[1].Ss <= lim_Se
      BY <1>2, <1>3, <2>4
    <3>2. IsList(r) /\ \E a \in 1 .. Len(r) : f[a] = 1
      BY <2>3, <3>1 DEF KeptFrom
    <3> QED
      BY <3>2, ListLen
  <2>6. ASSUME NEW a \in 1 .. Len(r)
        PROVE  SentInOrder(r, a, lim_Se)
    <3> HIDE DEF s, lim_Se
    <3> QED BY <1>2, <1>3, <1>4, <2>3, ReducedInOrder
  <2>7. IsProgressive(r)
    <3>1. 1 \in 1 .. Len(r)
      BY <2>5
    <3>2. SentInOrder(r, 1, lim_Se)
      BY <2>6, <3>1
    <3>3. r[1].Ss = 0 => r[1].Se = 0
      BY <3>2 DEF SentInOrder
    <3> QED
      BY <2>5, <3>3 DEF IsProgressive, DCTSIZE2
  <2> QED
    BY <1>1, <1>5, <2>1, <2>5, <2>6, <2>7
<1> QED
  BY <1>6, <1>7

LEMMA LenOf ==
  ASSUME NEW n \in Nat, NEW s, DOMAIN s = 1 .. n, s = [m \in 1 .. n |-> s[m]]
  PROVE  IsList(s) /\ Len(s) = n
<1> DEFINE R == {s[m] : m \in DOMAIN s}
<1>1. s \in [1 .. n -> R]
  OBVIOUS
<1> HIDE DEF R
<1>2. s \in Seq(R)
  BY <1>1, SeqDef
<1>3. Len(s) = n
  <2>1. Len(s) \in Nat /\ DOMAIN s = 1 .. Len(s)
    BY <1>2, ListOf
  <2> QED
    BY <2>1
<1> QED
  BY <1>2, <1>3, ListOf

\* The scans as they are in the file.
LEMMA ScansExpected ==
  ASSUME job \in AcceptedJobs, progressive_mode, NEW n \in 1 .. num_scans(J), NEW t,
         t = [m \in 1 .. n |-> ScanParameters(m - 1)]
  PROVE  ProgressionOk(ScanParameters(n - 1)) /\ ProgressionExpected(t)
<1> DEFINE R == script(J)
           lim_Se == J.lim_Se
<1>1. num_scans(J) \in Nat /\ n \in Nat /\ n >= 1
  BY ScansOk
<1>2. \A m \in 1 .. n : m \in 1 .. num_scans(J)
  BY <1>1
<1>3. \A m \in 1 .. n : /\ J.script # << >> /\ IsProgressive(script(J)) /\ script(J) # << >>
                        /\ SentInOrder(script(J), m, J.lim_Se)
  BY <1>2, ScriptInOrder
<1>4. SentInOrder(R, n, lim_Se)
  BY <1>1, <1>3
<1>5. ASSUME NEW m \in 1 .. n
      PROVE  /\ ScanParameters(m - 1).comps = R[m].comps /\ ScanParameters(m - 1).Ss = R[m].Ss
             /\ ScanParameters(m - 1).Se = R[m].Se /\ ScanParameters(m - 1).Ah = R[m].Ah
             /\ ScanParameters(m - 1).Al = R[m].Al /\ ScanParameters(m - 1).lim_Se = lim_Se
  <2>1. (m - 1) + 1 = m
    BY <1>1
  <2>2. select_scan_parameters(R, m - 1, num_components, lim_Se) = R[m]
    BY <1>3, <2>1 DEF select_scan_parameters
  <2> QED
    BY <2>2 DEF ScanParameters
<1>6. n \in 1 .. n /\ 1 .. n - 1 \subseteq 1 .. n
  BY <1>1
<1> DEFINE scan == ScanParameters(n - 1)
<1>7. /\ scan.comps = R[n].comps /\ scan.Ss = R[n].Ss /\ scan.Se = R[n].Se
      /\ scan.Ah = R[n].Ah /\ scan.Al = R[n].Al /\ scan.lim_Se = lim_Se
  BY <1>5, <1>6
<1>8. Len(t) = n /\ t[n] = scan
  BY <1>1, <1>6, LenOf
<1>9. \A m \in 1 .. n : t[m] = ScanParameters(m - 1)
  OBVIOUS
<1>10. ASSUME NEW ci, NEW k
       PROVE  LastBitpos(t, n, ci, k) = LastBitpos(R, n, ci, k)
  <2> DEFINE f == [a \in 1 .. n - 1 |-> a]
  <2>1. f \in [1 .. n - 1 -> 1 .. n - 1] /\ \A a, b \in 1 .. n - 1 : a < b => f[a] < f[b]
    OBVIOUS
  <2>2. ASSUME NEW a \in 1 .. n - 1
        PROVE  /\ t[a].Al = R[f[a]].Al
               /\ Covers(t[a], ci, k) <=> Covers(R[f[a]], ci, k)
    <3>1. a \in 1 .. n /\ f[a] = a
      BY <1>6
    <3>2. /\ t[a].comps = R[a].comps /\ t[a].Ss = R[a].Ss /\ t[a].Se = R[a].Se
          /\ t[a].Al = R[a].Al
      BY <1>5, <1>9, <3>1
    <3> HIDE DEF f, R
    <3>3. InScan(t[a]) = InScan(R[a])
      BY <3>2 DEF InScan
    <3>4. Covers(t[a], ci, k) <=> Covers(R[a], ci, k)
      BY <3>2, <3>3 DEF Covers
    <3> QED
      BY <3>1, <3>2, <3>4
  <2>3. \A m \in 1 .. n - 1 : Covers(R[m], ci, k) => \E a \in 1 .. n - 1 : f[a] = m
    OBVIOUS
  <2> HIDE DEF f, R
  <2>4. SameSenders(R, n, t, n, f, ci, k)
    BY <2>1, <2>2, <2>3 DEF SameSenders
  <2> QED
    BY <1>1, <2>4, SameLast
<1>11. InScan(scan) = InScan(R[n])
  BY <1>7 DEF InScan
<1> HIDE DEF R, lim_Se, scan
<1>12. ProgressionOk(scan)
  BY <1>4, <1>7 DEF SentInOrder, ProgressionOk, MAX_AH_AL
<1>13. ProgressionExpected(t)
  <2>1. \A ci \in InScan(scan) :
          /\ scan.Ss # 0 => LastBitpos(t, n, ci, 0) >= 0
          /\ \A k \in scan.Ss .. scan.Se :
               scan.Ah = IF LastBitpos(t, n, ci, k) < 0 THEN 0 ELSE LastBitpos(t, n, ci, k)
    BY <1>4, <1>7, <1>10, <1>11 DEF SentInOrder
  <2> QED
    BY <1>8, <2>1 DEF ProgressionExpected
<1> QED
  BY <1>12, <1>13 DEF scan

-----------------------------------------------------------------------------
(* The way through the file.                                                 *)

\* What is written of a file is what the decompressor expects.
LEMMA FileExpected ==
  ASSUME PassInv, FileInv, phase # "failed"
  PROVE  ProgressionInv /\ (phase = "written" => Len(file) = num_scans(J))
<1>1. /\ job \in AcceptedJobs /\ num_scans(J) \in Nat /\ progressive_mode \in BOOLEAN
      /\ phase \in {"encode", "written"}
  BY ScansOk DEF PassInv
<1>2. /\ Len(file) = master.scan_number
      /\ \A n \in 1 .. Len(file) : file[n].scan = ScanParameters(n - 1)
      /\ phase = "written" => master.scan_number = num_scans(J)
  BY DEF FileInv
<1>3. phase = "encode" => master.scan_number \in 0 .. num_scans(J) - 1
  BY DEF PassInv
<1>4. Len(file) \in Nat /\ Len(file) <= num_scans(J)
  BY <1>1, <1>2, <1>3
<1>5. ASSUME progressive_mode, NEW n \in 1 .. Len(file)
      PROVE  ProgressionOk(file[n].scan) /\ ProgressionExpected(ScansUpTo(n))
  <2>1. n \in 1 .. num_scans(J) /\ n \in Nat /\ \A m \in 1 .. n : m \in 1 .. Len(file)
    BY <1>1, <1>4
  <2>2. ScansUpTo(n) = [m \in 1 .. n |-> ScanParameters(m - 1)]
    BY <1>2, <2>1 DEF ScansUpTo
  <2>3. ProgressionOk(ScanParameters(n - 1)) /\ ProgressionExpected(ScansUpTo(n))
    BY <1>1, <1>5, <2>1, <2>2, ScansExpected
  <2> QED
    BY <1>2, <2>3
<1> QED
  BY <1>2, <1>5 DEF ProgressionInv

LEMMA CodingInitOk == CodingInit => CodingInv
<1> SUFFICES ASSUME CodingInit
             PROVE  CodingInv
  OBVIOUS
<1>1. /\ CompressInit /\ input = [state |-> "reading", scan |-> 1, started |-> FALSE]
      /\ dmcu = 0 /\ damage = NoDamage /\ phase = "encode"
  BY DEF CodingInit, CompressInit
<1>2. CompressorInv
  BY <1>1, InitOk
<1>3. num_scans(J) \in Nat /\ 1 \in 1 .. num_scans(J)
  BY <1>2, ScansOk DEF CompressorInv, PassInv
<1>4. PlaceInv
  BY <1>1, <1>3 DEF PlaceInv
<1>5. ProgressionInv
  BY <1>1, <1>2, FileExpected DEF CompressorInv
<1>6. FreshInv
  BY <1>1 DEF FreshInv, Reading
<1> QED
  BY <1>2, <1>4, <1>5, <1>6 DEF CodingInv

LEMMA CompressStepOk == CodingInv /\ CompressStep => CodingInv'
<1> SUFFICES ASSUME CodingInv, CompressStep
             PROVE  CodingInv'
  OBVIOUS
<1>1. /\ CompressorInv /\ PlaceInv /\ ProgressionInv /\ CompressNext
      /\ input' = input /\ dmcu' = dmcu /\ damage' = damage
  BY DEF CodingInv, CompressStep, decompressor
<1>2. CompressorInv'
  BY <1>1, CompressorStep
<1>3. /\ phase = "encode" /\ job' = job
      /\ phase' \in {"encode", "written"} \/ file' = file
  BY <1>1 DEF CompressNext, prepare_for_pass, EncodeMcu, finish_pass_master
<1>4. num_scans(J)' = num_scans(J) /\ progressive_mode' = progressive_mode
  BY <1>3, SameJob
<1>5. PlaceInv'
  BY <1>1, <1>3, <1>4 DEF PlaceInv
<1>6. FreshInv'
  BY <1>1, <1>3 DEF PlaceInv, FreshInv, Reading
<1>7. ProgressionInv'
  <2>1. CASE phase' \in {"encode", "written"}
    <3>1. phase' # "failed" /\ PassInv' /\ FileInv'
      BY <1>2, <2>1 DEF CompressorInv
    <3>2. (PassInv /\ FileInv /\ phase # "failed" => ProgressionInv)'
      BY FileExpected, PTL
    <3> QED
      BY <3>1, <3>2
  <2>2. CASE file' = file
    <3>1. \A n : ScansUpTo(n)' = ScansUpTo(n)
      BY <2>2 DEF ScansUpTo
    <3> QED
      BY <1>1, <1>4, <2>2, <3>1 DEF ProgressionInv
  <2> QED
    BY <1>3, <2>1, <2>2
<1> QED
  BY <1>2, <1>5, <1>6, <1>7 DEF CodingInv

\* Steps that leave the compressor alone.
LEMMA WhileReading ==
  ASSUME CodingInv, UNCHANGED compressor
  PROVE  /\ CompressorInv' /\ ProgressionInv' /\ job' = job /\ J' = J /\ file' = file
         /\ num_scans(J)' = num_scans(J) /\ progressive_mode' = progressive_mode
         /\ phase' = phase
         /\ \A n : ScansUpTo(n)' = ScansUpTo(n)
<1>1. CompressorInv /\ ProgressionInv /\ job' = job /\ file' = file /\ phase' = phase
  BY DEF CodingInv, compressor
<1>2. CompressorInv'
  BY <1>1, CompressorStep
<1>3. J' = J /\ num_scans(J)' = num_scans(J) /\ progressive_mode' = progressive_mode
  BY <1>1, SameJob
<1>4. \A n : ScansUpTo(n)' = ScansUpTo(n)
  BY <1>1 DEF ScansUpTo
<1>5. ProgressionInv'
  BY <1>1, <1>3, <1>4 DEF ProgressionInv
<1> QED
  BY <1>1, <1>2, <1>3, <1>4, <1>5

LEMMA SameStart ==
  ASSUME J' = J, file' = file, damage' = damage, input'.scan = input.scan
  PROVE  StartOfScan(input.scan)' = StartOfScan(input.scan)
<1>1. (Data(input.scan))' = Data(input.scan)
  BY DEF Data
<1> QED
  BY <1>1 DEF StartOfScan

LEMMA DamageOk == CodingInv /\ DamageData => CodingInv'
<1> SUFFICES ASSUME CodingInv, DamageData
             PROVE  CodingInv'
  OBVIOUS
<1>1. /\ UNCHANGED compressor /\ input' = input /\ dmcu' = dmcu
      /\ phase = "written" /\ ~input.started /\ PlaceInv
  BY DEF DamageData, Reading, decompressor, CodingInv
<1>2. /\ CompressorInv' /\ ProgressionInv' /\ phase' = phase
      /\ num_scans(J)' = num_scans(J)
  BY <1>1, WhileReading
<1>3. PlaceInv'
  BY <1>1, <1>2 DEF PlaceInv
<1>4. FreshInv'
  BY <1>1 DEF FreshInv
<1> QED
  BY <1>2, <1>3, <1>4 DEF CodingInv

\* Nothing is to be warned of at a scan's start.
LEMMA NoWarning ==
  ASSUME NEW r, r = [f \in DOMAIN r |-> r[f]], r.warned = FALSE
  PROVE  [r EXCEPT !.warned = FALSE] = r
OBVIOUS

\* The fields of a Huffman decoder between calls.
DecoderFields ==
  {"pos", "mark", "unread", "next", "warned", "insufficient", "EOBRUN", "last", "togo"}

LEMMA StartFields ==
  ASSUME J.arith \in BOOLEAN, NEW n
  PROVE  LET d == StartOfScan(n)
         IN  /\ d = [f \in DOMAIN d |-> d[f]] /\ d.warned = FALSE /\ d.togo = J.interval
             /\ ~J.arith => DOMAIN d = DecoderFields
<1>1. CASE J.arith
  <2> DEFINE d == ArithDec!start_pass(file[n].scan, Data(n), J.interval)
  <2>1. d = [f \in DOMAIN d |-> d[f]] /\ d.warned = FALSE /\ d.togo = J.interval
    BY DEF ArithDec!start_pass
  <2> QED
    BY <1>1, <2>1 DEF StartOfScan
<1>2. CASE ~J.arith
  <2> DEFINE d == start_pass_huff_decoder(file[n].scan, Data(n), J.interval)
  <2>1. /\ d = [f \in DOMAIN d |-> d[f]] /\ d.warned = FALSE /\ d.togo = J.interval
        /\ DOMAIN d = DecoderFields
    BY DEF start_pass_huff_decoder, DecoderFields
  <2> QED
    BY <1>2, <2>1 DEF StartOfScan
<1> QED
  BY <1>1, <1>2

LEMMA StartOk == CodingInv /\ start_input_pass => CodingInv'
<1> SUFFICES ASSUME CodingInv, start_input_pass
             PROVE  CodingInv'
  OBVIOUS
<1> DEFINE n == input.scan
           s == file[n]
           bogus == progressive_mode /\ ~ProgressionExpected(ScansUpTo(n))
           bad == progressive_mode /\ ~ProgressionOk(s.scan)
<1>1. /\ CompressorInv /\ PlaceInv /\ ProgressionInv /\ Reading /\ ~input.started
      /\ UNCHANGED compressor /\ damage' = damage /\ dmcu' = 0
      /\ decoder' = [StartOfScan(n) EXCEPT !.warned = bogus]
      /\ input' = [input EXCEPT !.started = TRUE, !.state = IF bad THEN "failed" ELSE @]
  BY DEF CodingInv, start_input_pass
<1>2. /\ CompressorInv' /\ ProgressionInv' /\ phase' = phase /\ J' = J /\ file' = file
      /\ num_scans(J)' = num_scans(J)
  BY <1>1, WhileReading
<1>3. /\ phase = "written" /\ input.state = "reading"
      /\ DOMAIN input = {"state", "scan", "started"} /\ n \in 1 .. num_scans(J)
  BY <1>1 DEF Reading, PlaceInv
<1>4. n \in 1 .. Len(file)
  BY <1>1, <1>3, FileExpected DEF CompressorInv
<1>5. bogus = FALSE /\ bad = FALSE
  BY <1>1, <1>4 DEF ProgressionInv
<1>6. J.arith \in BOOLEAN
  BY <1>1, JobTypes DEF CompressorInv, PassInv
<1>7. decoder' = StartOfScan(n)
  <2> DEFINE r == StartOfScan(n)
  <2>1. r = [f \in DOMAIN r |-> r[f]] /\ r.warned = FALSE
    BY <1>6, StartFields
  <2> HIDE DEF r, bogus
  <2>2. [r EXCEPT !.warned = FALSE] = r
    BY <2>1, NoWarning
  <2>3. decoder' = [r EXCEPT !.warned = bogus]
    BY <1>1 DEF r
  <2> QED
    BY <1>5, <2>2, <2>3 DEF r
<1> HIDE DEF bad, bogus
<1>8. /\ DOMAIN input' = {"state", "scan", "started"} /\ input'.scan = n
      /\ input'.started = TRUE /\ input'.state = "reading"
  BY <1>1, <1>3, <1>5
<1>9. PlaceInv'
  BY <1>1, <1>2, <1>3, <1>8 DEF PlaceInv
<1>10. FreshInv'
  <2>1. StartOfScan(input.scan)' = StartOfScan(n)
    BY <1>1, <1>2, <1>8, SameStart
  <2> QED
    BY <1>7, <2>1 DEF FreshInv
<1> QED
  BY <1>2, <1>9, <1>10 DEF CodingInv

\* A call that is given up leaves the decoder as it was, unless a restart marker
\* was due.
LEMMA GivenUp ==
  ASSUME NEW d, NEW in, NEW blocks, NEW tables, NEW scan, NEW progressive, NEW interval,
         d = [f \in DOMAIN d |-> d[f]], DOMAIN d = DecoderFields,
         interval = 0 \/ d.togo # 0,
         ~decode_next_mcu(d, in, blocks, tables, scan, progressive, interval).ok
  PROVE  decode_next_mcu(d, in, blocks, tables, scan, progressive, interval).d = d
<1> DEFINE r == AtWork(d)
           w == DecodeWork(in, r, blocks, tables, scan, progressive)
           kept == [f \in DOMAIN d |-> IF w.ok THEN w[f] ELSE r[f]]
<1>1. r.togo = d.togo /\ \A f \in DOMAIN d : r[f] = d[f]
  BY DEF AtWork, DecoderFields
<1> HIDE DEF r
<1>2. ~(interval # 0 /\ r.togo = 0)
  BY <1>1
<1>3. decode_next_mcu(d, in, blocks, tables, scan, progressive, interval) =
        [ok |-> w.ok, blocks |-> w.blocks,
         d |-> IF w.ok /\ interval # 0 THEN [kept EXCEPT !.togo = @ - 1] ELSE kept]
  BY <1>2 DEF decode_next_mcu, r
<1> HIDE DEF w
<1>4. ~w.ok
  BY <1>3
<1>5. kept = d
  BY <1>1, <1>4
<1> QED
  BY <1>3, <1>4, <1>5

LEMMA DecodeOk == CodingInv /\ DecodeMcu => CodingInv'
<1> SUFFICES ASSUME CodingInv, DecodeMcu
             PROVE  CodingInv'
  OBVIOUS
<1> DEFINE n == input.scan
           scan == file[n].scan
           data == Data(n)
           blocks == McuToDecode(scan, dmcu)
<1>1. /\ PlaceInv /\ FreshInv /\ Reading /\ input.started /\ UNCHANGED compressor
      /\ input' = input /\ damage' = damage
      /\ \E cut : Decoded(McuDecoded(scan, data, blocks, cut),
                          per_scan_setup(J.comps, scan, dmcu))
  BY DEF CodingInv, DecodeMcu
<1>2. /\ CompressorInv' /\ ProgressionInv' /\ phase' = phase /\ J' = J /\ file' = file
      /\ num_scans(J)' = num_scans(J)
  BY <1>1, WhileReading
<1>3. phase = "written" /\ dmcu \in Nat
  BY <1>1 DEF Reading, PlaceInv
<1>4. J.arith \in BOOLEAN
  BY JobTypes DEF CodingInv, CompressorInv, PassInv
<1>5. PICK cut : Decoded(McuDecoded(scan, data, blocks, cut),
                         per_scan_setup(J.comps, scan, dmcu))
  BY <1>1
<1> DEFINE r == McuDecoded(scan, data, blocks, cut)
<1>6. decoder' = r.d /\ dmcu' = IF r.ok THEN dmcu + 1 ELSE dmcu
  BY <1>5 DEF Decoded
<1>7. PlaceInv'
  <2> HIDE DEF r
  <2>1. dmcu' \in Nat
    BY <1>3, <1>6
  <2> QED
    BY <1>1, <1>2, <1>3, <2>1 DEF PlaceInv
<1>8. ASSUME dmcu' = 0
      PROVE  decoder' = StartOfScan(n)
  <2>1. ~r.ok /\ dmcu = 0
    <3> HIDE DEF r
    <3> QED BY <1>3, <1>6, <1>8
  <2>2. decoder = StartOfScan(n)
    BY <1>1, <2>1 DEF FreshInv
  <2>3. /\ decoder = [f \in DOMAIN decoder |-> decoder[f]] /\ decoder.togo = J.interval
        /\ ~J.arith => DOMAIN decoder = DecoderFields
    BY <1>4, <2>2, StartFields
  <2>4. CASE J.arith
    <3>1. r = ArithDec!decode_next_mcu(decoder, data, blocks, scan, progressive_mode,
                                       J.interval)
      BY <2>4 DEF McuDecoded
    <3> HIDE DEF r, data, blocks, scan
    <3>2. r.ok = TRUE
      BY <3>1 DEF ArithDec!decode_next_mcu
    <3> QED
      BY <2>1, <3>2
  <2>5. CASE ~J.arith
    <3> DEFINE in == [data |-> data, cut |-> cut]
    <3>1. r = decode_next_mcu(decoder, in, blocks, dtables, scan, progressive_mode, J.interval)
      BY <2>5 DEF McuDecoded
    <3> HIDE DEF r, in, blocks, scan
    <3>2. J.interval = 0 \/ decoder.togo # 0
      BY <2>3
    <3>3. r.d = decoder
      BY <2>1, <2>3, <2>5, <3>1, <3>2, GivenUp
    <3> QED
      BY <1>6, <2>2, <3>3
  <2> QED
    BY <1>4, <2>4, <2>5
<1>9. FreshInv'
  <2>1. StartOfScan(input.scan)' = StartOfScan(n)
    BY <1>1, <1>2, SameStart
  <2> QED
    BY <1>8, <2>1 DEF FreshInv
<1> QED
  BY <1>2, <1>7, <1>9 DEF CodingInv

LEMMA FinishReadingOk == CodingInv /\ finish_input_pass => CodingInv'
<1> SUFFICES ASSUME CodingInv, finish_input_pass
             PROVE  CodingInv'
  OBVIOUS
<1>1. /\ CompressorInv /\ PlaceInv /\ ScanRead /\ UNCHANGED compressor /\ dmcu' = dmcu
      /\ input' = IF input.scan = Len(file) THEN [input EXCEPT !.state = "done"]
                  ELSE [input EXCEPT !.scan = @ + 1, !.started = FALSE]
  BY DEF CodingInv, finish_input_pass
<1>2. /\ CompressorInv' /\ ProgressionInv' /\ phase' = phase
      /\ num_scans(J)' = num_scans(J)
  BY <1>1, WhileReading
<1>3. /\ phase = "written" /\ input.state = "reading" /\ input.started
      /\ DOMAIN input = {"state", "scan", "started"} /\ input.started \in BOOLEAN
      /\ input.scan \in 1 .. num_scans(J) /\ dmcu \in Nat
  BY <1>1 DEF ScanRead, Reading, PlaceInv
<1>4. Len(file) = num_scans(J) /\ num_scans(J) \in Nat
  BY <1>1, <1>3, FileExpected, ScansOk DEF CompressorInv, PassInv
<1>5. CASE input.scan = Len(file)
  <2>1. /\ DOMAIN input' = {"state", "scan", "started"} /\ input'.state = "done"
        /\ input'.scan = input.scan /\ input'.started = input.started
    BY <1>1, <1>3, <1>5
  <2>2. PlaceInv'
    BY <1>1, <1>2, <1>3, <1>4, <1>5, <2>1 DEF PlaceInv
  <2>3. FreshInv'
    BY <2>1 DEF FreshInv, Reading
  <2> QED
    BY <1>2, <2>2, <2>3 DEF CodingInv
<1>6. CASE input.scan # Len(file)
  <2>1. /\ DOMAIN input' = {"state", "scan", "started"} /\ input'.state = "reading"
        /\ input'.scan = input.scan + 1 /\ input'.started = FALSE
    BY <1>1, <1>3, <1>6
  <2>2. input.scan + 1 \in 1 .. num_scans(J)
    BY <1>3, <1>4, <1>6
  <2>3. PlaceInv'
    BY <1>1, <1>2, <1>3, <2>1, <2>2 DEF PlaceInv
  <2>4. FreshInv'
    BY <2>1 DEF FreshInv
  <2> QED
    BY <1>2, <2>3, <2>4 DEF CodingInv
<1> QED
  BY <1>5, <1>6

\* The invariant of the compressor and of the decompressor's way through the
\* file, for every sequence of jobs: every script validate_script accepts is one
\* the decompressor takes and expects, scan by scan (jcmaster.c, jdhuff.c).
THEOREM CodingInvariant == CodingSpec => []CodingInv
<1>1. CodingInv /\ [CodingNext]_codingVars => CodingInv'
  <2> SUFFICES ASSUME CodingInv, [CodingNext]_codingVars
               PROVE  CodingInv'
    OBVIOUS
  <2>1. CASE CodingNext
    BY <2>1, CompressStepOk, DamageOk, StartOk, DecodeOk, FinishReadingOk DEF CodingNext
  <2>2. CASE UNCHANGED codingVars
    <3>1. /\ UNCHANGED compressor /\ input' = input /\ dmcu' = dmcu /\ decoder' = decoder
          /\ damage' = damage /\ PlaceInv /\ FreshInv
      BY <2>2 DEF codingVars, decompressor, CodingInv
    <3>2. /\ CompressorInv' /\ ProgressionInv' /\ phase' = phase /\ J' = J /\ file' = file
          /\ num_scans(J)' = num_scans(J)
      BY <3>1, WhileReading
    <3>3. StartOfScan(input.scan)' = StartOfScan(input.scan)
      BY <3>1, <3>2, SameStart
    <3>4. PlaceInv'
      BY <3>1, <3>2 DEF PlaceInv
    <3>5. FreshInv'
      BY <3>1, <3>2, <3>3 DEF FreshInv, Reading
    <3> QED
      BY <3>2, <3>4, <3>5 DEF CodingInv
  <2> QED
    BY <2>1, <2>2
<1> QED
  BY CodingInitOk, <1>1, PTL DEF CodingSpec

\* No accepted script makes the decompressor give up, and the first MCU of a scan
\* starts without a warning.
THEOREM AcceptedScriptsDecode ==
  CodingSpec => [](/\ input.state # "failed"
                   /\ Reading /\ input.started /\ dmcu = 0 => ~decoder.warned)
<1>1. CodingInv => /\ input.state # "failed"
                   /\ Reading /\ input.started /\ dmcu = 0 => ~decoder.warned
  <2> SUFFICES ASSUME CodingInv
               PROVE  /\ input.state # "failed"
                      /\ Reading /\ input.started /\ dmcu = 0 => ~decoder.warned
    OBVIOUS
  <2>1. input.state # "failed"
    BY DEF CodingInv, PlaceInv
  <2>2. J.arith \in BOOLEAN
    BY JobTypes DEF CodingInv, CompressorInv, PassInv
  <2>3. Reading /\ input.started /\ dmcu = 0 => ~decoder.warned
    BY <2>2, StartFields DEF CodingInv, FreshInv
  <2> QED
    BY <2>1, <2>3
<1> QED
  BY CodingInvariant, <1>1, PTL

-----------------------------------------------------------------------------
(* Restart markers. A scan's markers are numbered in their order. While what *)
(* arrives is at most two behind or ahead of the number that comes next, a   *)
(* marker and the one expected differ by two at most and are told apart      *)
(* modulo 8, so that the reader stays in step with the encoder.              *)

LEMMA LeastOf ==
  ASSUME NEW n \in Nat, NEW S \in SUBSET (0 .. n), S # {}
  PROVE  Min(S) \in S /\ \A x \in S : Min(S) <= x
<1>1. \E x \in S : \A y \in S : x <= y
  <2> SUFFICES ASSUME ~\E x \in S : \A y \in S : x <= y
               PROVE  FALSE
    OBVIOUS
  <2> DEFINE A == {i \in 0 .. n + 1 : \A x \in S : i <= x}
  <2>1. \A x \in S : x \in 0 .. n
    OBVIOUS
  <2>2. 0 \in A
    BY <2>1
  <2>3. ASSUME NEW i \in 0 .. n + 1, i < n + 1, i \in A
        PROVE  i + 1 \in A
    <3>1. i \notin S
      BY <2>3
    <3>2. \A x \in S : i <= x /\ x # i /\ x \in Int
      BY <2>1, <2>3, <3>1
    <3>3. \A x \in S : i + 1 <= x
      BY <3>2
    <3> QED
      BY <2>3, <3>3
  <2>4. n + 1 \in A
    <3> HIDE DEF A
    <3>1. 0 .. n + 1 \subseteq A
      BY <2>2, <2>3, UpTheInterval
    <3> QED
      BY <3>1
  <2>5. PICK x \in S : TRUE
    OBVIOUS
  <2> QED
    BY <2>1, <2>4, <2>5
<1>2. PICK x \in S : \A y \in S : x <= y
  BY <1>1
<1>3. \A z \in S : (\A y \in S : z <= y) => z = x
  BY <1>2
<1>4. Min(S) = x
  BY <1>2, <1>3 DEF Min
<1> QED
  BY <1>2, <1>4

\* Markers and their numbers. num tells which of the restart markers of the
\* scan, counted from 0, a marker of the data is: the scan's markers in their
\* order, of which some were lost, two in a row at most, and others come again,
\* the last two before at most. After them comes the marker that ends the scan.
IsRestart(data, q) == data[q] \in M_RST0 .. M_RST7
Foretold(data, num, q, n) ==
  /\ \A p \in 1 .. q - 1 : IsRestart(data, p) => num[p] < n
  /\ n = 0 \/ \E p \in 1 .. q - 1 : IsRestart(data, p) /\ num[p] = n - 1
Paced(data, num) ==
  /\ IsList(data) /\ Len(data) > 0 /\ \A p \in 1 .. Len(data) : data[p] \in Nat
  /\ data[Len(data)] >= M_SOF0 /\ ~IsRestart(data, Len(data))
  /\ \A q \in 1 .. Len(data) - 1 : data[q] >= 256 => IsRestart(data, q)
  /\ \A q \in 1 .. Len(data) : IsRestart(data, q) =>
       /\ num[q] \in Nat /\ data[q] = M_RST0 + (num[q] % 8)
       /\ \A n \in Nat : Foretold(data, num, q, n) =>
            num[q] >= n - 2 /\ num[q] <= n + 2

\* The marker at or after p, p itself or what follows a passed marker.
FirstFrom(data, p, q) ==
  q \in p .. Len(data) /\ data[q] >= 256 /\ \A i \in p .. q - 1 : data[i] < 256

\* The reader expects restart marker n, has passed none of its number or more,
\* and the marker it finds next is so near that the two are not confused.
InStep(r, data, num, n) ==
  /\ r.next = n % 8
  /\ r.mark \in 1 .. Len(data) /\ data[r.mark] >= 256
  /\ \A p \in 1 .. r.mark - 1 : IsRestart(data, p) => num[p] < n
  /\ IsRestart(data, r.mark) =>
       /\ num[r.mark] >= n - 2 /\ num[r.mark] <= n + 2
       /\ num[r.mark] < n => Foretold(data, num, r.mark, n)

\* Where segment n is looked for: at the first marker numbered n or more, or at
\* the end of the scan.
ComesAt(data, num, n, m) ==
  /\ m \in 1 .. Len(data) /\ data[m] >= 256
  /\ IsRestart(data, m) => num[m] >= n
  /\ \A p \in 1 .. m - 1 : IsRestart(data, p) => num[p] < n

LEMMA NextMarkerIs ==
  ASSUME NEW data, NEW num, Paced(data, num), NEW p \in 1 .. Len(data)
  PROVE  FirstFrom(data, p, next_marker(data, p))
<1> DEFINE S == {q \in p .. Len(data) : data[q] >= 256}
<1>1. Len(data) \in Nat /\ data[Len(data)] >= 256
  BY LenOf DEF Paced, M_SOF0
<1>2. S \in SUBSET (0 .. Len(data)) /\ Len(data) \in S
  BY <1>1
<1>3. Min(S) \in S /\ \A x \in S : Min(S) <= x
  BY <1>1, <1>2, LeastOf
<1>4. \A i \in p .. Min(S) - 1 : data[i] < 256
  <2> SUFFICES ASSUME NEW i \in p .. Min(S) - 1
               PROVE  data[i] < 256
    OBVIOUS
  <2>1. i \in 1 .. Len(data) /\ i < Min(S)
    BY <1>1, <1>3
  <2>2. data[i] \in Nat
    BY <2>1 DEF Paced
  <2> QED
    BY <2>1, <2>2, <1>3
<1> QED
  BY <1>3, <1>4 DEF next_marker, FirstFrom

\* What resync_to_restart does with a marker of the scan that is k away.
LEMMA NearMarkers ==
  ASSUME NEW n \in Nat, NEW x \in Nat, x >= n - 2, x <= n + 2
  PROVE  /\ ResyncAction(M_RST0 + (x % 8), n % 8) =
              IF x < n THEN 2 ELSE IF x = n THEN 1 ELSE 3
         /\ M_RST0 + (x % 8) = M_RST0 + (n % 8) <=> x = n
<1> DEFINE d == n % 8
           e == x % 8
<1>1. d \in 0 .. 7 /\ e \in 0 .. 7
  OBVIOUS
<1>2. /\ (d + 1) % 8 = (IF d = 7 THEN 0 ELSE d + 1)
      /\ (d + 2) % 8 = (IF d >= 6 THEN d - 6 ELSE d + 2)
      /\ (d - 1) % 8 = (IF d = 0 THEN 7 ELSE d - 1)
      /\ (d - 2) % 8 = (IF d <= 1 THEN d + 6 ELSE d - 2)
  <2> HIDE DEF d
  <2> QED BY <1>1
<1>3. /\ x = n => e = d
      /\ x = n + 1 => e = (IF d = 7 THEN 0 ELSE d + 1)
      /\ x = n + 2 => e = (IF d >= 6 THEN d - 6 ELSE d + 2)
      /\ x = n - 1 => e = (IF d = 0 THEN 7 ELSE d - 1)
      /\ x = n - 2 => e = (IF d <= 1 THEN d + 6 ELSE d - 2)
  OBVIOUS
<1>4. x = n \/ x = n + 1 \/ x = n + 2 \/ x = n - 1 \/ x = n - 2
  OBVIOUS
<1> HIDE DEF d, e
<1> DEFINE a == (d + 1) % 8
           b == (d + 2) % 8
           f == (d - 1) % 8
           g == (d - 2) % 8
           mk == M_RST0 + e
<1>5. /\ x > n => e = a \/ e = b
      /\ x < n => (e = f \/ e = g) /\ e # a /\ e # b
      /\ x = n => e = d /\ e # a /\ e # b /\ e # f /\ e # g
      /\ x # n => e # d
      /\ x > n => e # f /\ e # g
  <2> HIDE DEF a, b, f, g
  <2>1. /\ a = (IF d = 7 THEN 0 ELSE d + 1)
        /\ b = (IF d >= 6 THEN d - 6 ELSE d + 2)
        /\ f = (IF d = 0 THEN 7 ELSE d - 1)
        /\ g = (IF d <= 1 THEN d + 6 ELSE d - 2)
    BY <1>2 DEF a, b, f, g
  <2> QED
    BY <2>1, <1>1, <1>3, <1>4
<1>6. /\ mk - M_RST0 = e /\ ~(mk < M_SOF0) /\ mk \in M_RST0 .. M_RST7
      /\ (mk = M_RST0 + d <=> e = d)
  BY <1>1 DEF M_RST0, M_RST7, M_SOF0
<1>7. ResyncAction(mk, d) =
        CASE e \in {a, b} -> 3 [] e \in {f, g} -> 2 [] OTHER -> 1
  BY <1>6 DEF ResyncAction
<1> HIDE DEF a, b, f, g, mk
<1>8. ResyncAction(mk, d) = IF x < n THEN 2 ELSE IF x = n THEN 1 ELSE 3
  <2>1. CASE x < n
    BY <2>1, <1>5, <1>7
  <2>2. CASE x = n
    BY <2>2, <1>5, <1>7
  <2>3. CASE x > n
    BY <2>3, <1>5, <1>7
  <2> QED BY <2>1, <2>2, <2>3
<1>9. mk = M_RST0 + d <=> x = n
  BY <1>5, <1>6
<1> QED
  BY <1>8, <1>9 DEF mk, d, e

\* The reader after read_restart_marker, for the marker m where the segment is
\* looked for: at the segment, or at m with nothing to read up to it.
IsReader(r) ==
  /\ {"pos", "mark", "unread", "next", "warned"} \subseteq DOMAIN r
  /\ r = [f \in DOMAIN r |-> r[f]]
Found(s, data, num, n, m) ==
  /\ s.next = (n + 1) % 8
  /\ IF IsRestart(data, m) /\ num[m] = n
     THEN s.pos = m + 1 /\ s.unread = FALSE /\ FirstFrom(data, m + 1, s.mark)
     ELSE s.pos = m /\ s.mark = m /\ s.unread = TRUE

LEMMA MarkersAre ==
  ASSUME NEW data, NEW num, Paced(data, num), NEW q \in 1 .. Len(data), data[q] >= 256
  PROVE  \/ q # Len(data) /\ IsRestart(data, q) /\ num[q] \in Nat
            /\ data[q] = M_RST0 + (num[q] % 8)
         \/ q = Len(data) /\ ~IsRestart(data, q)
            /\ \A d : ResyncAction(data[q], d) = 3
<1>1. Len(data) \in Nat
  BY LenOf DEF Paced
<1>2. CASE q # Len(data)
  <2>1. q \in 1 .. Len(data) - 1
    BY <1>1, <1>2
  <2> QED
    BY <1>2, <2>1 DEF Paced
<1>3. CASE q = Len(data)
  <2>1. data[q] \in Nat /\ data[q] >= M_SOF0 /\ ~IsRestart(data, q)
    BY <1>3 DEF Paced
  <2>2. \A d : ResyncAction(data[q], d) = 3
    BY <2>1 DEF ResyncAction, IsRestart, M_SOF0
  <2> QED
    BY <1>3, <2>1, <2>2
<1> QED
  BY <1>2, <1>3

\* The first marker at or after the mark that is not skipped is that of the
\* segment, and it is the segment's own only if it is discarded.
LEMMA ResyncFinds ==
  ASSUME NEW data, NEW num, Paced(data, num), NEW n \in Nat, NEW r, InStep(r, data, num, n)
  PROVE  \E m \in r.mark .. Len(data) :
           /\ ComesAt(data, num, n, m)
           /\ IsRestart(data, m) => num[m] <= n + 2
           /\ \A q \in r.mark .. m - 1 :
                data[q] >= 256 => ResyncAction(data[q], r.next) = 2
           /\ IF IsRestart(data, m) /\ num[m] = n
              THEN ResyncAction(data[m], r.next) = 1
              ELSE ResyncAction(data[m], r.next) = 3
<1> DEFINE S == {q \in r.mark .. Len(data) : data[q] >= 256 /\ (IsRestart(data, q) => num[q] >= n)}
           m == Min(S)
<1>1. Len(data) \in Nat /\ r.mark \in 1 .. Len(data) /\ data[r.mark] >= 256 /\ r.next = n % 8
  BY LenOf DEF Paced, InStep
<1>2. S \in SUBSET (0 .. Len(data)) /\ Len(data) \in S
  BY <1>1, MarkersAre DEF Paced, M_SOF0
<1>3. m \in S /\ \A x \in S : m <= x
  BY <1>1, <1>2, LeastOf
<1> HIDE DEF m
<1>4. \A q \in r.mark .. m - 1 : data[q] >= 256 => IsRestart(data, q) /\ num[q] < n
  <2> SUFFICES ASSUME NEW q \in r.mark .. m - 1, data[q] >= 256
               PROVE  IsRestart(data, q) /\ num[q] < n
    OBVIOUS
  <2>1. q \in r.mark .. Len(data) /\ q \in 1 .. Len(data) /\ q < m
    BY <1>1, <1>3
  <2>2. IsRestart(data, q) => num[q] \in Nat
    BY <2>1, MarkersAre
  <2>3. ~(IsRestart(data, q) => num[q] >= n)
    BY <2>1, <1>3
  <2> QED
    BY <2>2, <2>3
<1>5. \A p \in 1 .. m - 1 : IsRestart(data, p) => num[p] < n
  <2> SUFFICES ASSUME NEW p \in 1 .. m - 1, IsRestart(data, p)
               PROVE  num[p] < n
    OBVIOUS
  <2>1. p \in 1 .. r.mark - 1 \/ p \in r.mark .. m - 1
    BY <1>1, <1>3
  <2>2. data[p] >= 256
    BY DEF IsRestart, M_RST0
  <2> QED
    BY <1>4, <2>1, <2>2 DEF InStep
<1>6. ComesAt(data, num, n, m)
  BY <1>1, <1>3, <1>5 DEF ComesAt
\* What was passed over shows that restart n is the next one due.
<1>7. m # r.mark => Foretold(data, num, r.mark, n) /\ IsRestart(data, r.mark)
  <2> SUFFICES ASSUME m # r.mark
               PROVE  Foretold(data, num, r.mark, n) /\ IsRestart(data, r.mark)
    OBVIOUS
  <2>1. r.mark \in r.mark .. m - 1
    BY <1>1, <1>3
  <2> QED
    BY <1>1, <1>4, <2>1 DEF InStep
<1>8. \A q \in r.mark .. m : IsRestart(data, q) => num[q] >= n - 2 /\ num[q] <= n + 2
  <2> SUFFICES ASSUME NEW q \in r.mark .. m, IsRestart(data, q)
               PROVE  num[q] >= n - 2 /\ num[q] <= n + 2
    OBVIOUS
  <2>1. CASE q = r.mark
    BY <2>1 DEF InStep
  <2>2. CASE q # r.mark
    <3>1. m # r.mark /\ q \in 1 .. Len(data)
      BY <1>1, <1>3, <2>2
    <3>2. 1 .. q - 1 \subseteq 1 .. m - 1 /\ 1 .. r.mark - 1 \subseteq 1 .. q - 1
      BY <1>1, <1>3
    <3>3. Foretold(data, num, q, n)
      BY <3>1, <3>2, <1>5, <1>7 DEF Foretold
    <3> QED
      BY <3>1, <3>3 DEF Paced
  <2> QED BY <2>1, <2>2
<1>9. \A q \in r.mark .. m - 1 : data[q] >= 256 => ResyncAction(data[q], r.next) = 2
  <2> SUFFICES ASSUME NEW q \in r.mark .. m - 1, data[q] >= 256
               PROVE  ResyncAction(data[q], r.next) = 2
    OBVIOUS
  <2>1. q \in 1 .. Len(data) /\ q \in r.mark .. m
    BY <1>1, <1>3
  <2>2. IsRestart(data, q) /\ num[q] < n /\ num[q] \in Nat
        /\ data[q] = M_RST0 + (num[q] % 8) /\ num[q] >= n - 2 /\ num[q] <= n + 2
    BY <2>1, <1>4, <1>8, MarkersAre
  <2> DEFINE x == num[q]
  <2> HIDE DEF x
  <2>3. ResyncAction(M_RST0 + (x % 8), n % 8) = 2
    BY <2>2, NearMarkers DEF x
  <2> QED
    BY <2>2, <2>3, <1>1 DEF x
<1>10. m \in r.mark .. m /\ m \in 1 .. Len(data) /\ data[m] >= 256
  BY <1>1, <1>3
<1>11. CASE ~IsRestart(data, m)
  BY <1>3, <1>6, <1>9, <1>10, <1>11, MarkersAre
<1>12. CASE IsRestart(data, m)
  <2> DEFINE x == num[m]
  <2>1. x \in Nat /\ x >= n - 2 /\ x <= n + 2 /\ data[m] = M_RST0 + (x % 8) /\ x >= n
    BY <1>3, <1>8, <1>10, <1>12, MarkersAre
  <2> HIDE DEF x
  <2>2. ResyncAction(M_RST0 + (x % 8), n % 8) = IF x = n THEN 1 ELSE 3
    BY <2>1, NearMarkers
  <2> QED
    BY <2>1, <2>2, <1>1, <1>3, <1>6, <1>9, <1>12 DEF x
<1> QED
  BY <1>11, <1>12

\* What read_restart_marker makes of the reader.
LEMMA SegmentFound ==
  ASSUME NEW data, NEW num, Paced(data, num), NEW n \in Nat,
         NEW r, IsReader(r), InStep(r, data, num, n)
  PROVE  \E m \in r.mark .. Len(data) :
           /\ ComesAt(data, num, n, m)
           /\ IsRestart(data, m) => num[m] <= n + 2
           /\ Found(read_restart_marker(r, data), data, num, n, m)
<1> DEFINE s == read_restart_marker(r, data)
<1>1. PICK m \in r.mark .. Len(data) :
           /\ ComesAt(data, num, n, m)
           /\ IsRestart(data, m) => num[m] <= n + 2
           /\ \A q \in r.mark .. m - 1 :
                data[q] >= 256 => ResyncAction(data[q], r.next) = 2
           /\ IF IsRestart(data, m) /\ num[m] = n
              THEN ResyncAction(data[m], r.next) = 1
              ELSE ResyncAction(data[m], r.next) = 3
  BY ResyncFinds
<1>2. Len(data) \in Nat /\ r.mark \in 1 .. Len(data) /\ data[r.mark] >= 256 /\ r.next = n % 8
      /\ m \in 1 .. Len(data) /\ data[m] >= 256
  BY <1>1, LenOf DEF Paced, InStep, ComesAt
<1>3. ((n % 8) + 1) % 8 = (n + 1) % 8
  OBVIOUS
<1>4. ASSUME IsRestart(data, m), num[m] = n
      PROVE  m + 1 \in 1 .. Len(data) /\ FirstFrom(data, m + 1, next_marker(data, m + 1))
  <2>1. m # Len(data)
    BY <1>4 DEF Paced
  <2>2. m + 1 \in 1 .. Len(data)
    BY <1>2, <2>1
  <2> DEFINE p == m + 1
  <2> HIDE DEF p
  <2>3. p \in 1 .. Len(data) => FirstFrom(data, p, next_marker(data, p))
    BY NextMarkerIs
  <2> QED
    BY <2>2, <2>3 DEF p
<1>5. CASE data[r.mark] = M_RST0 + r.next
  \* The marker that was expected.
  <2>1. IsRestart(data, r.mark)
    <3>1. n % 8 \in 0 .. 7
      OBVIOUS
    <3> DEFINE e == n % 8
    <3> HIDE DEF e
    <3>2. e \in 0 .. 7 /\ data[r.mark] = M_RST0 + e
      BY <3>1, <1>2, <1>5 DEF e
    <3> QED
      BY <3>2 DEF IsRestart, M_RST0, M_RST7
  <2> DEFINE x == num[r.mark]
  <2>2. x \in Nat /\ data[r.mark] = M_RST0 + (x % 8) /\ x >= n - 2 /\ x <= n + 2
    BY <1>2, <2>1, MarkersAre DEF InStep
  <2> HIDE DEF x
  <2>3. x = n
    BY <1>2, <1>5, <2>2, NearMarkers
  <2>4. m = r.mark
    <3>1. r.mark \notin 1 .. m - 1
      BY <2>1, <2>3, <1>1 DEF ComesAt, x
    <3> QED
      BY <3>1, <1>1, <1>2
  <2>5. s.pos = m + 1 /\ s.unread = FALSE /\ s.mark = next_marker(data, m + 1)
        /\ s.next = (r.next + 1) % 8
    BY <1>5, <2>4 DEF read_restart_marker, IsReader
  <2> HIDE DEF s
  <2>6. Found(s, data, num, n, m)
    BY <1>2, <1>3, <1>4, <2>1, <2>3, <2>4, <2>5 DEF Found, x
  <2> QED
    BY <1>1, <2>6 DEF s
<1>6. CASE data[r.mark] # M_RST0 + r.next
  <2> DEFINE S == {q \in r.mark .. Len(data) : data[q] >= 256 /\ ResyncAction(data[q], r.next) # 2}
  <2>1. m \in S
    BY <1>1, <1>2
  <2>2. \A q \in S : m <= q
    BY <1>1, <1>2
  <2>3. S \in SUBSET (0 .. Len(data))
    BY <1>2
  <2>4. Min(S) = m
    <3> DEFINE k == Min(S)
    <3> HIDE DEF S
    <3>1. k \in S /\ \A q \in S : k <= q
      BY <1>2, <2>1, <2>3, LeastOf
    <3> HIDE DEF k
    <3>2. k \in Int /\ m \in Int
      BY <3>1, <2>1, <2>3, <1>2
    <3>3. k <= m /\ m <= k
      BY <3>1, <2>1, <2>2
    <3>4. k = m
      BY <3>2, <3>3
    <3> QED
      BY <3>4 DEF k
  <2> DEFINE f == jpeg_resync_to_restart(r, data, r.mark)
  <2>5. /\ f.next = r.next /\ "next" \in DOMAIN f
        /\ IF ResyncAction(data[m], r.next) = 1
           THEN f.pos = m + 1 /\ f.unread = FALSE /\ f.mark = next_marker(data, m + 1)
           ELSE f.pos = m /\ f.mark = m /\ f.unread = TRUE
    BY <2>4 DEF jpeg_resync_to_restart, IsReader
  <2> HIDE DEF f
  <2>6. s = [f EXCEPT !.next = (@ + 1) % 8]
    BY <1>6 DEF read_restart_marker, f
  <2>7. s.pos = f.pos /\ s.unread = f.unread /\ s.mark = f.mark
        /\ s.next = (r.next + 1) % 8
    BY <2>5, <2>6
  <2> HIDE DEF s
  <2>8. Found(s, data, num, n, m)
    BY <1>1, <1>2, <1>3, <1>4, <2>5, <2>7 DEF Found
  <2> QED
    BY <1>1, <2>8 DEF s
<1> QED
  BY <1>5, <1>6

\* A reader found in that way is in step with the next restart marker, and its
\* data units, if it has any, are those up to the marker after.
LEMMA StaysInStep ==
  ASSUME NEW data, NEW num, Paced(data, num), NEW n \in Nat, NEW m, NEW s,
         ComesAt(data, num, n, m), IsRestart(data, m) => num[m] <= n + 2,
         Found(s, data, num, n, m)
  PROVE  InStep(s, data, num, n + 1)
<1>1. Len(data) \in Nat /\ m \in 1 .. Len(data) /\ data[m] >= 256
      /\ \A p \in 1 .. m - 1 : IsRestart(data, p) => num[p] < n
  BY LenOf DEF Paced, ComesAt
<1>2. \A p \in 1 .. Len(data) : IsRestart(data, p) => num[p] \in Nat
  BY DEF Paced
<1>3. CASE IsRestart(data, m) /\ num[m] = n
  <2>1. FirstFrom(data, m + 1, s.mark) /\ s.next = (n + 1) % 8
    BY <1>3 DEF Found
  <2>2. s.mark \in m + 1 .. Len(data) /\ data[s.mark] >= 256
        /\ \A i \in m + 1 .. s.mark - 1 : data[i] < 256
    BY <2>1 DEF FirstFrom
  <2>3. \A p \in 1 .. s.mark - 1 : IsRestart(data, p) => num[p] < n + 1
    <3> SUFFICES ASSUME NEW p \in 1 .. s.mark - 1, IsRestart(data, p)
                 PROVE  num[p] < n + 1
      OBVIOUS
    <3>1. p \in 1 .. m - 1 \/ p = m \/ p \in m + 1 .. s.mark - 1
      BY <1>1, <2>2
    <3>2. p \in 1 .. Len(data) /\ data[p] >= 256
      BY <1>1, <2>2 DEF IsRestart, M_RST0
    <3>3. p \in m + 1 .. s.mark - 1 => data[p] < 256
      BY <2>2
    <3>4. data[p] \in Nat /\ num[p] \in Nat
      BY <1>2, <3>2 DEF Paced
    <3> QED
      BY <1>1, <1>3, <3>1, <3>2, <3>3, <3>4
  <2>4. m \in 1 .. s.mark - 1
    BY <1>1, <2>2
  <2>5. Foretold(data, num, s.mark, n + 1)
    <3>1. num[m] = (n + 1) - 1
      BY <1>3
    <3> QED
      BY <2>3, <2>4, <3>1, <1>3 DEF Foretold
  <2>6. s.mark \in 1 .. Len(data)
    BY <1>1, <2>2
  <2>7. IsRestart(data, s.mark) =>
          num[s.mark] >= (n + 1) - 2 /\ num[s.mark] <= (n + 1) + 2
    BY <2>5, <2>6 DEF Paced
  <2> QED
    BY <2>1, <2>2, <2>3, <2>5, <2>6, <2>7 DEF InStep
<1>4. CASE ~(IsRestart(data, m) /\ num[m] = n)
  <2>1. s.mark = m /\ s.next = (n + 1) % 8
    BY <1>4 DEF Found
  <2>2. \A p \in 1 .. m - 1 : IsRestart(data, p) => num[p] < n + 1
    <3> SUFFICES ASSUME NEW p \in 1 .. m - 1, IsRestart(data, p)
                 PROVE  num[p] < n + 1
      OBVIOUS
    <3>1. num[p] < n /\ num[p] \in Nat
      BY <1>1, <1>2
    <3> QED BY <3>1
  <2>3. IsRestart(data, m) => num[m] >= n /\ num[m] # n /\ num[m] <= n + 2 /\ num[m] \in Nat
    BY <1>1, <1>2, <1>4 DEF ComesAt
  <2>4. IsRestart(data, m) =>
          /\ num[m] >= (n + 1) - 2 /\ num[m] <= (n + 1) + 2
          /\ ~(num[m] < n + 1)
    BY <2>3
  <2> QED
    BY <1>1, <2>1, <2>2, <2>4 DEF InStep
<1> QED
  BY <1>3, <1>4

-----------------------------------------------------------------------------
\* All the restarts of a scan: reader k was left by the segment before restart k
\* at the mark it was given, and found[k] is what read_restart_marker makes of
\* it. Whatever is lost or repeated, each segment gets its own data or none.
THEOREM RestartsFound ==
  ASSUME NEW data, NEW num, Paced(data, num), NEW c \in Nat, NEW reader,
         \A k \in 0 .. c : IsReader(reader[k]),
         reader[0].next = 0, FirstFrom(data, 1, reader[0].mark),
         \A k \in 1 .. c :
           /\ reader[k].next = read_restart_marker(reader[k - 1], data).next
           /\ reader[k].mark = read_restart_marker(reader[k - 1], data).mark
  PROVE  \A k \in 0 .. c : \E m \in reader[k].mark .. Len(data) :
           /\ ComesAt(data, num, k, m)
           /\ Found(read_restart_marker(reader[k], data), data, num, k, m)
<1> DEFINE A == {k \in 0 .. c : InStep(reader[k], data, num, k)}
<1>1. Len(data) \in Nat
  BY LenOf DEF Paced
<1>2. 0 \in A
  <2> DEFINE mk == reader[0].mark
  <2>1. mk \in 1 .. Len(data) /\ data[mk] >= 256 /\ \A i \in 1 .. mk - 1 : data[i] < 256
    BY DEF FirstFrom
  <2> HIDE DEF mk
  <2>2. \A p \in 1 .. mk - 1 : ~IsRestart(data, p)
    <3> SUFFICES ASSUME NEW p \in 1 .. mk - 1, IsRestart(data, p)
                 PROVE  FALSE
      OBVIOUS
    <3>1. p \in 1 .. Len(data) /\ data[p] < 256
      BY <1>1, <2>1
    <3>2. data[p] >= 256 /\ data[p] \in Nat
      BY <3>1 DEF IsRestart, M_RST0, Paced
    <3> QED
      BY <3>1, <3>2
  <2>3. Foretold(data, num, mk, 0)
    BY <2>2 DEF Foretold
  <2>4. IsRestart(data, mk) => num[mk] >= 0 - 2 /\ num[mk] <= 0 + 2
    BY <2>1, <2>3 DEF Paced
  <2>5. 0 % 8 = 0
    OBVIOUS
  <2>6. InStep(reader[0], data, num, 0)
    BY <2>1, <2>2, <2>3, <2>4, <2>5 DEF InStep, mk
  <2> QED
    BY <2>6
<1>3. ASSUME NEW k \in 0 .. c, k < c, k \in A
      PROVE  k + 1 \in A
  <2> DEFINE s == read_restart_marker(reader[k], data)
  <2>1. InStep(reader[k], data, num, k) /\ IsReader(reader[k]) /\ k \in Nat
    BY <1>3
  <2>2. PICK m \in reader[k].mark .. Len(data) :
             /\ ComesAt(data, num, k, m)
             /\ IsRestart(data, m) => num[m] <= k + 2
             /\ Found(s, data, num, k, m)
    BY <2>1, SegmentFound
  <2>3. (k + 1) - 1 = k /\ k + 1 \in 1 .. c /\ k + 1 \in 0 .. c
    BY <1>3
  <2>4. reader[k + 1].next = s.next /\ reader[k + 1].mark = s.mark
    BY <2>3
  <2> HIDE DEF s
  <2>5. InStep(s, data, num, k + 1)
    BY <2>1, <2>2, StaysInStep
  <2>6. InStep(reader[k + 1], data, num, k + 1)
    BY <2>4, <2>5 DEF InStep
  <2> QED
    BY <2>3, <2>6
<1>4. 0 .. c \subseteq A
  <2> HIDE DEF A
  <2> QED BY <1>2, <1>3, UpTheInterval
<1> SUFFICES ASSUME NEW k \in 0 .. c
             PROVE  \E m \in reader[k].mark .. Len(data) :
                      /\ ComesAt(data, num, k, m)
                      /\ Found(read_restart_marker(reader[k], data), data, num, k, m)
  OBVIOUS
<1>5. InStep(reader[k], data, num, k) /\ IsReader(reader[k]) /\ k \in Nat
  BY <1>4
<1> QED
  BY <1>5, SegmentFound

-----------------------------------------------------------------------------
\* The data of a scan as the encoder leaves it, num its restart markers counted
\* from 0.
Numbered(data, num) ==
  /\ IsList(data) /\ Len(data) > 0 /\ \A p \in 1 .. Len(data) : data[p] \in Nat
  /\ data[Len(data)] >= M_SOF0 /\ ~IsRestart(data, Len(data))
  /\ \A p \in 1 .. Len(data) - 1 : data[p] >= 256 =>
       num[p] \in Nat /\ data[p] = M_RST0 + (num[p] % 8)
  /\ \A p, q \in 1 .. Len(data) - 1 :
       data[p] >= 256 /\ data[q] >= 256 /\ p < q => num[p] < num[q]
  /\ \A q \in 1 .. Len(data) - 1 : data[q] >= 256 =>
       \A v \in Nat : v < num[q] =>
         \E p \in 1 .. q - 1 : data[p] >= 256 /\ num[p] = v

\* A stretch with two restart markers at most.
Stretch(data, first, last) ==
  /\ first \in 1 .. Len(data) /\ last \in first .. Len(data) - 1
  /\ \A p, q, s \in first .. last :
       p < q /\ q < s => ~(data[p] >= 256 /\ data[q] >= 256 /\ data[s] >= 256)
Spliced(data, a, b) == SubSeq(data, 1, a) \o SubSeq(data, b, Len(data))
Lost(data, first, last) == Spliced(data, first - 1, last + 1)
Repeated(data, first, last) == Spliced(data, last, first)

\* The place each unit of the damaged data had before, and the numbers there.
KeptPlace(data, first, last) ==
  [p \in 1 .. Len(data) |-> IF p < first THEN p ELSE p + (last - first + 1)]
RepeatedPlace(data, first, last) ==
  [p \in 1 .. Len(data) + (last - first + 1) |->
     IF p <= last THEN p ELSE p - (last - first + 1)]
NumbersAt(num, place) == [p \in DOMAIN place |-> num[place[p]]]
IsSplice(s, data, a, b) ==
  /\ IsList(s) /\ Len(s) = a + Len(data) - b + 1
  /\ \A p \in 1 .. a : s[p] = data[p]
  /\ \A p \in a + 1 .. Len(s) : s[p] = data[p - a + b - 1]

\* The rest of the data after a stretch is taken out or put in: from place here
\* on, what was at place p is at p - shift.
LEMMA Splice ==
  ASSUME NEW data, IsList(data), NEW a \in 0 .. Len(data), NEW b \in 1 .. Len(data),
         NEW s, s = Spliced(data, a, b)
  PROVE  IsSplice(s, data, a, b)
<1> DEFINE R == {data[n] : n \in DOMAIN data}
           h == SubSeq(data, 1, a)
           t == SubSeq(data, b, Len(data))
<1>1. data \in Seq(R) /\ Len(data) \in Nat /\ DOMAIN data = 1 .. Len(data)
  BY LenOf DEF IsList
<1> HIDE DEF R
<1>2. h \in Seq(R) /\ Len(h) = a /\ \A i \in 1 .. a : h[i] = data[i]
  <2>1. 1 \in 1 .. Len(data) + 1 /\ a \in 1 - 1 .. Len(data)
    BY <1>1
  <2> QED
    BY <1>1, <2>1, SubSeqProperties
<1>3. t \in Seq(R) /\ Len(t) = Len(data) - b + 1
      /\ \A i \in 1 .. Len(data) - b + 1 : t[i] = data[b + i - 1]
  <2>1. b \in 1 .. Len(data) + 1 /\ Len(data) \in b - 1 .. Len(data)
    BY <1>1
  <2> QED
    BY <1>1, <2>1, SubSeqProperties
<1>8. s = h \o t
  BY DEF Spliced
<1> HIDE DEF h, t
<1> DEFINE c == h \o t
<1>9. c \in Seq(R) /\ Len(c) = Len(h) + Len(t)
      /\ \A i \in 1 .. Len(h) + Len(t) :
           c[i] = IF i <= Len(h) THEN h[i] ELSE t[i - Len(h)]
  BY <1>2, <1>3, ConcatProperties
<1>10. s = c
  BY <1>8
<1> HIDE DEF c
<1>4. s \in Seq(R) /\ Len(s) = Len(h) + Len(t)
      /\ \A i \in 1 .. Len(h) + Len(t) :
           s[i] = IF i <= Len(h) THEN h[i] ELSE t[i - Len(h)]
  BY <1>9, <1>10
<1>5. IsList(s) /\ Len(s) = a + Len(data) - b + 1
  <2>1. IsList(s)
    BY <1>4, ListOf
  <2>2. Len(s) = a + Len(data) - b + 1
    BY <1>1, <1>2, <1>3, <1>4
  <2> QED
    BY <2>1, <2>2
<1>6. \A p \in 1 .. a : s[p] = data[p]
  <2> SUFFICES ASSUME NEW p \in 1 .. a
               PROVE  s[p] = data[p]
    OBVIOUS
  <2>1. p \in 1 .. Len(h) + Len(t) /\ p <= Len(h)
    BY <1>1, <1>2, <1>3
  <2> QED
    BY <2>1, <1>2, <1>4
<1>7. \A p \in a + 1 .. Len(s) : s[p] = data[p - a + b - 1]
  <2> SUFFICES ASSUME NEW p \in a + 1 .. Len(s)
               PROVE  s[p] = data[p - a + b - 1]
    OBVIOUS
  <2>1. p \in 1 .. Len(h) + Len(t) /\ ~(p <= Len(h)) /\ p - Len(h) \in 1 .. Len(data) - b + 1
        /\ b + (p - Len(h)) - 1 = p - a + b - 1
    BY <1>1, <1>2, <1>3, <1>5
  <2> QED
    BY <2>1, <1>3, <1>4
<1> QED
  BY <1>5, <1>6, <1>7 DEF IsSplice

\* d2, with its numbers, is put together from places of the data, the end last.
FromPlaces(data, num, d2, num2, from) ==
  /\ IsList(d2) /\ Len(d2) > 0 /\ from[Len(d2)] = Len(data)
  /\ \A p \in 1 .. Len(d2) : from[p] \in 1 .. Len(data)
  /\ \A p \in 1 .. Len(d2) - 1 : from[p] < Len(data)
  /\ \A p \in 1 .. Len(d2) : d2[p] = data[from[p]] /\ num2[p] = num[from[p]]
NearForetold(data, num, from, q) ==
  \A n \in Nat :
    /\ \A p \in 1 .. q - 1 : data[from[p]] >= 256 => num[from[p]] < n
    /\ n = 0 \/ \E p \in 1 .. q - 1 : data[from[p]] >= 256 /\ num[from[p]] = n - 1
    => num[from[q]] >= n - 2 /\ num[from[q]] <= n + 2

\* Such data is paced if the numbers are near those foretold.
LEMMA PacedIfNear ==
  ASSUME NEW data, NEW num, Numbered(data, num), NEW d2, NEW num2, NEW from,
         FromPlaces(data, num, d2, num2, from),
         \A q \in 1 .. Len(d2) - 1 : data[from[q]] >= 256 => NearForetold(data, num, from, q)
  PROVE  Paced(d2, num2)
<1>0. /\ IsList(d2) /\ Len(d2) > 0 /\ from[Len(d2)] = Len(data)
      /\ \A p \in 1 .. Len(d2) : from[p] \in 1 .. Len(data)
      /\ \A p \in 1 .. Len(d2) - 1 : from[p] < Len(data)
      /\ \A p \in 1 .. Len(d2) : d2[p] = data[from[p]] /\ num2[p] = num[from[p]]
  BY DEF FromPlaces
<1>1. Len(d2) \in Nat /\ Len(data) \in Nat /\ \A p \in 1 .. Len(d2) : d2[p] \in Nat
  BY <1>0, LenOf DEF Numbered
<1>2. \A p \in 1 .. Len(d2) - 1 : d2[p] >= 256 =>
        IsRestart(d2, p) /\ num2[p] \in Nat /\ d2[p] = M_RST0 + (num2[p] % 8)
  <2> SUFFICES ASSUME NEW p \in 1 .. Len(d2) - 1, d2[p] >= 256
               PROVE  IsRestart(d2, p) /\ num2[p] \in Nat /\ d2[p] = M_RST0 + (num2[p] % 8)
    OBVIOUS
  <2> DEFINE x == from[p]
  <2>1. p \in 1 .. Len(d2) /\ x \in 1 .. Len(data) - 1 /\ d2[p] = data[x] /\ num2[p] = num[x]
    BY <1>0, <1>1
  <2> HIDE DEF x
  <2>2. num[x] \in Nat /\ data[x] = M_RST0 + (num[x] % 8)
    BY <2>1 DEF Numbered
  <2> DEFINE e == num[x] % 8
  <2>3. e \in 0 .. 7
    BY <2>2
  <2> HIDE DEF e
  <2>4. M_RST0 + e \in M_RST0 .. M_RST7
    BY <2>3 DEF M_RST0, M_RST7
  <2> QED
    BY <2>1, <2>2, <2>4 DEF IsRestart, e
<1>3. Len(d2) \in 1 .. Len(d2) /\ d2[Len(d2)] >= M_SOF0 /\ ~IsRestart(d2, Len(d2))
  BY <1>0, <1>1 DEF Numbered, IsRestart
<1>4. ASSUME NEW q \in 1 .. Len(d2), IsRestart(d2, q)
      PROVE  /\ num2[q] \in Nat /\ d2[q] = M_RST0 + (num2[q] % 8)
             /\ \A n \in Nat : Foretold(d2, num2, q, n) =>
                  num2[q] >= n - 2 /\ num2[q] <= n + 2
  <2>1. d2[q] >= 256
    BY <1>4 DEF IsRestart, M_RST0
  <2>2. q \in 1 .. Len(d2) - 1
    BY <1>1, <1>3, <1>4
  <2>3. num2[q] \in Nat /\ d2[q] = M_RST0 + (num2[q] % 8)
    BY <1>2, <2>1, <2>2
  <2>4. ASSUME NEW n \in Nat, Foretold(d2, num2, q, n)
        PROVE  num2[q] >= n - 2 /\ num2[q] <= n + 2
    <3>1. \A p \in 1 .. q - 1 : p \in 1 .. Len(d2) /\ p \in 1 .. Len(d2) - 1
      BY <1>1
    <3>2. \A p \in 1 .. q - 1 : /\ IsRestart(d2, p) <=> data[from[p]] >= 256
                                /\ num2[p] = num[from[p]]
      <4> SUFFICES ASSUME NEW p \in 1 .. q - 1
                   PROVE  /\ IsRestart(d2, p) <=> data[from[p]] >= 256
                          /\ num2[p] = num[from[p]]
        OBVIOUS
      <4>1. d2[p] = data[from[p]] /\ num2[p] = num[from[p]]
        BY <1>0, <3>1
      <4>2. IsRestart(d2, p) => d2[p] >= 256
        BY DEF IsRestart, M_RST0
      <4> QED
        BY <1>2, <3>1, <4>1, <4>2
    <3>3. \A p \in 1 .. q - 1 : data[from[p]] >= 256 => num[from[p]] < n
      BY <2>4, <3>2 DEF Foretold
    <3>4. n = 0 \/ \E p \in 1 .. q - 1 : data[from[p]] >= 256 /\ num[from[p]] = n - 1
      BY <2>4, <3>2 DEF Foretold
    <3>5. data[from[q]] >= 256 /\ num2[q] = num[from[q]]
      BY <1>0, <2>1
    <3> QED
      BY <2>2, <3>3, <3>4, <3>5 DEF NearForetold
  <2> QED
    BY <2>3, <2>4
<1> QED
  BY <1>0, <1>1, <1>2, <1>3, <1>4 DEF Paced

\* What the numbers of numbered data say of their places.
LEMMA Places ==
  ASSUME NEW data, NEW num, Numbered(data, num)
  PROVE  /\ Len(data) \in Nat
         /\ \A p \in 1 .. Len(data) - 1 : data[p] >= 256 => num[p] \in Nat
         /\ \A p, q \in 1 .. Len(data) - 1 :
              data[p] >= 256 /\ data[q] >= 256 /\ num[p] < num[q] => p < q
<1>1. Len(data) \in Nat
      /\ \A p \in 1 .. Len(data) - 1 : data[p] >= 256 => num[p] \in Nat
  BY LenOf DEF Numbered
<1>2. ASSUME NEW p \in 1 .. Len(data) - 1, NEW q \in 1 .. Len(data) - 1,
             data[p] >= 256, data[q] >= 256, num[p] < num[q]
      PROVE  p < q
  <2>1. q < p => num[q] < num[p]
    BY <1>2 DEF Numbered
  <2>2. num[p] \in Nat /\ num[q] \in Nat /\ p \in Int /\ q \in Int
    BY <1>1, <1>2
  <2>3. p # q
    BY <1>2, <2>2
  <2> QED
    BY <1>2, <2>1, <2>2, <2>3
<1> QED
  BY <1>1, <1>2

LEMMA LostIsPaced ==
  ASSUME NEW data, NEW num, Numbered(data, num), NEW first, NEW last,
         Stretch(data, first, last)
  PROVE  Paced(Lost(data, first, last), NumbersAt(num, KeptPlace(data, first, last)))
<1> DEFINE w == last - first + 1
           d2 == Lost(data, first, last)
           from == [p \in 1 .. Len(data) |-> IF p < first THEN p ELSE p + w]
           num2 == [p \in 1 .. Len(data) |-> num[from[p]]]
<1>0. num2 = NumbersAt(num, KeptPlace(data, first, last))
  BY DEF NumbersAt, KeptPlace
<1>1. Len(data) \in Nat /\ first \in 1 .. Len(data) /\ last \in first .. Len(data) - 1
      /\ first \in Int /\ last \in Int /\ IsList(data)
  BY Places DEF Stretch, Numbered
<1>2. w \in Nat /\ w > 0 /\ w = last - first + 1
  BY <1>1
<1> DEFINE a == first - 1
           b == last + 1
<1>3. a \in 0 .. Len(data) /\ b \in 1 .. Len(data)
  BY <1>1
<1>4. /\ IsList(d2) /\ Len(d2) = a + Len(data) - b + 1
      /\ \A p \in 1 .. a : d2[p] = data[p]
      /\ \A p \in a + 1 .. Len(d2) : d2[p] = data[p - a + b - 1]
  <2>1. a \in 0 .. Len(data) /\ b \in 1 .. Len(data) /\ IsList(data)
    BY <1>1, <1>3
  <2>2. d2 = Spliced(data, a, b)
    BY DEF Lost
  <2> HIDE DEF a, b, d2
  <2>3. IsSplice(d2, data, a, b)
    BY <2>1, <2>2, Splice
  <2> QED
    BY <2>3 DEF IsSplice
<1> HIDE DEF d2, w
<1>5. Len(d2) = Len(data) - w /\ Len(d2) \in Nat /\ Len(d2) > 0 /\ Len(d2) >= first
  BY <1>1, <1>2, <1>4
<1>6. \A p \in 1 .. Len(d2) : from[p] = (IF p < first THEN p ELSE p + w) /\ num2[p] = num[from[p]]
  BY <1>1, <1>2, <1>5
<1>7. \A p \in 1 .. Len(d2) : d2[p] = data[from[p]]
  <2> SUFFICES ASSUME NEW p \in 1 .. Len(d2)
               PROVE  d2[p] = data[from[p]]
    OBVIOUS
  <2>1. CASE p < first
    <3>1. p \in 1 .. a /\ from[p] = p
      BY <1>1, <1>6, <2>1
    <3> QED BY <1>4, <3>1
  <2>2. CASE ~(p < first)
    <3>1. p \in a + 1 .. Len(d2) /\ p - a + b - 1 = p + w /\ from[p] = p + w
      BY <1>1, <1>2, <1>5, <1>6, <2>2
    <3> QED BY <1>4, <3>1
  <2> QED BY <2>1, <2>2
<1> HIDE DEF from, num2, a, b
<1>8. /\ from[Len(d2)] = Len(data)
      /\ \A p \in 1 .. Len(d2) : from[p] \in 1 .. Len(data)
      /\ \A p \in 1 .. Len(d2) - 1 : from[p] < Len(data)
  <2>1. Len(d2) \in 1 .. Len(d2) /\ \A p \in 1 .. Len(d2) - 1 : p \in 1 .. Len(d2)
    BY <1>5
  <2>2. ~(Len(d2) < first) /\ Len(d2) + w = Len(data)
    BY <1>1, <1>2, <1>5
  <2> DEFINE l == Len(d2)
             e == Len(data)
  <2> HIDE DEF l, e
  <2>3. \A p \in 1 .. l : p + w \in 1 .. e /\ (p < first => p \in 1 .. e)
    BY <1>1, <1>2, <1>5 DEF l, e
  <2>4. \A p \in 1 .. l - 1 : p + w < e /\ (p < first => p < e)
    BY <1>1, <1>2, <1>5 DEF l, e
  <2> QED
    BY <1>6, <2>1, <2>2, <2>3, <2>4 DEF l, e
<1>9. \A q \in 1 .. Len(d2) : \A p \in 1 .. q - 1 : from[p] < from[q] /\ p \in 1 .. Len(d2)
  <2> SUFFICES ASSUME NEW q \in 1 .. Len(d2), NEW p \in 1 .. q - 1
               PROVE  from[p] < from[q] /\ p \in 1 .. Len(d2)
    OBVIOUS
  <2>1. p \in 1 .. Len(d2) /\ p < q /\ p \in Int /\ q \in Int
    BY <1>5
  <2>2. /\ from[p] = (IF p < first THEN p ELSE p + w)
        /\ from[q] = (IF q < first THEN q ELSE q + w)
    BY <1>6, <2>1
  <2>3. from[p] < from[q]
    BY <1>1, <1>2, <2>1, <2>2
  <2> QED
    BY <2>1, <2>3
<1>10. \A q \in 1 .. Len(d2) : \A y \in 1 .. from[q] - 1 :
         y \notin first .. last => \E p \in 1 .. q - 1 : from[p] = y
  <2> SUFFICES ASSUME NEW q \in 1 .. Len(d2), NEW y \in 1 .. from[q] - 1, y \notin first .. last
               PROVE  \E p \in 1 .. q - 1 : from[p] = y
    OBVIOUS
  <2>1. from[q] = (IF q < first THEN q ELSE q + w) /\ from[q] \in Int
    BY <1>6, <1>8
  <2>2. CASE y < first
    <3>1. y \in 1 .. q - 1 /\ y \in 1 .. Len(d2)
      BY <1>1, <1>2, <1>5, <2>1, <2>2
    <3> QED
      BY <1>6, <2>2, <3>1
  <2>3. CASE y > last
    <3>1. y - w \in 1 .. q - 1 /\ y - w \in 1 .. Len(d2) /\ ~(y - w < first) /\ (y - w) + w = y
      BY <1>1, <1>2, <1>5, <2>1, <2>3
    <3> QED
      BY <1>6, <3>1
  <2> QED
    BY <1>1, <2>2, <2>3
<1>11. ASSUME NEW q \in 1 .. Len(d2) - 1, data[from[q]] >= 256, NEW n \in Nat,
              \A p \in 1 .. q - 1 : data[from[p]] >= 256 => num[from[p]] < n,
              n = 0 \/ \E p \in 1 .. q - 1 : data[from[p]] >= 256 /\ num[from[p]] = n - 1
       PROVE  num[from[q]] >= n - 2 /\ num[from[q]] <= n + 2
  <2> DEFINE x == from[q]
  <2>1. q \in 1 .. Len(d2) /\ x \in 1 .. Len(data) - 1 /\ num[x] \in Nat
    BY <1>5, <1>8, <1>11, Places
  <2>2. num[x] >= n - 2
    <3>1. CASE n = 0
      BY <2>1, <3>1
    <3>2. CASE n # 0
      <4>1. PICK p \in 1 .. q - 1 : data[from[p]] >= 256 /\ num[from[p]] = n - 1
        BY <1>11, <3>2
      <4> DEFINE y == from[p]
      <4>2. y < x /\ y \in 1 .. Len(data) - 1
        BY <1>8, <1>9, <2>1, <4>1
      <4> HIDE DEF y, x
      <4>3. num[y] < num[x] /\ num[y] = n - 1
        BY <1>11, <2>1, <4>1, <4>2 DEF Numbered, x, y
      <4> QED BY <2>1, <4>3
    <3> QED BY <3>1, <3>2
  <2>3. \A v \in Nat : v >= n /\ v < num[x] =>
          \E y \in first .. last : data[y] >= 256 /\ num[y] = v
    <3> SUFFICES ASSUME NEW v \in Nat, v >= n, v < num[x]
                 PROVE  \E y \in first .. last : data[y] >= 256 /\ num[y] = v
      OBVIOUS
    <3>1. PICK y \in 1 .. x - 1 : data[y] >= 256 /\ num[y] = v
      BY <1>11, <2>1 DEF Numbered
    <3>2. ~\E p \in 1 .. q - 1 : from[p] = y
      BY <1>11, <3>1
    <3> QED
      BY <1>10, <2>1, <3>1, <3>2
  <2> HIDE DEF x
  <2>4. num[x] <= n + 2
    <3> SUFFICES ASSUME num[x] > n + 2
                 PROVE  FALSE
      BY <2>1
    <3>0. /\ n \in Nat /\ n >= n /\ n < num[x]
          /\ n + 1 \in Nat /\ n + 1 >= n /\ n + 1 < num[x]
          /\ n + 2 \in Nat /\ n + 2 >= n /\ n + 2 < num[x]
      BY <2>1
    <3>1. PICK y0 \in first .. last : data[y0] >= 256 /\ num[y0] = n
      BY <3>0, <2>3
    <3>2. PICK y1 \in first .. last : data[y1] >= 256 /\ num[y1] = n + 1
      BY <3>0, <2>3
    <3>3. PICK y2 \in first .. last : data[y2] >= 256 /\ num[y2] = n + 2
      BY <3>0, <2>3
    <3>4. y0 \in 1 .. Len(data) - 1 /\ y1 \in 1 .. Len(data) - 1 /\ y2 \in 1 .. Len(data) - 1
      BY <1>1
    <3>6. num[y0] < num[y1] /\ num[y1] < num[y2]
      BY <3>1, <3>2, <3>3
    <3>5. y0 < y1 /\ y1 < y2
      BY <3>1, <3>2, <3>3, <3>4, <3>6, Places
    <3> QED
      BY <3>1, <3>2, <3>3, <3>5 DEF Stretch
  <2> QED
    BY <2>2, <2>4 DEF x
<1>12. FromPlaces(data, num, d2, num2, from)
  <2>1. Len(d2) > 0
    BY <1>1, <1>5
  <2>2. \A p \in 1 .. Len(d2) : d2[p] = data[from[p]] /\ num2[p] = num[from[p]]
    BY <1>6, <1>7
  <2> QED
    BY <1>4, <1>8, <2>1, <2>2 DEF FromPlaces
<1>13. \A q \in 1 .. Len(d2) - 1 : data[from[q]] >= 256 => NearForetold(data, num, from, q)
  BY <1>11 DEF NearForetold
<1>14. Paced(d2, num2)
  BY <1>12, <1>13, PacedIfNear
<1> QED
  BY <1>0, <1>14 DEF d2

LEMMA RepeatedIsPaced ==
  ASSUME NEW data, NEW num, Numbered(data, num), NEW first, NEW last,
         Stretch(data, first, last)
  PROVE  Paced(Repeated(data, first, last),
               NumbersAt(num, RepeatedPlace(data, first, last)))
<1> DEFINE w == last - first + 1
           d2 == Repeated(data, first, last)
           from == [p \in 1 .. Len(data) + w |-> IF p <= last THEN p ELSE p - w]
           num2 == [p \in 1 .. Len(data) + w |-> num[from[p]]]
<1>0. num2 = NumbersAt(num, RepeatedPlace(data, first, last))
  BY DEF NumbersAt, RepeatedPlace
<1>1. Len(data) \in Nat /\ first \in 1 .. Len(data) /\ last \in first .. Len(data) - 1
      /\ first \in Int /\ last \in Int /\ IsList(data) /\ last \in 0 .. Len(data)
  BY Places DEF Stretch, Numbered
<1>2. w \in Nat /\ w > 0 /\ w = last - first + 1
  BY <1>1
<1>4. /\ IsList(d2) /\ Len(d2) = last + Len(data) - first + 1
      /\ \A p \in 1 .. last : d2[p] = data[p]
      /\ \A p \in last + 1 .. Len(d2) : d2[p] = data[p - last + first - 1]
  <2>1. last \in 0 .. Len(data) /\ first \in 1 .. Len(data) /\ IsList(data)
    BY <1>1
  <2>2. d2 = Spliced(data, last, first)
    BY DEF Repeated
  <2> HIDE DEF d2
  <2>3. IsSplice(d2, data, last, first)
    BY <2>1, <2>2, Splice
  <2> QED
    BY <2>3 DEF IsSplice
<1> HIDE DEF d2, w
<1>5. Len(d2) = Len(data) + w /\ Len(d2) \in Nat /\ Len(d2) > last
  BY <1>1, <1>2, <1>4
<1>6. \A p \in 1 .. Len(d2) : from[p] = (IF p <= last THEN p ELSE p - w) /\ num2[p] = num[from[p]]
  BY <1>1, <1>2, <1>5
<1>7. \A p \in 1 .. Len(d2) : d2[p] = data[from[p]]
  <2> SUFFICES ASSUME NEW p \in 1 .. Len(d2)
               PROVE  d2[p] = data[from[p]]
    OBVIOUS
  <2>1. CASE p <= last
    <3>1. p \in 1 .. last /\ from[p] = p
      BY <1>1, <1>5, <1>6, <2>1
    <3> QED BY <1>4, <3>1
  <2>2. CASE ~(p <= last)
    <3>1. p \in last + 1 .. Len(d2) /\ p - last + first - 1 = p - w /\ from[p] = p - w
      BY <1>1, <1>2, <1>5, <1>6, <2>2
    <3> QED BY <1>4, <3>1
  <2> QED BY <2>1, <2>2
<1> HIDE DEF from, num2
<1>8. /\ from[Len(d2)] = Len(data)
      /\ \A p \in 1 .. Len(d2) : from[p] \in 1 .. Len(data)
      /\ \A p \in 1 .. Len(d2) - 1 : from[p] < Len(data)
  <2>1. Len(d2) \in 1 .. Len(d2) /\ \A p \in 1 .. Len(d2) - 1 : p \in 1 .. Len(d2)
    BY <1>1, <1>5
  <2>2. ~(Len(d2) <= last) /\ Len(d2) - w = Len(data)
    BY <1>1, <1>2, <1>5
  <2> DEFINE l == Len(d2)
             e == Len(data)
  <2> HIDE DEF l, e
  <2>3. \A p \in 1 .. l : /\ ~(p <= last) => p - w \in 1 .. e
                         /\ p <= last => p \in 1 .. e
    BY <1>1, <1>2, <1>5 DEF l, e
  <2>4. \A p \in 1 .. l - 1 : p - w < e /\ (p <= last => p < e)
    BY <1>1, <1>2, <1>5 DEF l, e
  <2>5. from[l] = e
    BY <1>6, <2>1, <2>2 DEF l, e
  <2>6. \A p \in 1 .. l : from[p] \in 1 .. e
    <3>1. \A p \in 1 .. l : from[p] = IF p <= last THEN p ELSE p - w
      BY <1>6 DEF l
    <3> SUFFICES ASSUME NEW p \in 1 .. l
                 PROVE  from[p] \in 1 .. e
      OBVIOUS
    <3>2. CASE p <= last
      BY <2>3, <3>1, <3>2
    <3>3. CASE ~(p <= last)
      <4>1. from[p] = p - w
        BY <3>1, <3>3
      <4>2. p - w \in 1 .. e
        BY <1>1, <1>2, <1>5, <3>3 DEF l, e
      <4> QED
        BY <4>1, <4>2
    <3> QED
      BY <3>2, <3>3
  <2>7. \A p \in 1 .. l - 1 : from[p] < e
    <3>1. \A p \in 1 .. l - 1 : p \in 1 .. l
      BY <2>1 DEF l
    <3>2. \A p \in 1 .. l : from[p] = IF p <= last THEN p ELSE p - w
      BY <1>6 DEF l
    <3> QED
      BY <2>4, <3>1, <3>2
  <2> QED
    BY <2>5, <2>6, <2>7 DEF l, e
<1>10. \A q \in 1 .. Len(d2) : \A y \in 1 .. from[q] - 1 :
         \E p \in 1 .. q - 1 : from[p] = y
  <2> SUFFICES ASSUME NEW q \in 1 .. Len(d2), NEW y \in 1 .. from[q] - 1
               PROVE  \E p \in 1 .. q - 1 : from[p] = y
    OBVIOUS
  <2>1. from[q] = (IF q <= last THEN q ELSE q - w) /\ from[q] \in Int
    BY <1>6, <1>8
  <2>2. CASE y <= last
    <3>1. y \in 1 .. q - 1 /\ y \in 1 .. Len(d2)
      BY <1>1, <1>2, <1>5, <2>1, <2>2
    <3> QED
      BY <1>6, <2>2, <3>1
  <2>3. CASE y > last
    <3>1. y + w \in 1 .. q - 1 /\ y + w \in 1 .. Len(d2) /\ ~(y + w <= last) /\ (y + w) - w = y
      BY <1>1, <1>2, <1>5, <2>1, <2>3
    <3> QED
      BY <1>6, <3>1
  <2> QED
    BY <1>1, <2>2, <2>3
<1>11. ASSUME NEW q \in 1 .. Len(d2) - 1, data[from[q]] >= 256, NEW n \in Nat,
              \A p \in 1 .. q - 1 : data[from[p]] >= 256 => num[from[p]] < n,
              n = 0 \/ \E p \in 1 .. q - 1 : data[from[p]] >= 256 /\ num[from[p]] = n - 1
       PROVE  num[from[q]] >= n - 2 /\ num[from[q]] <= n + 2
  <2> DEFINE x == from[q]
  <2>1. q \in 1 .. Len(d2) /\ x \in 1 .. Len(data) - 1 /\ num[x] \in Nat
    BY <1>5, <1>8, <1>11, Places
  <2>2. num[x] <= n
    <3> SUFFICES ASSUME num[x] > n
                 PROVE  FALSE
      BY <2>1
    <3>1. PICK y \in 1 .. x - 1 : data[y] >= 256 /\ num[y] = n
      BY <1>11, <2>1 DEF Numbered
    <3>2. PICK p \in 1 .. q - 1 : from[p] = y
      BY <1>10, <2>1, <3>1
    <3> QED
      BY <1>11, <3>1, <3>2
  <2>3. num[x] >= n - 2
    <3>1. CASE n = 0
      BY <2>1, <3>1
    <3>2. CASE n # 0
      <4>1. PICK p \in 1 .. q - 1 : data[from[p]] >= 256 /\ num[from[p]] = n - 1
        BY <1>11, <3>2
      <4> DEFINE z == from[p]
      <4>2. p \in 1 .. Len(d2) /\ z \in 1 .. Len(data) - 1
        BY <1>8, <2>1, <4>1
      <4>3. /\ z = (IF p <= last THEN p ELSE p - w)
            /\ x = (IF q <= last THEN q ELSE q - w)
        BY <1>6, <2>1, <4>2
      <4>4. data[z] >= 256 /\ num[z] = n - 1 /\ data[x] >= 256
        BY <1>11, <4>1
      <4> HIDE DEF x, z
      <4>5. CASE z < x
        <5>1. num[z] < num[x]
          BY <2>1, <4>2, <4>4, <4>5 DEF Numbered
        <5> QED BY <2>1, <4>4, <5>1
      <4>6. CASE ~(z < x)
        <5>1. x \in first .. last /\ z \in first .. last
          BY <1>1, <1>2, <1>5, <2>1, <4>2, <4>3, <4>6
        <5>2. \A v \in Nat : v >= num[x] /\ v < num[z] =>
                \E y \in first .. last : data[y] >= 256 /\ num[y] = v
          <6> SUFFICES ASSUME NEW v \in Nat, v >= num[x], v < num[z]
                       PROVE  \E y \in first .. last : data[y] >= 256 /\ num[y] = v
            OBVIOUS
          <6>1. PICK y \in 1 .. z - 1 : data[y] >= 256 /\ num[y] = v
            BY <4>2, <4>4 DEF Numbered
          <6>2. y \in 1 .. Len(data) - 1
            BY <1>1, <4>2, <6>1
          <6>3. ~(y < x)
            <7>1. y < x => num[y] < num[x]
              BY <2>1, <4>4, <6>1, <6>2 DEF Numbered
            <7> QED BY <2>1, <6>1, <7>1
          <6>4. y \in first .. last
            BY <1>1, <5>1, <6>1, <6>3
          <6> QED
            BY <6>1, <6>4
        <5> SUFFICES ASSUME num[x] < n - 2
                     PROVE  FALSE
          BY <2>1
        <5>7. /\ n - 3 \in Nat /\ n - 3 >= num[x] /\ n - 3 < num[z]
              /\ n - 2 \in Nat /\ n - 2 >= num[x] /\ n - 2 < num[z]
          BY <2>1, <4>4
        <5>3. PICK y0 \in first .. last : data[y0] >= 256 /\ num[y0] = n - 3
          BY <5>2, <5>7
        <5>4. PICK y1 \in first .. last : data[y1] >= 256 /\ num[y1] = n - 2
          BY <5>2, <5>7
        <5>5. y0 \in 1 .. Len(data) - 1 /\ y1 \in 1 .. Len(data) - 1
          BY <1>1
        <5>8. num[y0] < num[y1] /\ num[y1] < num[z]
          BY <4>4, <5>3, <5>4
        <5>6. y0 < y1 /\ y1 < z
          BY <4>2, <4>4, <5>3, <5>4, <5>5, <5>8, Places
        <5> QED
          BY <4>4, <5>1, <5>3, <5>4, <5>6 DEF Stretch
      <4> QED BY <4>5, <4>6
    <3> QED BY <3>1, <3>2
  <2> HIDE DEF x
  <2>4. num[x] <= n + 2
    BY <2>1, <2>2
  <2> QED
    BY <2>3, <2>4 DEF x
<1>12. FromPlaces(data, num, d2, num2, from)
  <2>1. Len(d2) > 0
    BY <1>1, <1>5
  <2>2. \A p \in 1 .. Len(d2) : d2[p] = data[from[p]] /\ num2[p] = num[from[p]]
    BY <1>6, <1>7
  <2> QED
    BY <1>4, <1>8, <2>1, <2>2 DEF FromPlaces
<1>13. \A q \in 1 .. Len(d2) - 1 : data[from[q]] >= 256 => NearForetold(data, num, from, q)
  BY <1>11 DEF NearForetold
<1>14. Paced(d2, num2)
  BY <1>12, <1>13, PacedIfNear
<1> QED
  BY <1>0, <1>14 DEF d2

-----------------------------------------------------------------------------
\* The number of each restart marker of a scan: how many markers come before.
MarkersBefore(data, p) == {q \in 1 .. p - 1 : IsMarker(data[q])}
RestartNumbers(data) == [p \in 1 .. Len(data) |-> Cardinality(MarkersBefore(data, p))]

LEMMA CountMarkers ==
  ASSUME NEW data, NEW p \in Nat, p > 0
  PROVE  /\ IsFiniteSet(MarkersBefore(data, p)) /\ Cardinality(MarkersBefore(data, p)) \in Nat
         /\ MarkersBefore(data, p + 1) =
              MarkersBefore(data, p) \cup (IF IsMarker(data[p]) THEN {p} ELSE {})
         /\ Cardinality(MarkersBefore(data, p + 1)) =
              Cardinality(MarkersBefore(data, p)) + (IF IsMarker(data[p]) THEN 1 ELSE 0)
<1> DEFINE S == MarkersBefore(data, p)
           T == MarkersBefore(data, p + 1)
<1>1. S \subseteq 1 .. p - 1 /\ p \notin S
  BY DEF MarkersBefore
<1>2. IsFiniteSet(S)
  BY <1>1, FS_Interval, FS_Subset
<1>3. T = S \cup (IF IsMarker(data[p]) THEN {p} ELSE {})
  BY DEF MarkersBefore
<1> HIDE DEF S, T
<1>4. Cardinality(S) \in Nat
  BY <1>2, FS_CardinalityType
<1>5. CASE IsMarker(data[p])
  <2>1. T = S \cup {p}
    BY <1>3, <1>5
  <2>2. Cardinality(S \cup {p}) = Cardinality(S) + 1
    BY <1>1, <1>2, FS_AddElement
  <2> QED
    BY <1>2, <1>3, <1>4, <1>5, <2>1, <2>2 DEF S, T
<1>6. CASE ~IsMarker(data[p])
  <2>1. T = S
    BY <1>3, <1>6
  <2> QED
    BY <1>2, <1>3, <1>4, <1>6, <2>1 DEF S, T
<1> QED
  BY <1>5, <1>6

LEMMA InOrderIsNumbered ==
  ASSUME NEW data, RestartsInOrder(data)
  PROVE  Numbered(data, RestartNumbers(data))
<1> DEFINE num == RestartNumbers(data)
           L == Len(data)
           C(p) == Cardinality(MarkersBefore(data, p))
<1>1. IsList(data) /\ L \in Nat /\ L > 0 /\ DOMAIN data = 1 .. L
      /\ \A p \in 1 .. L : data[p] \in Nat
  <2>1. data \in Seq(Nat) /\ data # << >>
    BY DEF RestartsInOrder
  <2>2. IsList(data) /\ L \in Nat /\ DOMAIN data = 1 .. L /\ L # 0
    BY <2>1, ListOf
  <2>3. \A p \in 1 .. L : data[p] \in Nat
    BY <2>1, ElementOfSeq
  <2> QED
    BY <2>2, <2>3
<1>2. L \in DOMAIN data /\ data[L] = M_EOI
  BY <1>1 DEF RestartsInOrder, M_EOI, JPEG_EOI
<1>3. data[L] >= M_SOF0 /\ ~IsRestart(data, L)
  BY <1>2 DEF M_EOI, M_SOF0, IsRestart, M_RST0, M_RST7
<1>4. \A p \in 1 .. L : num[p] = C(p) /\ C(p) \in Nat
  BY <1>1, CountMarkers DEF RestartNumbers
<1>5. \A p \in 1 .. L - 1 : data[p] >= 256 => data[p] = M_RST0 + (num[p] % 8)
  <2> SUFFICES ASSUME NEW p \in 1 .. L - 1, data[p] >= 256
               PROVE  data[p] = M_RST0 + (num[p] % 8)
    OBVIOUS
  <2>0. L \in Nat
    BY <1>1
  <2>1. p \in 1 .. L /\ p # L
    <3> HIDE DEF L
    <3> QED BY <2>0
  <2>2. data[p] = JPEG_RST0 + (C(p) % 8)
    BY <1>1, <2>1 DEF RestartsInOrder, IsMarker, MarkersBefore
  <2>3. JPEG_RST0 = M_RST0
    BY DEF JPEG_RST0, M_RST0
  <2> QED
    BY <1>4, <2>1, <2>2, <2>3
<1> HIDE DEF num
<1>6. ASSUME NEW p \in 1 .. L - 1, NEW q \in 1 .. L - 1, data[p] >= 256, p < q
      PROVE  num[p] < num[q]
  <2>1. p \in Nat /\ p > 0 /\ q \in Nat /\ q > 0 /\ p \in 1 .. L /\ q \in 1 .. L
    BY <1>1
  <2>2. IsMarker(data[p])
    BY <1>6 DEF IsMarker
  <2>3. Cardinality(MarkersBefore(data, p + 1)) = C(p) + 1
    BY <2>1, <2>2, CountMarkers
  <2>4. MarkersBefore(data, p + 1) \subseteq MarkersBefore(data, q)
    BY <2>1, <1>6 DEF MarkersBefore
  <2>5. IsFiniteSet(MarkersBefore(data, q))
    BY <2>1, CountMarkers
  <2>6. Cardinality(MarkersBefore(data, p + 1)) <= C(q)
    BY <2>4, <2>5, FS_Subset
  <2> QED
    BY <1>4, <2>1, <2>3, <2>6
<1>7. \A q \in 1 .. L : \A v \in Nat : v < C(q) =>
        \E p \in 1 .. q - 1 : data[p] >= 256 /\ C(p) = v
  <2> DEFINE A == {q \in 1 .. L : \A v \in Nat : v < C(q) =>
                     \E p \in 1 .. q - 1 : data[p] >= 256 /\ C(p) = v}
  <2>1. 1 \in A
    <3>1. MarkersBefore(data, 1) = {}
      BY DEF MarkersBefore
    <3>2. C(1) = 0
      BY <3>1, FS_EmptySet
    <3>3. 1 \in 1 .. L
      BY <1>1
    <3> QED
      BY <3>2, <3>3
  <2>2. ASSUME NEW q \in 1 .. L, q < L, q \in A
        PROVE  q + 1 \in A
    <3>1. q \in Nat /\ q > 0 /\ q + 1 \in 1 .. L /\ (q + 1) - 1 = q
      BY <1>1, <2>2
    <3> DEFINE c == C(q)
               e == C(q + 1)
    <3>2. c \in Nat /\ e = c + (IF IsMarker(data[q]) THEN 1 ELSE 0)
      BY <3>1, CountMarkers
    <3>3. ASSUME NEW v \in Nat, v < e
          PROVE  \E p \in 1 .. (q + 1) - 1 : data[p] >= 256 /\ C(p) = v
      <4>1. CASE v < c
        <5>1. PICK p \in 1 .. q - 1 : data[p] >= 256 /\ C(p) = v
          BY <2>2, <4>1
        <5>2. p \in 1 .. (q + 1) - 1
          BY <3>1
        <5> QED
          BY <5>1, <5>2
      <4>2. CASE ~(v < c)
        <5> HIDE DEF c, e
        <5>1. v = c /\ IsMarker(data[q])
          BY <3>2, <3>3, <4>2
        <5>2. q \in 1 .. (q + 1) - 1 /\ data[q] >= 256 /\ C(q) = v
          BY <3>1, <5>1 DEF IsMarker, c
        <5> QED
          BY <5>2
      <4> QED
        BY <4>1, <4>2
    <3> QED
      BY <3>1, <3>3
  <2>3. 1 .. L \subseteq A
    <3> HIDE DEF A
    <3> QED BY <1>1, <2>1, <2>2, UpTheInterval
  <2> QED
    BY <2>3
<1>8. ASSUME NEW q \in 1 .. L - 1, data[q] >= 256, NEW v \in Nat, v < num[q]
      PROVE  \E p \in 1 .. q - 1 : data[p] >= 256 /\ num[p] = v
  <2>1. q \in 1 .. L /\ v < C(q)
    BY <1>1, <1>4, <1>8
  <2>2. PICK p \in 1 .. q - 1 : data[p] >= 256 /\ C(p) = v
    BY <1>7, <2>1
  <2>3. p \in 1 .. L
    BY <1>1
  <2> QED
    BY <1>4, <2>2, <2>3
<1>9. \A p \in 1 .. L - 1 : num[p] \in Nat
  BY <1>1, <1>4
<1> QED
  BY <1>1, <1>3, <1>5, <1>6, <1>8, <1>9 DEF Numbered, num

\* Undamaged data is paced: its restart markers are those foretold.
LEMMA NumberedIsPaced ==
  ASSUME NEW data, NEW num, Numbered(data, num)
  PROVE  Paced(data, num)
<1> DEFINE from == [p \in 1 .. Len(data) |-> p]
<1>1. Len(data) \in Nat /\ IsList(data) /\ Len(data) > 0
  BY Places DEF Numbered
<1>2. FromPlaces(data, num, data, num, from)
  <2>1. \A p \in 1 .. Len(data) : from[p] = p
    OBVIOUS
  <2>2. Len(data) \in 1 .. Len(data)
    BY <1>1
  <2>3. \A p \in 1 .. Len(data) - 1 : p \in 1 .. Len(data) /\ p < Len(data)
    BY <1>1
  <2> HIDE DEF from
  <2> QED
    BY <1>1, <2>1, <2>2, <2>3 DEF FromPlaces
<1>3. ASSUME NEW q \in 1 .. Len(data) - 1, data[from[q]] >= 256, NEW n \in Nat,
             \A p \in 1 .. q - 1 : data[from[p]] >= 256 => num[from[p]] < n,
             n = 0 \/ \E p \in 1 .. q - 1 : data[from[p]] >= 256 /\ num[from[p]] = n - 1
      PROVE  num[from[q]] >= n - 2 /\ num[from[q]] <= n + 2
  <2>1. \A p \in 1 .. q : from[p] = p /\ p \in 1 .. Len(data) - 1
    BY <1>1
  <2> HIDE DEF from
  <2>2. q \in 1 .. q /\ \A p \in 1 .. q - 1 : p \in 1 .. q /\ p < q
    OBVIOUS
  <2>3. data[q] >= 256 /\ num[q] \in Nat /\ from[q] = q
    BY <1>3, <2>1, <2>2, Places
  <2>4. num[q] <= n
    <3> SUFFICES ASSUME num[q] > n
                 PROVE  FALSE
      BY <2>3
    <3>1. PICK p \in 1 .. q - 1 : data[p] >= 256 /\ num[p] = n
      BY <2>3 DEF Numbered
    <3>2. from[p] = p
      BY <2>1, <2>2
    <3>3. num[from[p]] < n
      BY <1>3, <3>1, <3>2
    <3> QED
      BY <3>1, <3>2, <3>3
  <2>5. num[q] >= n
    <3>1. CASE n = 0
      BY <2>3, <3>1
    <3>2. CASE n # 0
      <4>1. PICK p \in 1 .. q - 1 : data[p] >= 256 /\ num[p] = n - 1
        BY <1>3, <2>1, <2>2, <3>2
      <4>2. num[p] < num[q]
        BY <2>1, <2>2, <2>3, <4>1 DEF Numbered
      <4> QED
        BY <2>3, <4>1, <4>2
    <3> QED
      BY <3>1, <3>2
  <2> QED
    BY <2>3, <2>4, <2>5
<1>4. \A q \in 1 .. Len(data) - 1 : data[from[q]] >= 256 => NearForetold(data, num, from, q)
  BY <1>3 DEF NearForetold
<1> QED
  BY <1>2, <1>4, PacedIfNear

\* The data the damaged scan is read from, and the numbers of its markers.
ArrivedNumbers ==
  LET num == RestartNumbers(file[1].data)
  IN  CASE damage.kind = "none" -> num
        [] damage.kind = "lost" ->
             NumbersAt(num, KeptPlace(file[1].data, damage.first, damage.last))
        [] damage.kind = "repeated" ->
             NumbersAt(num, RepeatedPlace(file[1].data, damage.first, damage.last))

\* The damage done is to a stretch with two restart markers at most.
DamageInv ==
  /\ damage # NoDamage => phase = "written"
  /\ RestartsInOrder(file[1].data) /\ damage # NoDamage =>
       /\ damage.kind \in {"lost", "repeated"}
       /\ Stretch(file[1].data, damage.first, damage.last)

LEMMA AtMostTwo ==
  ASSUME NEW S, IsFiniteSet(S), Cardinality(S) <= 2, NEW a \in S, NEW b \in S, NEW c \in S,
         a # b, a # c, b # c
  PROVE  FALSE
<1>1. {a, b, c} \subseteq S
  OBVIOUS
<1>2. Cardinality({a}) = 1 /\ IsFiniteSet({a})
  BY FS_Singleton
<1> DEFINE S1 == {a}
           S2 == S1 \cup {b}
<1>3. Cardinality(S2) = 2 /\ IsFiniteSet(S2)
  <2>1. b \notin S1 /\ IsFiniteSet(S1) /\ Cardinality(S1) = 1
    BY <1>2
  <2> HIDE DEF S1
  <2> QED
    BY <2>1, FS_AddElement
<1>4. Cardinality(({a} \cup {b}) \cup {c}) = 3
  <2>1. c \notin S2
    OBVIOUS
  <2>2. Cardinality(S2 \cup {c}) = 3
    <3> HIDE DEF S2
    <3>1. Cardinality(S2 \cup {c}) = Cardinality(S2) + 1
      BY <1>3, <2>1, FS_AddElement
    <3> QED BY <1>3, <3>1
  <2> QED
    BY <2>2
<1>5. {a, b, c} = ({a} \cup {b}) \cup {c}
  OBVIOUS
<1>6. Cardinality(({a} \cup {b}) \cup {c}) <= Cardinality(S)
  BY <1>1, <1>5, FS_Subset
<1>7. Cardinality(S) \in Nat
  BY FS_CardinalityType
<1> QED
  BY <1>4, <1>6, <1>7

LEMMA DamageDataStretch ==
  ASSUME RestartsInOrder(file[1].data), DamageData
  PROVE  damage'.kind \in {"lost", "repeated"}
         /\ Stretch(file[1].data, damage'.first, damage'.last)
<1> DEFINE data == file[1].data
<1>1. PICK kind \in {"lost", "repeated"}, first \in ByteStarts(data), end \in ByteStarts(data) :
        /\ first < end
        /\ Cardinality({p \in first .. end - 1 : IsMarker(data[p])}) <= 2
        /\ damage' = [kind |-> kind, first |-> first, last |-> end - 1]
  BY DEF DamageData
<1>2. DOMAIN data = 1 .. Len(data) /\ Len(data) \in Nat
  BY ListOf DEF RestartsInOrder
<1>3. ByteStarts(data) \subseteq DOMAIN data
  BY DEF ByteStarts
<1> HIDE DEF data
<1>4. first \in 1 .. Len(data) /\ end \in 1 .. Len(data) /\ first \in Int /\ end \in Int
  BY <1>1, <1>2, <1>3
<1>5. first \in 1 .. Len(data) /\ end - 1 \in first .. Len(data) - 1
  BY <1>1, <1>2, <1>4
<1> DEFINE S == {p \in first .. end - 1 : IsMarker(data[p])}
<1>6. IsFiniteSet(S)
  <2>1. S \subseteq first .. end - 1
    OBVIOUS
  <2>2. IsFiniteSet(first .. end - 1)
    BY <1>4, FS_Interval
  <2> HIDE DEF S
  <2> QED
    BY <2>1, <2>2, FS_Subset
<1>7. ASSUME NEW p \in first .. end - 1, NEW q \in first .. end - 1, NEW s \in first .. end - 1,
             p < q, q < s, data[p] >= 256, data[q] >= 256, data[s] >= 256
      PROVE  FALSE
  <2>1. p \in S /\ q \in S /\ s \in S
    BY <1>7 DEF IsMarker
  <2>2. p # q /\ p # s /\ q # s
    BY <1>4, <1>7
  <2>3. Cardinality(S) <= 2
    BY <1>1
  <2> HIDE DEF S
  <2> QED
    BY <1>6, <2>1, <2>2, <2>3, AtMostTwo
<1>8. damage'.kind = kind /\ damage'.first = first /\ damage'.last = end - 1
  BY <1>1
<1>9. Stretch(data, first, end - 1)
  BY <1>5, <1>7 DEF Stretch
<1> QED
  BY <1>8, <1>9 DEF data

LEMMA DamagedIsPaced ==
  ASSUME DamageInv, RestartsInOrder(file[1].data)
  PROVE  Paced(Data(1), ArrivedNumbers)
<1> DEFINE data == file[1].data
           num == RestartNumbers(data)
<1>1. Numbered(data, num)
  BY InOrderIsNumbered
<1>2. CASE damage = NoDamage
  <2>1. damage.kind = "none"
    BY <1>2 DEF NoDamage
  <2>2. Data(1) = data /\ ArrivedNumbers = num
    BY <2>1 DEF Data, ArrivedNumbers
  <2> HIDE DEF data, num
  <2> QED
    BY <1>1, <2>2, NumberedIsPaced
<1>3. CASE damage # NoDamage
  <2>1. damage.kind \in {"lost", "repeated"} /\ Stretch(data, damage.first, damage.last)
    BY <1>3 DEF DamageInv
  <2>2. CASE damage.kind = "lost"
    <3>1. Data(1) = Lost(data, damage.first, damage.last)
      BY <2>2 DEF Data, Lost, Spliced
    <3>2. ArrivedNumbers = NumbersAt(num, KeptPlace(data, damage.first, damage.last))
      BY <2>2 DEF ArrivedNumbers
    <3> HIDE DEF data, num
    <3> QED
      BY <1>1, <2>1, <3>1, <3>2, LostIsPaced
  <2>3. CASE damage.kind = "repeated"
    <3>1. Data(1) = Repeated(data, damage.first, damage.last)
      BY <2>3 DEF Data, Repeated, Spliced
    <3>2. ArrivedNumbers = NumbersAt(num, RepeatedPlace(data, damage.first, damage.last))
      BY <2>3 DEF ArrivedNumbers
    <3> HIDE DEF data, num
    <3> QED
      BY <1>1, <2>1, <3>1, <3>2, RepeatedIsPaced
  <2> QED
    BY <2>1, <2>2, <2>3
<1> QED
  BY <1>2, <1>3

\* Whatever stretch of the first scan is lost or comes twice, what arrives is
\* paced: resync_to_restart is not led astray by it (RestartsFound).
THEOREM DamagedScanIsPaced ==
  CodingSpec => [](RestartsInOrder(file[1].data) => Paced(Data(1), ArrivedNumbers))
<1>1. CodingInit => DamageInv
  BY DEF CodingInit, DamageInv
<1>2. CodingInv /\ DamageInv /\ [CodingNext]_codingVars => DamageInv'
  <2> SUFFICES ASSUME CodingInv, DamageInv, [CodingNext]_codingVars
               PROVE  DamageInv'
    OBVIOUS
  <2>1. CASE CompressStep
    <3>1. damage' = damage /\ phase = "encode"
      BY <2>1 DEF CompressStep, CompressNext, prepare_for_pass, EncodeMcu, finish_pass_master
    <3>2. damage = NoDamage
      BY <3>1 DEF DamageInv
    <3> QED
      BY <3>1, <3>2 DEF DamageInv
  <2>2. CASE DamageData
    <3>1. file' = file /\ phase' = phase /\ phase = "written"
      BY <2>2 DEF DamageData, compressor, Reading
    <3>2. RestartsInOrder(file[1].data) =>
            /\ damage'.kind \in {"lost", "repeated"}
            /\ Stretch(file[1].data, damage'.first, damage'.last)
      BY <2>2, DamageDataStretch
    <3> QED
      BY <3>1, <3>2 DEF DamageInv
  <2>3. CASE start_input_pass \/ DecodeMcu \/ finish_input_pass \/ UNCHANGED codingVars
    <3>1. file' = file /\ damage' = damage /\ phase' = phase
      BY <2>3 DEF start_input_pass, DecodeMcu, finish_input_pass, codingVars, compressor
    <3> QED
      BY <3>1 DEF DamageInv
  <2> QED
    BY <2>1, <2>2, <2>3 DEF CodingNext
<1>3. CodingSpec => []DamageInv
  BY <1>1, <1>2, CodingInvariant, PTL DEF CodingSpec
<1>4. DamageInv => (RestartsInOrder(file[1].data) => Paced(Data(1), ArrivedNumbers))
  BY DamagedIsPaced
<1> QED
  BY <1>3, <1>4, PTL

-----------------------------------------------------------------------------
(* Huffman codes. What the decoder derives from a table undoes what the      *)
(* encoder derives from it.                                                  *)

\* A function that is defined by recursion over an interval exists.
StepsIn(G, S, a, b) == G \in [S \X (a .. b) -> S]
Iterates(f, base, G, a, b) ==
  \A n \in a .. b : f[n] = IF n = a THEN base ELSE G[<< f[n - 1], n >>]

LEMMA Recursion ==
  ASSUME NEW a \in Nat, NEW b \in Nat, a <= b, NEW S, NEW base \in S,
         NEW G, StepsIn(G, S, a, b)
  PROVE  \E f \in [a .. b -> S] : Iterates(f, base, G, a, b)
<1> USE DEF StepsIn, Iterates
<1> DEFINE Is(f, m) == \A n \in a .. m : f[n] = IF n = a THEN base ELSE G[<< f[n - 1], n >>]
           A == {m \in a .. b : \E f \in [a .. m -> S] : Is(f, m)}
<1>1. a \in A
  <2> DEFINE g == [n \in a .. a |-> base]
  <2>1. g \in [a .. a -> S] /\ Is(g, a)
    OBVIOUS
  <2>2. a \in a .. b
    OBVIOUS
  <2> HIDE DEF Is, g
  <2> QED
    BY <2>1, <2>2
<1>2. ASSUME NEW m \in a .. b, m < b, m \in A
      PROVE  m + 1 \in A
  <2>1. PICK f \in [a .. m -> S] : Is(f, m)
    BY <1>2
  <2> DEFINE next == G[<< f[m], m + 1 >>]
             g == [n \in a .. m + 1 |-> IF n = m + 1 THEN next ELSE f[n]]
  <2>2. m \in a .. m /\ m + 1 \in a .. b /\ m \in Int
    BY <1>2
  <2>3. next \in S
    BY <2>2
  <2>4. \A n \in a .. m + 1 : n # m + 1 => n \in a .. m
    BY <2>2
  <2>5. g \in [a .. m + 1 -> S]
    <3> HIDE DEF next
    <3> QED BY <2>3, <2>4
  <2>6. \A n \in a .. m : g[n] = f[n] /\ n \in a .. m + 1 /\ n # m + 1
    BY <2>2
  <2>7. g[m + 1] = G[<< g[m], m + 1 >>] /\ m + 1 # a
    <3>1. m + 1 \in a .. m + 1 /\ m + 1 # a
      BY <2>2
    <3>2. g[m + 1] = next
      BY <3>1
    <3>3. g[m] = f[m]
      BY <2>2, <2>6
    <3> QED
      BY <3>1, <3>2, <3>3
  <2>8. \A n \in a .. m : f[n] = IF n = a THEN base ELSE G[<< f[n - 1], n >>]
    BY <2>1
  <2>9. \A n \in a .. m : n = a \/ n - 1 \in a .. m
    BY <2>2
  <2>10. \A n \in a .. m + 1 : g[n] = IF n = a THEN base ELSE G[<< g[n - 1], n >>]
    <3> SUFFICES ASSUME NEW n \in a .. m + 1
                 PROVE  g[n] = IF n = a THEN base ELSE G[<< g[n - 1], n >>]
      OBVIOUS
    <3> HIDE DEF g, next
    <3>1. CASE n = m + 1
      <4>1. n - 1 = m
        BY <3>1, <2>2
      <4> QED
        BY <3>1, <4>1, <2>7
    <3>2. CASE n # m + 1
      <4>1. n \in a .. m
        BY <3>2, <2>4
      <4> QED
        BY <4>1, <2>6, <2>8, <2>9
    <3> QED
      BY <3>1, <3>2
  <2>11. Is(g, m + 1)
    <3> HIDE DEF g
    <3> QED BY <2>10
  <2> HIDE DEF g, Is
  <2> QED
    BY <2>2, <2>5, <2>11
<1>3. b \in A
  <2> HIDE DEF A
  <2>1. a .. b \subseteq A
    BY <1>1, <1>2, UpTheInterval
  <2> QED
    BY <2>1
<1> QED
  BY <1>3

LEMMA Powers ==
  /\ \A k \in 0 .. 16 : 2 ^ k \in Nat /\ 2 ^ k >= 1
  /\ \A k \in 0 .. 15 : 2 ^ (k + 1) = 2 * 2 ^ k
  /\ 2 ^ 0 = 1
<1>1. \A k : /\ (k = 0 => 2 ^ k = 2 ^ 0) /\ (k = 1 => 2 ^ k = 2 ^ 1)
             /\ (k = 2 => 2 ^ k = 2 ^ 2) /\ (k = 3 => 2 ^ k = 2 ^ 3)
             /\ (k = 4 => 2 ^ k = 2 ^ 4) /\ (k = 5 => 2 ^ k = 2 ^ 5)
             /\ (k = 6 => 2 ^ k = 2 ^ 6) /\ (k = 7 => 2 ^ k = 2 ^ 7)
             /\ (k = 8 => 2 ^ k = 2 ^ 8) /\ (k = 9 => 2 ^ k = 2 ^ 9)
             /\ (k = 10 => 2 ^ k = 2 ^ 10) /\ (k = 11 => 2 ^ k = 2 ^ 11)
             /\ (k = 12 => 2 ^ k = 2 ^ 12) /\ (k = 13 => 2 ^ k = 2 ^ 13)
             /\ (k = 14 => 2 ^ k = 2 ^ 14) /\ (k = 15 => 2 ^ k = 2 ^ 15)
             /\ (k = 16 => 2 ^ k = 2 ^ 16)
  BY Zenon
<1>2. ASSUME NEW k \in 0 .. 16
      PROVE  2 ^ k \in Nat /\ 2 ^ k >= 1
  <2>1. k \in {0, 1, 2, 3, 4, 5, 6, 7, 8, 9, 10, 11, 12, 13, 14, 15, 16}
    OBVIOUS
  <2> QED
    BY <1>1, <2>1
<1>3. ASSUME NEW k \in 0 .. 15
      PROVE  2 ^ (k + 1) = 2 * 2 ^ k
  <2>1. k \in {0, 1, 2, 3, 4, 5, 6, 7, 8, 9, 10, 11, 12, 13, 14, 15}
    OBVIOUS
  <2> QED
    BY <1>1, <2>1
<1>4. 2 ^ 0 = 1
  OBVIOUS
<1> QED
  BY <1>2, <1>3, <1>4

LEMMA GreatestOf ==
  ASSUME NEW n \in Nat, NEW S \in SUBSET (0 .. n), S # {}
  PROVE  Max(S) \in S /\ \A x \in S : x <= Max(S)
<1> DEFINE T == {n - x : x \in S}
<1>1. \A x \in S : x \in 0 .. n /\ n - x \in T /\ n - x \in 0 .. n
  OBVIOUS
<1>2. T \in SUBSET (0 .. n) /\ T # {}
  BY <1>1
<1>3. Min(T) \in T /\ \A y \in T : Min(T) <= y
  <2> HIDE DEF T
  <2> QED BY <1>2, LeastOf
<1>4. PICK m \in S : Min(T) = n - m
  BY <1>3
<1>5. \A x \in S : x <= m
  <2> SUFFICES ASSUME NEW x \in S
               PROVE  x <= m
    OBVIOUS
  <2>1. n - m <= n - x
    BY <1>1, <1>3, <1>4
  <2> QED
    BY <1>1, <2>1
<1>6. \A z \in S : (\A y \in S : z >= y) => z = m
  BY <1>1, <1>5
<1>7. \A y \in S : m >= y
  BY <1>1, <1>5
<1>8. Max(S) = m
  BY <1>6, <1>7 DEF Max
<1> QED
  BY <1>5, <1>8

-----------------------------------------------------------------------------
Ascends(s, l) ==
  /\ s \in Seq(1 .. 16)
  /\ \A p \in 1 .. Len(s) : s[p] <= l /\ \A q \in p .. Len(s) : s[p] <= s[q]

\* More codes, of length l.
LEMMA AscendMore ==
  ASSUME NEW n \in 1 .. 16, NEW s, Ascends(s, n - 1), NEW c \in Nat
  PROVE  Ascends(s \o [i \in 1 .. c |-> n], n)
<1> DEFINE t == [i \in 1 .. c |-> n]
           u == s \o t
<1>1. t \in Seq(1 .. 16) /\ Len(t) = c
  <2>1. t \in [1 .. c -> 1 .. 16]
    OBVIOUS
  <2> HIDE DEF t
  <2> QED
    BY <2>1, SeqDef, LenProperties
<1>2. s \in Seq(1 .. 16) /\ Len(s) \in Nat /\ \A p \in 1 .. Len(s) : s[p] \in 1 .. 16
  BY LenProperties DEF Ascends
<1>3. /\ u \in Seq(1 .. 16) /\ Len(u) = Len(s) + c
      /\ \A p \in 1 .. Len(s) + c : u[p] = IF p <= Len(s) THEN s[p] ELSE t[p - Len(s)]
  <2> HIDE DEF t
  <2> QED BY <1>1, <1>2, ConcatProperties
<1>4. \A p \in 1 .. c : t[p] = n
  OBVIOUS
<1> HIDE DEF t, u
<1>5. \A p \in 1 .. Len(u) : (p <= Len(s) /\ u[p] = s[p]) \/ (p > Len(s) /\ u[p] = n)
  <2> SUFFICES ASSUME NEW p \in 1 .. Len(u)
               PROVE  (p <= Len(s) /\ u[p] = s[p]) \/ (p > Len(s) /\ u[p] = n)
    OBVIOUS
  <2>1. CASE p <= Len(s)
    BY <1>2, <1>3, <2>1
  <2>2. CASE ~(p <= Len(s))
    <3>1. p - Len(s) \in 1 .. c
      BY <1>2, <1>3, <2>2
    <3> QED
      BY <1>2, <1>3, <1>4, <2>2, <3>1
  <2> QED
    BY <2>1, <2>2
<1>6. ASSUME NEW p \in 1 .. Len(u)
      PROVE  u[p] <= n /\ \A q \in p .. Len(u) : u[p] <= u[q]
  <2>1. CASE p <= Len(s)
    <3>1. u[p] = s[p] /\ s[p] <= n - 1 /\ s[p] \in Int /\ n \in Int
      BY <1>2, <1>5, <2>1 DEF Ascends
    <3>2. ASSUME NEW q \in p .. Len(u)
          PROVE  u[p] <= u[q]
      <4>1. q \in 1 .. Len(u)
        BY <1>2, <1>3
      <4>2. q <= Len(s) => s[p] <= s[q]
        BY <1>2, <2>1, <4>1 DEF Ascends
      <4>3. CASE q <= Len(s)
        <5>1. u[q] = s[q]
          BY <1>5, <4>1, <4>3
        <5> QED
          BY <3>1, <4>2, <4>3, <5>1
      <4>4. CASE ~(q <= Len(s))
        <5>1. u[q] = n
          BY <1>5, <4>1, <4>4
        <5> QED
          BY <3>1, <5>1
      <4> QED
        BY <4>3, <4>4
    <3> QED
      BY <3>1, <3>2
  <2>2. CASE ~(p <= Len(s))
    <3>1. u[p] = n
      BY <1>5, <2>2
    <3>2. ASSUME NEW q \in p .. Len(u)
          PROVE  u[q] = n
      BY <1>2, <1>3, <1>5, <2>2
    <3> QED
      BY <3>1, <3>2
  <2> QED
    BY <2>1, <2>2
<1>7. Ascends(u, n)
  BY <1>3, <1>6 DEF Ascends
<1> QED
  BY <1>7 DEF u, t

LEMMA SizesAscend ==
  ASSUME NEW tbl, tbl.bits \in [1 .. 16 -> Nat]
  PROVE  Ascends(HuffSizes(tbl), 16)
<1> DEFINE seqs == [l \in 1 .. 16 |-> [i \in 1 .. tbl.bits[l] |-> l]]
           S == Seq(1 .. 16)
           G == [x \in S \X (1 .. 16) |-> x[1] \o seqs[x[2]]]
<1>1. \A l \in 1 .. 16 : seqs[l] = [i \in 1 .. tbl.bits[l] |-> l] /\ tbl.bits[l] \in Nat
  OBVIOUS
<1>2. \A l \in 1 .. 16 : seqs[l] \in S
  <2> SUFFICES ASSUME NEW l \in 1 .. 16
               PROVE  seqs[l] \in S
    OBVIOUS
  <2>1. seqs[l] \in [1 .. tbl.bits[l] -> 1 .. 16]
    BY <1>1
  <2>2. tbl.bits[l] \in Nat
    OBVIOUS
  <2> HIDE DEF seqs
  <2> QED
    BY <2>1, <2>2, FunctionIsSeq
<1>3. Len(seqs) = 16
  <2>1. seqs \in [1 .. 16 -> S]
    <3> HIDE DEF S
    <3> QED BY <1>2
  <2> HIDE DEF seqs, S
  <2>2. 16 \in Nat
    OBVIOUS
  <2> QED
    BY <2>1, <2>2, FunctionIsSeq
<1> DEFINE F == CHOOSE f :
                  f = [i \in 1 .. Len(seqs) |->
                         IF i = 1 THEN seqs[i] ELSE f[i - 1] \o seqs[i]]
<1>4. HuffSizes(tbl) = F[16]
  <2>1. HuffSizes(tbl) = FlattenSeq(seqs)
    BY DEF HuffSizes
  <2> HIDE DEF seqs
  <2>2. FlattenSeq(seqs) = IF Len(seqs) = 0 THEN seqs ELSE F[Len(seqs)]
    BY Zenon DEF FlattenSeq
  <2> HIDE DEF F
  <2> QED
    BY <1>3, <2>1, <2>2
<1> HIDE DEF seqs
<1>5. F = [i \in 1 .. 16 |-> IF i = 1 THEN seqs[i] ELSE F[i - 1] \o seqs[i]]
  <2>1. G \in [S \X (1 .. 16) -> S]
    <3>1. \A x \in S \X (1 .. 16) : x[1] \in S /\ seqs[x[2]] \in S
      BY <1>2
    <3>2. \A x \in S \X (1 .. 16) : x[1] \o seqs[x[2]] \in S
      BY <3>1, ConcatProperties
    <3> QED
      BY <3>2
  <2>2. seqs[1] \in S
    BY <1>2
  <2>3. \A g \in S, n \in 1 .. 16 : G[<< g, n >>] = g \o seqs[n]
    OBVIOUS
  <2> HIDE DEF G, S
  <2>4. PICK f \in [1 .. 16 -> S] :
          \A n \in 1 .. 16 : f[n] = IF n = 1 THEN seqs[1] ELSE G[<< f[n - 1], n >>]
    <3> DEFINE a == 1
               b == 16
               base == seqs[1]
    <3>1. a \in Nat /\ b \in Nat /\ a <= b
      OBVIOUS
    <3>2. StepsIn(G, S, a, b) /\ base \in S
      BY <2>1, <2>2 DEF StepsIn
    <3> HIDE DEF a, b, base
    <3>3. \E f \in [a .. b -> S] : Iterates(f, base, G, a, b)
      BY <3>1, <3>2, Recursion
    <3> QED
      BY <3>3 DEF a, b, base, Iterates
  <2>5. ASSUME NEW n \in 1 .. 16, n # 1
        PROVE  G[<< f[n - 1], n >>] = f[n - 1] \o seqs[n]
    <3>1. n - 1 \in 1 .. 16
      BY <2>5
    <3>2. f[n - 1] \in S
      BY <3>1
    <3> QED
      BY <2>3, <3>2
  <2>6. f = [n \in 1 .. 16 |-> IF n = 1 THEN seqs[n] ELSE f[n - 1] \o seqs[n]]
    <3>1. \A n \in 1 .. 16 : f[n] = IF n = 1 THEN seqs[n] ELSE f[n - 1] \o seqs[n]
      BY <2>4, <2>5, Zenon
    <3> QED
      BY <3>1, Zenon
  <2>7. f = [n \in 1 .. Len(seqs) |-> IF n = 1 THEN seqs[n] ELSE f[n - 1] \o seqs[n]]
    BY <1>3, <2>6
  <2>8. F = [n \in 1 .. Len(seqs) |-> IF n = 1 THEN seqs[n] ELSE F[n - 1] \o seqs[n]]
    BY <2>7, Zenon
  <2> HIDE DEF F
  <2> QED
    BY <1>3, <2>8
<1> HIDE DEF F
<1> DEFINE A == {n \in 1 .. 16 : Ascends(F[n], n)}
<1>6. 1 \in A
  <2>1. F[1] = [i \in 1 .. tbl.bits[1] |-> 1] /\ tbl.bits[1] \in Nat
    <3>1. 1 \in 1 .. 16
      OBVIOUS
    <3>2. F[1] = seqs[1]
      BY <1>5, <3>1, Zenon
    <3> QED
      BY <1>1, <3>1, <3>2
  <2>2. Len(F[1]) = tbl.bits[1] /\ F[1] \in Seq(1 .. 16)
    <3> DEFINE c == tbl.bits[1]
    <3>1. F[1] \in [1 .. c -> 1 .. 16] /\ c \in Nat
      BY <2>1
    <3> HIDE DEF c
    <3>2. Len(F[1]) = c /\ F[1] \in Seq(1 .. 16)
      BY <3>1, FunctionIsSeq
    <3> QED
      BY <3>2 DEF c
  <2>3. \A p \in 1 .. Len(F[1]) : F[1][p] = 1
    BY <2>1, <2>2
  <2>4. \A p \in 1 .. Len(F[1]) : \A q \in p .. Len(F[1]) : q \in 1 .. Len(F[1])
    BY <2>1, <2>2
  <2>5. Ascends(F[1], 1)
    <3>1. ASSUME NEW p \in 1 .. Len(F[1])
          PROVE  F[1][p] <= 1 /\ \A q \in p .. Len(F[1]) : F[1][p] <= F[1][q]
      <4>1. F[1][p] = 1
        BY <2>3
      <4>2. ASSUME NEW q \in p .. Len(F[1])
            PROVE  F[1][q] = 1
        BY <2>3, <2>4
      <4>3. 1 <= 1
        OBVIOUS
      <4> QED
        BY <4>1, <4>2, <4>3, Zenon
    <3> QED
      BY <2>2, <3>1 DEF Ascends
  <2> QED
    BY <2>5
<1>7. ASSUME NEW n \in 1 .. 16, n < 16, n \in A
      PROVE  n + 1 \in A
  <2>1. n + 1 \in 1 .. 16 /\ (n + 1) - 1 = n /\ n + 1 # 1
    BY <1>7
  <2>2. F[n + 1] = F[n] \o seqs[n + 1]
    BY <1>5, <2>1
  <2>3. Ascends(F[n], n)
    BY <1>7
  <2>4. Ascends(F[n] \o [i \in 1 .. tbl.bits[n + 1] |-> n + 1], n + 1)
    BY <1>1, <2>1, <2>3, AscendMore
  <2>5. Ascends(F[n + 1], n + 1)
    BY <1>1, <2>1, <2>2, <2>4
  <2> QED
    BY <2>1, <2>5
<1>8. 16 \in A
  <2> HIDE DEF A
  <2>1. 1 .. 16 \subseteq A
    BY <1>6, <1>7, UpTheInterval
  <2> QED
    BY <2>1
<1> QED
  BY <1>4, <1>8

\* The codes of one length follow each other.
OfSize(s, l) == {p \in DOMAIN s : s[p] = l}
SizeIs(s, l, a, b) ==
  /\ a \in 1 .. Len(s) /\ b \in a .. Len(s) /\ OfSize(s, l) = a .. b
  /\ Cardinality(OfSize(s, l)) = (b - a) + 1

LEMMA OneSize ==
  ASSUME NEW s, Ascends(s, 16), NEW l, OfSize(s, l) # {}
  PROVE  SizeIs(s, l, Min(OfSize(s, l)), Max(OfSize(s, l)))
<1> DEFINE n == Len(s)
           T == OfSize(s, l)
           a == Min(T)
           b == Max(T)
<1>1. n \in Nat /\ DOMAIN s = 1 .. n /\ \A p \in 1 .. n : s[p] \in Int
  <2>1. s \in Seq(1 .. 16)
    BY DEF Ascends
  <2>2. \A i \in 1 .. 16 : i \in Int
    OBVIOUS
  <2> QED
    BY <2>1, <2>2, LenProperties
<1>2. T \in SUBSET (1 .. n) /\ T \in SUBSET (0 .. n) /\ T # {}
  BY <1>1 DEF OfSize
<1>3. a \in T /\ \A x \in T : a <= x
  <2> HIDE DEF T
  <2> QED BY <1>1, <1>2, LeastOf
<1>4. b \in T /\ \A x \in T : x <= b
  <2> HIDE DEF T
  <2> QED BY <1>1, <1>2, GreatestOf
<1> HIDE DEF a, b
<1>5. a \in 1 .. n /\ b \in 1 .. n /\ a <= b
  BY <1>2, <1>3, <1>4
<1>6. s[a] = l /\ s[b] = l
  BY <1>3, <1>4 DEF OfSize
<1>7. ASSUME NEW p \in a .. b
      PROVE  p \in T
  <2>1. p \in 1 .. n
    BY <1>1, <1>5
  <2>2. s[a] <= s[p] /\ s[p] <= s[b]
    <3>1. p \in a .. Len(s) /\ b \in p .. Len(s)
      BY <1>1, <1>5, <2>1
    <3>2. \A q \in a .. Len(s) : s[a] <= s[q]
      BY <1>5 DEF Ascends
    <3>3. \A q \in p .. Len(s) : s[p] <= s[q]
      BY <2>1 DEF Ascends
    <3> QED
      BY <3>1, <3>2, <3>3
  <2>3. s[p] = l
    BY <1>1, <1>5, <1>6, <2>1, <2>2
  <2> QED
    BY <1>1, <2>1, <2>3 DEF OfSize
<1>8. ASSUME NEW p \in T
      PROVE  p \in a .. b
  BY <1>1, <1>2, <1>3, <1>4, <1>5
<1>9. T = a .. b
  <2> HIDE DEF T
  <2> QED BY <1>7, <1>8
<1>10. Cardinality(a .. b) = (b - a) + 1
  <2>1. a \in Int /\ b \in Int /\ ~(a > b)
    BY <1>1, <1>5
  <2> QED
    BY <2>1, FS_Interval
<1> QED
  BY <1>1, <1>5, <1>9, <1>10 DEF SizeIs, a, b

\* The codes of one length are consecutive numbers, and those of the next length
\* continue after them.
FirstCodes(s, first) ==
  /\ first \in [0 .. 16 -> Nat]
  /\ \A l \in 1 .. 16 : first[l] = 2 * (first[l - 1] + Cardinality(OfSize(s, l - 1)))

LEMMA CountBelow ==
  ASSUME NEW a \in Int, NEW p \in Int, a <= p
  PROVE  Cardinality(a .. p - 1) = p - a
<1>1. Cardinality(a .. p - 1) = IF a > p - 1 THEN 0 ELSE (p - 1) - a + 1
  BY FS_Interval
<1> QED
  BY <1>1

LEMMA Below ==
  ASSUME NEW a \in Int, NEW b \in Int, NEW p \in a .. b
  PROVE  {q \in a .. b : q < p} = a .. p - 1
OBVIOUS

LEMMA CodesOf ==
  ASSUME NEW s, Ascends(s, 16)
  PROVE  \E first : /\ FirstCodes(s, first)
                    /\ \A p \in 1 .. Len(s) :
                         HuffCodes(s)[p] = first[s[p]] + (p - Min(OfSize(s, s[p])))
<1> DEFINE At(l) == {p \in DOMAIN s : s[p] = l}
           F == CHOOSE f : f = [l \in 0 .. 16 |->
                  IF l = 0 THEN 0 ELSE 2 * (f[l - 1] + Cardinality(At(l - 1)))]
           G == [x \in Nat \X (0 .. 16) |-> 2 * (x[1] + Cardinality(OfSize(s, x[2] - 1)))]
<1>1. /\ Len(s) \in Nat /\ DOMAIN s = 1 .. Len(s)
      /\ \A p \in 1 .. Len(s) : s[p] \in 1 .. 16
  BY LenProperties DEF Ascends
<1>2. \A l : At(l) = OfSize(s, l)
  BY DEF OfSize
<1>3. HuffCodes(s) =
        [p \in DOMAIN s |-> F[s[p]] + Cardinality({q \in At(s[p]) : q < p})]
  BY Zenon DEF HuffCodes
<1> HIDE DEF At
<1>4. \A l : Cardinality(OfSize(s, l)) \in Nat
  <2> SUFFICES ASSUME NEW l
               PROVE  Cardinality(OfSize(s, l)) \in Nat
    OBVIOUS
  <2>1. IsFiniteSet(1 .. Len(s))
    BY <1>1, FS_Interval
  <2>2. OfSize(s, l) \subseteq 1 .. Len(s)
    BY <1>1 DEF OfSize
  <2> QED
    BY <2>1, <2>2, FS_Subset, FS_CardinalityType
<1>5. StepsIn(G, Nat, 0, 16)
  <2>1. \A x \in Nat \X (0 .. 16) : 2 * (x[1] + Cardinality(OfSize(s, x[2] - 1))) \in Nat
    BY <1>4
  <2> QED
    BY <2>1 DEF StepsIn
<1>6. \A x \in Nat, l \in 0 .. 16 : G[<< x, l >>] = 2 * (x + Cardinality(OfSize(s, l - 1)))
  OBVIOUS
<1> HIDE DEF G
<1>7. PICK f \in [0 .. 16 -> Nat] : Iterates(f, 0, G, 0, 16)
  <2> DEFINE b == 16
  <2>1. 0 \in Nat /\ b \in Nat /\ 0 <= b /\ StepsIn(G, Nat, 0, b)
    BY <1>5
  <2> HIDE DEF b
  <2>2. \E f \in [0 .. b -> Nat] : Iterates(f, 0, G, 0, b)
    BY <2>1, Recursion
  <2> QED
    BY <2>2 DEF b
<1>8. \A l \in 0 .. 16 :
        f[l] = IF l = 0 THEN 0 ELSE 2 * (f[l - 1] + Cardinality(OfSize(s, l - 1)))
  <2> SUFFICES ASSUME NEW l \in 0 .. 16, l # 0
               PROVE  f[l] = 2 * (f[l - 1] + Cardinality(OfSize(s, l - 1)))
    BY <1>7 DEF Iterates
  <2>1. l - 1 \in 0 .. 16
    OBVIOUS
  <2>2. f[l - 1] \in Nat
    BY <2>1
  <2>3. f[l] = G[<< f[l - 1], l >>]
    BY <1>7 DEF Iterates
  <2> QED
    BY <1>6, <2>2, <2>3
<1>9. F = [l \in 0 .. 16 |->
             IF l = 0 THEN 0 ELSE 2 * (F[l - 1] + Cardinality(At(l - 1)))]
  <2>1. f = [l \in 0 .. 16 |->
               IF l = 0 THEN 0 ELSE 2 * (f[l - 1] + Cardinality(At(l - 1)))]
    BY <1>2, <1>8, Zenon
  <2> QED
    BY <2>1, Zenon
<1> HIDE DEF F
<1>10. FirstCodes(s, F)
  <2>1. \A l \in 0 .. 16 :
          F[l] = IF l = 0 THEN 0 ELSE 2 * (F[l - 1] + Cardinality(OfSize(s, l - 1)))
    BY <1>2, <1>9, Zenon
  <2> DEFINE b == 16
             A == {l \in 0 .. b : F[l] \in Nat}
  <2>2. b \in Nat
    OBVIOUS
  <2>3. \A l \in 0 .. b :
          F[l] = IF l = 0 THEN 0 ELSE 2 * (F[l - 1] + Cardinality(OfSize(s, l - 1)))
    BY <2>1
  <2> HIDE DEF b
  <2>4. 0 \in A
    BY <2>2, <2>3
  <2>5. ASSUME NEW l \in 0 .. b, l < b, l \in A
        PROVE  l + 1 \in A
    <3>1. l + 1 \in 0 .. b /\ (l + 1) - 1 = l /\ l + 1 # 0 /\ F[l] \in Nat
      BY <2>2, <2>5
    <3>2. F[l + 1] = 2 * (F[l] + Cardinality(OfSize(s, l)))
      BY <2>3, <3>1
    <3>3. F[l + 1] \in Nat
      BY <1>4, <3>1, <3>2
    <3> QED
      BY <3>1, <3>3
  <2>6. \A l \in 0 .. b : F[l] \in Nat
    <3>1. 0 .. b \subseteq A
      <4> HIDE DEF A
      <4> QED BY <2>2, <2>4, <2>5, UpTheInterval
    <3> QED
      BY <3>1
  <2>7. F \in [0 .. 16 -> Nat]
    BY <1>9, <2>6 DEF b
  <2>8. \A l \in 1 .. 16 : l \in 0 .. 16 /\ l # 0
    OBVIOUS
  <2> QED
    BY <2>1, <2>7, <2>8, Zenon DEF FirstCodes
<1>11. ASSUME NEW p \in 1 .. Len(s)
       PROVE  HuffCodes(s)[p] = F[s[p]] + (p - Min(OfSize(s, s[p])))
  <2> DEFINE T == OfSize(s, s[p])
             a == Min(T)
             b == Max(T)
  <2>1. p \in T
    BY <1>1 DEF OfSize
  <2>2. SizeIs(s, s[p], a, b)
    BY <2>1, OneSize
  <2>3. HuffCodes(s)[p] = F[s[p]] + Cardinality({q \in T : q < p})
    BY <1>1, <1>2, <1>3
  <2> HIDE DEF T, a, b
  <2>4. T = a .. b /\ a \in Nat /\ b \in Nat
    BY <1>1, <2>2 DEF T, SizeIs
  <2>5. {q \in T : q < p} = a .. p - 1 /\ a <= p
    <3>1. p \in Int /\ a <= p /\ p <= b
      BY <1>1, <2>1, <2>4
    <3>2. p \in a .. b /\ a \in Int /\ b \in Int
      BY <2>4, <3>1
    <3> QED
      BY <2>4, <3>1, <3>2, Below
  <2>6. Cardinality(a .. p - 1) = p - a
    <3>1. a \in Int /\ p \in Int /\ a <= p
      BY <2>4, <2>5
    <3> QED
      BY ONLY <3>1, CountBelow
  <2> QED
    BY <2>3, <2>5, <2>6 DEF a, T
<1> QED
  BY <1>10, <1>11

\* The first bits of a number are the number divided by a power of two.
LEMMA Halved ==
  ASSUME NEW v \in Nat, NEW k \in 0 .. 15
  PROVE  /\ v \div 2 ^ k \in Nat
         /\ v \div 2 ^ (k + 1) = (v \div 2 ^ k) \div 2
<1> DEFINE P == 2 ^ k
<1>1. P \in Nat /\ P >= 1 /\ 2 ^ (k + 1) = 2 * P
  <2>1. k \in 0 .. 16
    OBVIOUS
  <2>2. 2 ^ (k + 1) = 2 * P
    BY Powers
  <2> QED
    BY <2>1, <2>2, Powers
<1> HIDE DEF P
<1>2. v \div P \in Nat
  BY <1>1
<1>3. v \div (2 * P) = (v \div P) \div 2
  BY <1>1
<1> QED
  BY <1>1, <1>2, <1>3 DEF P

Codeword(c, n) == n \in 1 .. 16 /\ c \in 0 .. 2 ^ n - 1

\* Data from q on holds the n low bits of c, high bit first.
Holds(data, q, c, n) == \A i \in 1 .. n : data[(q - 1) + i] = BitsOf(c, n)[i]

LEMMA BitsRead ==
  ASSUME NEW data, NEW q \in Nat, q >= 1, NEW n \in 1 .. 16, NEW c \in 0 .. 2 ^ n - 1,
         Holds(data, q, c, n), NEW m \in 0 .. n
  PROVE  BitsValue(data, q, (q - 1) + m) = c \div 2 ^ (n - m)
<1> DEFINE a == q - 1
           b == (q - 1) + m
           F == CHOOSE f : f = [x \in a .. b |-> IF x < q THEN 0 ELSE 2 * f[x - 1] + data[x]]
           G == [x \in Nat \X (a .. b) |-> IF x[2] > a THEN 2 * x[1] + data[x[2]] ELSE 0]
<1>1. a \in Nat /\ b \in Nat /\ a <= b /\ n \in Nat /\ m \in Nat /\ c \in Nat
  BY Powers
<1>2. BitsValue(data, q, b) = F[b]
  BY Zenon DEF BitsValue
<1>3. ASSUME NEW j \in 0 .. m, j < m
      PROVE  /\ data[a + (j + 1)] = (c \div 2 ^ (n - (j + 1))) % 2
             /\ c \div 2 ^ (n - (j + 1)) \in Nat
             /\ c \div 2 ^ (n - j) = (c \div 2 ^ (n - (j + 1))) \div 2
  <2> DEFINE i == j + 1
             k == n - i
  <2>1. i \in 1 .. n /\ k \in 0 .. 15 /\ n - j = k + 1
    BY <1>1, <1>3
  <2>2. data[a + i] = BitsOf(c, n)[i]
    BY <2>1 DEF Holds
  <2>3. data[a + i] = (c \div 2 ^ k) % 2
    BY <2>1, <2>2 DEF BitsOf
  <2> HIDE DEF k
  <2>4. c \div 2 ^ k \in Nat /\ c \div 2 ^ (k + 1) = (c \div 2 ^ k) \div 2
    BY <1>1, <2>1, Halved
  <2> QED
    BY <2>1, <2>3, <2>4 DEF k
<1> HIDE DEF a
<1>4. a + m = b /\ q = a + 1
  BY <1>1 DEF a
<1>5. ASSUME NEW x \in a .. b, x > a
      PROVE  data[x] \in Nat
  <2> DEFINE j == (x - a) - 1
  <2>1. j \in 0 .. m /\ j < m /\ a + (j + 1) = x
    BY <1>1, <1>4, <1>5
  <2> HIDE DEF j
  <2> DEFINE u == c \div 2 ^ (n - (j + 1))
  <2>2. data[x] = u % 2 /\ u \in Nat
    BY <1>3, <2>1
  <2> HIDE DEF u
  <2> QED
    BY <2>2
<1> HIDE DEF b
<1>6. StepsIn(G, Nat, a, b)
  <2>1. \A x \in Nat \X (a .. b) : (IF x[2] > a THEN 2 * x[1] + data[x[2]] ELSE 0) \in Nat
    BY <1>1, <1>5
  <2> QED
    BY <2>1 DEF StepsIn
<1>7. \A v \in Nat, x \in a .. b : x > a => G[<< v, x >>] = 2 * v + data[x]
  OBVIOUS
<1> HIDE DEF G
<1>8. PICK f \in [a .. b -> Nat] : Iterates(f, 0, G, a, b)
  BY <1>1, <1>6, Recursion
<1>9. \A x \in a .. b : f[x] = IF x < q THEN 0 ELSE 2 * f[x - 1] + data[x]
  <2> SUFFICES ASSUME NEW x \in a .. b
               PROVE  f[x] = IF x < q THEN 0 ELSE 2 * f[x - 1] + data[x]
    OBVIOUS
  <2>1. CASE x = a
    <3>1. f[x] = 0
      BY <1>8, <2>1 DEF Iterates
    <3>2. x < q
      BY <1>1, <1>4, <2>1
    <3> QED
      BY <3>1, <3>2
  <2>2. CASE x # a
    <3>1. x > a /\ ~(x < q) /\ x - 1 \in a .. b
      BY <1>1, <1>4, <2>2
    <3>2. f[x - 1] \in Nat
      BY <3>1
    <3>3. f[x] = G[<< f[x - 1], x >>]
      BY <1>8, <2>2 DEF Iterates
    <3> QED
      BY <1>7, <3>1, <3>2, <3>3
  <2> QED
    BY <2>1, <2>2
<1>10. F = [x \in a .. b |-> IF x < q THEN 0 ELSE 2 * F[x - 1] + data[x]]
  <2>1. f = [x \in a .. b |-> IF x < q THEN 0 ELSE 2 * f[x - 1] + data[x]]
    BY <1>9, Zenon
  <2> QED
    BY <2>1, Zenon
<1> HIDE DEF F
<1> DEFINE A == {j \in 0 .. m : F[a + j] = c \div 2 ^ (n - j)}
<1>11. 0 \in A
  <2>1. F[a + 0] = 0
    BY <1>1, <1>4, <1>10
  <2>2. c \div 2 ^ (n - 0) = 0
    <3> DEFINE P == 2 ^ n
    <3>1. P \in Nat /\ P >= 1 /\ c \in 0 .. P - 1
      BY Powers
    <3>2. n - 0 = n
      BY <1>1
    <3> HIDE DEF P
    <3>3. c \div P = 0
      BY <3>1
    <3> QED
      BY <3>2, <3>3 DEF P
  <2> QED
    BY <1>1, <2>1, <2>2
<1>12. ASSUME NEW j \in 0 .. m, j < m, j \in A
       PROVE  j + 1 \in A
  <2> DEFINE x == a + (j + 1)
             u == c \div 2 ^ (n - (j + 1))
  <2>1. x \in a .. b /\ ~(x < q) /\ x - 1 = a + j
    BY <1>1, <1>4, <1>12
  <2>2. F[x] = 2 * F[a + j] + data[x]
    BY <1>10, <2>1
  <2>3. F[a + j] = u \div 2 /\ data[x] = u % 2 /\ u \in Nat
    BY <1>3, <1>12
  <2> HIDE DEF x, u
  <2>4. F[x] = u
    BY <2>2, <2>3
  <2> QED
    BY <1>1, <1>12, <2>4 DEF x, u
<1>13. m \in A
  <2> HIDE DEF A
  <2>1. 0 .. m \subseteq A
    BY <1>1, <1>11, <1>12, UpTheInterval
  <2> QED
    BY <1>1, <2>1
<1>14. F[b] = c \div 2 ^ (n - m)
  BY <1>4, <1>13
<1> QED
  BY <1>2, <1>14 DEF b, a

\* A longer code is beyond all shorter ones: cut to m bits it is larger than the
\* codes of m bits.
LEMMA BeyondShorter ==
  ASSUME NEW s, NEW first, FirstCodes(s, first),
         \A l : Cardinality(OfSize(s, l)) \in Nat,
         NEW n \in 1 .. 16, NEW c \in Nat, c >= first[n], NEW m \in 1 .. n, m < n
  PROVE  c \div 2 ^ (n - m) >= first[m] + Cardinality(OfSize(s, m))
<1> DEFINE N(l) == Cardinality(OfSize(s, l))
           A == {j \in 0 .. n - 1 : c \div 2 ^ j >= first[n - j]}
           b == n - 1
<1>1. \A l : N(l) \in Nat
  OBVIOUS
<1>2. \A l \in 0 .. 16 : first[l] \in Nat
  BY DEF FirstCodes
<1>3. \A l \in 1 .. 16 : first[l] = 2 * (first[l - 1] + N(l - 1))
  BY DEF FirstCodes
<1> HIDE DEF N
<1>4. ASSUME NEW j \in 0 .. b, j < b, c \div 2 ^ j >= first[n - j]
      PROVE  c \div 2 ^ (j + 1) >= first[n - (j + 1)] + N(n - (j + 1))
  <2> DEFINE l == n - (j + 1)
             u == c \div 2 ^ j
             x == first[l]
             y == N(l)
  <2>1. n - j \in 1 .. 16 /\ (n - j) - 1 = l /\ l \in 0 .. 16 /\ j \in 0 .. 15
    BY <1>4
  <2>2. u \in Nat /\ c \div 2 ^ (j + 1) = u \div 2
    BY <2>1, Halved
  <2>3. first[n - j] = 2 * (x + y)
    BY <1>3, <2>1
  <2>4. x \in Nat /\ y \in Nat
    BY <1>1, <1>2, <2>1
  <2>5. u >= 2 * (x + y)
    BY <1>4, <2>3
  <2> HIDE DEF u, x, y
  <2>6. u \div 2 >= x + y
    BY <2>2, <2>4, <2>5
  <2> QED
    BY <2>2, <2>6 DEF x, y, l
<1>5. 0 \in A
  <2>1. 2 ^ 0 = 1 /\ n - 0 = n
    BY Powers
  <2>2. c \div 1 = c
    OBVIOUS
  <2>3. c \div 2 ^ 0 >= first[n - 0]
    BY <2>1, <2>2
  <2>4. 0 \in 0 .. n - 1
    OBVIOUS
  <2> QED
    BY <2>3, <2>4
<1>6. ASSUME NEW j \in 0 .. b, j < b, j \in A
      PROVE  j + 1 \in A
  <2>1. j + 1 \in 0 .. n - 1 /\ n - (j + 1) \in 0 .. 16 /\ j + 1 \in 0 .. 15
    BY <1>6
  <2>2. c \div 2 ^ (j + 1) \in Nat
    BY <2>1, Halved
  <2>3. c \div 2 ^ (j + 1) >= first[n - (j + 1)] + N(n - (j + 1))
    BY <1>4, <1>6
  <2>4. first[n - (j + 1)] \in Nat /\ N(n - (j + 1)) \in Nat
    BY <1>1, <1>2, <2>1
  <2>5. c \div 2 ^ (j + 1) >= first[n - (j + 1)]
    <3> DEFINE u == c \div 2 ^ (j + 1)
               x == first[n - (j + 1)]
               y == N(n - (j + 1))
    <3>1. u \in Nat /\ x \in Nat /\ y \in Nat /\ u >= x + y
      BY <2>2, <2>3, <2>4
    <3> HIDE DEF u, x, y
    <3>2. u >= x
      BY <3>1
    <3> QED
      BY <3>2 DEF u, x
  <2> QED
    BY <2>1, <2>5
<1>7. b \in Nat /\ (n - m) - 1 \in 0 .. b /\ (n - m) - 1 < b /\ ((n - m) - 1) + 1 = n - m
      /\ n - (n - m) = m
  OBVIOUS
<1>8. (n - m) - 1 \in A
  <2> HIDE DEF A, b
  <2>1. 0 .. b \subseteq A
    BY <1>5, <1>6, <1>7, UpTheInterval
  <2> QED
    BY <1>7, <2>1
<1>9. c \div 2 ^ (n - m) >= first[m] + N(m)
  <2>1. c \div 2 ^ ((n - m) - 1) >= first[n - ((n - m) - 1)]
    BY <1>8
  <2> QED
    BY <1>4, <1>7, <2>1
<1> QED
  BY <1>9 DEF N

\* A table as a DHT marker or the compressor gives it.
HuffTable == [bits : [1 .. 16 -> Nat], huffval : Seq(0 .. 255)]

\* The code and the length the encoder derives for a symbol; where it is among the
\* codes of the table.
IsCodeOf(tbl, isDC, sym, p) ==
  LET s == HuffSizes(tbl)
  IN  /\ Len(s) = Len(tbl.huffval) /\ p \in 1 .. Len(s) /\ tbl.huffval[p] = sym
      /\ TableOk(tbl, s, HuffCodes(s), isDC)
      /\ jpeg_make_c_derived_tbl(isDC, tbl)[sym] = << HuffCodes(s)[p], s[p] >>

LEMMA SameSizes ==
  ASSUME NEW s, Ascends(s, 16), NEW v, Len(s) = Len(v)
  PROVE  SubSeq(s, 1, Len(v)) = s
<1>1. s \in Seq(1 .. 16) /\ Len(s) \in Nat
  BY LenProperties DEF Ascends
<1> QED
  BY <1>1, SubSeqProperties

LEMMA CodeOf ==
  ASSUME NEW tbl \in HuffTable, NEW isDC \in BOOLEAN,
         NEW sym \in DOMAIN jpeg_make_c_derived_tbl(isDC, tbl)
  PROVE  \E p : IsCodeOf(tbl, isDC, sym, p)
<1> DEFINE s == HuffSizes(tbl)
           sizes == SubSeq(s, 1, Len(tbl.huffval))
           codes == HuffCodes(sizes)
           Position(x) == CHOOSE p \in DOMAIN sizes : tbl.huffval[p] = x
           Fine == /\ tbl # BadTable /\ Len(s) = Len(tbl.huffval)
                   /\ TableOk(tbl, sizes, codes, isDC)
           ct == [x \in ToSet(tbl.huffval) |-> << codes[Position(x)], sizes[Position(x)] >>]
<1>1. Ascends(s, 16)
  BY SizesAscend DEF HuffTable
<1>2. \/ Fine /\ jpeg_make_c_derived_tbl(isDC, tbl) = ct
      \/ jpeg_make_c_derived_tbl(isDC, tbl) = << >>
  BY Zenon DEF jpeg_make_c_derived_tbl
<1>3. Fine /\ jpeg_make_c_derived_tbl(isDC, tbl) = ct
  <2>1. DOMAIN << >> = {}
    OBVIOUS
  <2> HIDE DEF Fine, ct
  <2> QED
    BY <1>2, <2>1
<1>4. sizes = s
  BY <1>1, <1>3, SameSizes
<1>5. sym \in ToSet(tbl.huffval)
  BY <1>2, <1>3
<1>6. \E p \in 1 .. Len(tbl.huffval) : tbl.huffval[p] = sym
  <2>1. tbl.huffval \in Seq(0 .. 255)
    BY DEF HuffTable
  <2>2. DOMAIN tbl.huffval = 1 .. Len(tbl.huffval)
    BY <2>1, LenProperties
  <2> QED
    BY <1>5, <2>2 DEF ToSet
<1>7. DOMAIN s = 1 .. Len(s)
  BY <1>1, LenProperties DEF Ascends
<1>8. Position(sym) \in 1 .. Len(s) /\ tbl.huffval[Position(sym)] = sym
  <2>1. DOMAIN sizes = 1 .. Len(tbl.huffval)
    BY <1>3, <1>4, <1>7
  <2> HIDE DEF sizes
  <2> QED
    BY <1>3, <1>6, <2>1
<1>9. jpeg_make_c_derived_tbl(isDC, tbl)[sym] = << codes[Position(sym)], sizes[Position(sym)] >>
  BY <1>2, <1>3, <1>5
<1> HIDE DEF Position
<1> QED
  BY <1>3, <1>4, <1>8, <1>9 DEF IsCodeOf

\* What the decoder derives from the same table.
Derives(dt, s, huffval) ==
  /\ dt.huffval = huffval
  /\ \A l \in 1 .. 16 :
       IF OfSize(s, l) = {} THEN dt.maxcode[l] = -1
       ELSE /\ dt.maxcode[l] = HuffCodes(s)[Max(OfSize(s, l))]
            /\ dt.valoffset[l] = Min(OfSize(s, l)) - HuffCodes(s)[Min(OfSize(s, l))]

LEMMA DecoderDerives ==
  ASSUME NEW tbl \in HuffTable, NEW isDC \in BOOLEAN, Len(HuffSizes(tbl)) = Len(tbl.huffval),
         TableOk(tbl, HuffSizes(tbl), HuffCodes(HuffSizes(tbl)), isDC)
  PROVE  Derives(jpeg_make_d_derived_tbl(isDC, tbl), HuffSizes(tbl), tbl.huffval)
<1> DEFINE s == HuffSizes(tbl)
           sizes == SubSeq(s, 1, Len(tbl.huffval))
           codes == HuffCodes(sizes)
           At(l) == {p \in DOMAIN sizes : sizes[p] = l}
           used == {l \in 1 .. 16 : At(l) # {}}
           maxcode == [l \in 1 .. 16 |-> IF l \in used THEN codes[Max(At(l))] ELSE -1]
           valoffset == [l \in 1 .. 16 |->
                           IF l \in used THEN Min(At(l)) - codes[Min(At(l))] ELSE 0]
           dt == jpeg_make_d_derived_tbl(isDC, tbl)
<1>1. Ascends(s, 16)
  BY SizesAscend DEF HuffTable
<1>2. sizes = s
  BY <1>1, SameSizes
<1>3. tbl # BadTable
  <2>1. tbl.bits \in [1 .. 16 -> Nat]
    BY DEF HuffTable
  <2>2. 1 \in DOMAIN tbl.bits
    <3>1. DOMAIN tbl.bits = 1 .. 16
      BY <2>1
    <3>2. 1 \in 1 .. 16
      OBVIOUS
    <3> QED
      BY <3>1, <3>2
  <2>3. BadTable.bits = << >> /\ DOMAIN << >> = {}
    BY DEF BadTable
  <2> QED
    BY <2>2, <2>3
<1>4. TableOk(tbl, sizes, codes, isDC)
  BY <1>2
<1>5. dt = [maxcode |-> SubSeq(maxcode, 1, 16), valoffset |-> SubSeq(valoffset, 1, 16),
            huffval |-> tbl.huffval]
  BY <1>3, <1>4, Zenon DEF jpeg_make_d_derived_tbl
<1>6. \A l : At(l) = OfSize(s, l)
  BY <1>2 DEF OfSize
<1> HIDE DEF At
<1>7. \A l \in 1 .. 16 :
        /\ maxcode[l] = IF OfSize(s, l) # {} THEN codes[Max(OfSize(s, l))] ELSE -1
        /\ valoffset[l] = IF OfSize(s, l) # {}
                          THEN Min(OfSize(s, l)) - codes[Min(OfSize(s, l))] ELSE 0
  BY <1>6, Zenon
<1>8. DOMAIN maxcode = 1 .. 16 /\ DOMAIN valoffset = 1 .. 16
  OBVIOUS
<1>9. ASSUME NEW f, f = [l \in 1 .. 16 |-> f[l]]
      PROVE  \A l \in 1 .. 16 : SubSeq(f, 1, 16)[l] = f[l]
  <2> DEFINE R == {f[l] : l \in 1 .. 16}
             b == 16
  <2>1. f \in [1 .. b -> R] /\ b \in Nat
    BY <1>9
  <2> HIDE DEF R, b
  <2>2. f \in Seq(R) /\ Len(f) = b
    BY <2>1, FunctionIsSeq
  <2>3. SubSeq(f, 1, b) = f
    BY <2>1, <2>2, SubSeqProperties
  <2> QED
    BY <2>3 DEF b
<1>10. maxcode = [l \in 1 .. 16 |-> maxcode[l]] /\ valoffset = [l \in 1 .. 16 |-> valoffset[l]]
  OBVIOUS
<1> HIDE DEF maxcode, valoffset, dt
<1>11. /\ dt.huffval = tbl.huffval
       /\ \A l \in 1 .. 16 : dt.maxcode[l] = maxcode[l] /\ dt.valoffset[l] = valoffset[l]
  BY <1>5, <1>9, <1>10
<1>12. codes = HuffCodes(s)
  BY <1>2
<1> HIDE DEF codes, s
<1>13. Derives(dt, s, tbl.huffval)
  BY <1>7, <1>11, <1>12 DEF Derives
<1> QED
  BY <1>13 DEF dt, s

\* The code of n bits of the symbol at p is the smallest of n bits or after it; it
\* is below 2^n; and no code of n bits is larger than maxcode.
LEMMA CodeFits ==
  ASSUME NEW tbl \in HuffTable, NEW isDC \in BOOLEAN, NEW sym, NEW p,
         IsCodeOf(tbl, isDC, sym, p),
         NEW dt, Derives(dt, HuffSizes(tbl), tbl.huffval)
  PROVE  LET s == HuffSizes(tbl)
             c == HuffCodes(s)[p]
             n == s[p]
         IN  /\ n \in 1 .. 16 /\ c \in 0 .. 2 ^ n - 1
             /\ dt.maxcode[n] \in Nat /\ c <= dt.maxcode[n] /\ c + dt.valoffset[n] = p
             /\ \A m \in 1 .. n : m < n => c \div 2 ^ (n - m) > dt.maxcode[m]
<1> DEFINE s == HuffSizes(tbl)
           codes == HuffCodes(s)
           c == codes[p]
           n == s[p]
           N(l) == Cardinality(OfSize(s, l))
<1>1. Ascends(s, 16)
  BY SizesAscend DEF HuffTable
<1>2. PICK first : /\ FirstCodes(s, first)
                   /\ \A q \in 1 .. Len(s) :
                        codes[q] = first[s[q]] + (q - Min(OfSize(s, s[q])))
  <2> HIDE DEF s
  <2> QED BY <1>1, CodesOf
<1>3. p \in 1 .. Len(s) /\ TableOk(tbl, s, codes, isDC) /\ Derives(dt, s, tbl.huffval)
  BY DEF IsCodeOf
<1> HIDE DEF s, codes
<1>4. /\ Len(s) \in Nat /\ DOMAIN s = 1 .. Len(s)
      /\ \A q \in 1 .. Len(s) : s[q] \in 1 .. 16
  BY <1>1, LenProperties DEF Ascends
<1>5. n \in 1 .. 16 /\ \A l \in 1 .. 16 : first[l] \in Nat
  BY <1>2, <1>3, <1>4 DEF FirstCodes
<1>6. \A l : Cardinality(OfSize(s, l)) \in Nat
  <2> SUFFICES ASSUME NEW l
               PROVE  Cardinality(OfSize(s, l)) \in Nat
    OBVIOUS
  <2>1. IsFiniteSet(1 .. Len(s))
    BY <1>4, FS_Interval
  <2>2. OfSize(s, l) \subseteq 1 .. Len(s)
    BY <1>4 DEF OfSize
  <2> QED
    BY <2>1, <2>2, FS_Subset, FS_CardinalityType
<1>7. ASSUME NEW l \in 1 .. 16, OfSize(s, l) # {}
      PROVE  LET a == Min(OfSize(s, l))
                 b == Max(OfSize(s, l))
             IN  /\ SizeIs(s, l, a, b)
                 /\ \A q \in a .. b : s[q] = l /\ q \in 1 .. Len(s) /\ codes[q] = first[l] + (q - a)
  <2> DEFINE a == Min(OfSize(s, l))
             b == Max(OfSize(s, l))
  <2>1. SizeIs(s, l, a, b)
    BY <1>1, <1>7, OneSize
  <2>2. ASSUME NEW q \in a .. b
        PROVE  s[q] = l /\ q \in 1 .. Len(s)
    <3>1. q \in OfSize(s, l)
      BY <2>1 DEF SizeIs
    <3> QED
      BY <1>4, <3>1 DEF OfSize
  <2>3. \A q \in a .. b : codes[q] = first[l] + (q - a)
    BY <1>2, <2>2
  <2> QED
    BY <2>1, <2>2, <2>3
<1> DEFINE a == Min(OfSize(s, n))
           b == Max(OfSize(s, n))
<1>8. /\ SizeIs(s, n, a, b) /\ p \in a .. b
      /\ \A q \in a .. b : s[q] = n /\ q \in 1 .. Len(s) /\ codes[q] = first[n] + (q - a)
  <2>1. p \in OfSize(s, n)
    BY <1>3, <1>4 DEF OfSize
  <2>2. SizeIs(s, n, a, b)
    BY <1>1, <2>1, OneSize
  <2>3. p \in a .. b
    BY <2>1, <2>2 DEF SizeIs
  <2> QED
    BY <1>5, <1>7, <2>1, <2>2, <2>3
<1>9. dt.maxcode[n] = codes[b] /\ dt.valoffset[n] = a - codes[a]
  <2>1. OfSize(s, n) # {}
    BY <1>3, <1>4 DEF OfSize
  <2> QED
    BY <1>3, <1>5, <2>1 DEF Derives, codes
<1>10. /\ a \in Nat /\ b \in Nat /\ a <= p /\ p <= b /\ b \in 1 .. Len(s)
       /\ p \in Nat /\ Len(s) \in Nat
  BY <1>4, <1>8 DEF SizeIs
<1> HIDE DEF a, b, n, c
<1>11. /\ codes[p] = first[n] + (p - a) /\ codes[a] = first[n] /\ codes[b] = first[n] + (b - a)
       /\ s[b] = n
  <2>1. p \in a .. b /\ a \in a .. b /\ b \in a .. b
    BY <1>8, <1>10
  <2>2. codes[a] = first[n] + (a - a)
    BY <1>8, <2>1
  <2>3. first[n] \in Nat
    BY <1>5 DEF n
  <2> QED
    BY <1>8, <1>10, <2>1, <2>2, <2>3
<1>12. c \in Nat /\ c >= first[n] /\ dt.maxcode[n] \in Nat /\ c <= dt.maxcode[n] /\ c + dt.valoffset[n] = p
  <2> DEFINE x == first[n]
  <2>1. x \in Nat
    BY <1>5 DEF n
  <2>2. c = x + (p - a) /\ dt.maxcode[n] = x + (b - a) /\ dt.valoffset[n] = a - x
    BY <1>9, <1>11 DEF c
  <2> HIDE DEF x
  <2>3. c \in Nat /\ c >= x /\ dt.maxcode[n] \in Nat /\ c <= dt.maxcode[n] /\ c + dt.valoffset[n] = p
    BY <1>10, <2>1, <2>2
  <2> QED
    BY <2>3 DEF x
<1>13. codes[b] + 1 < 2 ^ n
  <2>1. b = Len(s) \/ s[b + 1] # s[b]
    <3> SUFFICES ASSUME b # Len(s), s[b + 1] = s[b]
                 PROVE  FALSE
      OBVIOUS
    <3>1. b + 1 \in 1 .. Len(s)
      BY <1>10
    <3>2. b + 1 \in OfSize(s, n)
      BY <1>4, <1>11, <3>1 DEF OfSize
    <3>3. b + 1 \in a .. b
      BY <1>8, <3>2 DEF SizeIs
    <3> QED
      BY <1>10, <3>3
  <2> QED
    BY <1>3, <1>4, <1>10, <1>11, <2>1 DEF TableOk
<1>14. c \in 0 .. 2 ^ n - 1
  <2> DEFINE P == 2 ^ n
  <2>1. P \in Nat
    <3>1. n \in 0 .. 16
      BY <1>5 DEF n
    <3> QED
      BY <3>1, Powers
  <2>2. codes[b] + 1 < P
    BY <1>13
  <2> HIDE DEF P
  <2>3. c \in 0 .. P - 1
    <3> DEFINE x == first[n]
    <3>1. x \in Nat
      BY <1>5 DEF n
    <3>2. c = x + (p - a) /\ codes[b] = x + (b - a)
      BY <1>11 DEF c
    <3> HIDE DEF x
    <3> QED
      BY <1>10, <1>12, <2>1, <2>2, <3>1, <3>2
  <2> QED
    BY <2>3 DEF P
<1>15. ASSUME NEW m \in 1 .. n, m < n
       PROVE  c \div 2 ^ (n - m) > dt.maxcode[m]
  <2>1. n \in 1 .. 16 /\ m \in 1 .. 16
    BY <1>5 DEF n
  <2> DEFINE x == first[m]
             y == N(m)
             u == c \div 2 ^ (n - m)
  <2>2. x \in Nat /\ y \in Nat
    BY <1>5, <1>6, <2>1
  <2>3. u >= x + y
    BY <1>2, <1>6, <1>12, <1>15, <2>1, BeyondShorter
  <2>4. u \in Nat
    <3>1. n - m \in 0 .. 15
      BY <2>1, <1>15
    <3> QED
      BY <1>12, <3>1, Halved
  <2>5. dt.maxcode[m] \in Int /\ dt.maxcode[m] < x + y
    <3>1. CASE OfSize(s, m) = {}
      <4>1. dt.maxcode[m] = -1
        BY <1>3, <2>1, <3>1 DEF Derives
      <4> HIDE DEF x, y
      <4> QED
        BY <2>2, <4>1
    <3>2. CASE OfSize(s, m) # {}
      <4> DEFINE d == Min(OfSize(s, m))
                 e == Max(OfSize(s, m))
      <4>1. dt.maxcode[m] = codes[e]
        BY <1>3, <2>1, <3>2 DEF Derives, codes
      <4>2. /\ SizeIs(s, m, d, e)
            /\ \A q \in d .. e : codes[q] = first[m] + (q - d)
        BY <1>7, <2>1, <3>2
      <4> HIDE DEF d, e
      <4>3. d \in Nat /\ e \in Nat /\ d <= e /\ y = (e - d) + 1
        BY <1>4, <4>2 DEF SizeIs
      <4>4. codes[e] = first[m] + (e - d)
        BY <4>2, <4>3
      <4> HIDE DEF y
      <4> QED
        BY <2>2, <4>1, <4>3, <4>4
    <3> QED
      BY <3>1, <3>2
  <2> HIDE DEF x, y, u
  <2>6. u > dt.maxcode[m]
    BY <2>2, <2>3, <2>4, <2>5
  <2> QED
    BY <2>6 DEF u
<1> QED
  BY <1>5, <1>12, <1>14, <1>15 DEF c, n, codes, s

\* The data at the reader's place, all of it there and before the marker, holds
\* these bits.
DataAt(in, w, bits) ==
  /\ {"ok", "sym", "pos"} \subseteq DOMAIN w
  /\ w.ok = TRUE /\ w.insufficient \in BOOLEAN /\ w.warned \in BOOLEAN
  /\ w.pos \in Nat /\ w.pos >= 1 /\ w.mark \in Nat /\ in.cut \in Nat
  /\ w.pos + Len(bits) <= w.mark /\ (w.pos + Len(bits)) - 1 <= in.cut
  /\ \A i \in 1 .. Len(bits) : in.data[(w.pos - 1) + i] = bits[i]

\* The same of a code and its length.
CodeAt(in, w, code) ==
  /\ {"ok", "sym", "pos"} \subseteq DOMAIN w
  /\ w.ok = TRUE /\ w.insufficient \in BOOLEAN /\ w.warned \in BOOLEAN
  /\ w.pos \in Nat /\ w.pos >= 1 /\ w.mark \in Nat /\ in.cut \in Nat
  /\ w.pos + code[2] <= w.mark /\ (w.pos + code[2]) - 1 <= in.cut
  /\ Holds(in.data, w.pos, code[1], code[2])

LEMMA BitsLen ==
  ASSUME NEW c \in Nat, NEW n \in 0 .. 16
  PROVE  BitsOf(c, n) \in Seq(Nat) /\ Len(BitsOf(c, n)) = n
<1>1. n \in Nat
  OBVIOUS
<1>2. BitsOf(c, n) \in [1 .. n -> Nat]
  <2>1. ASSUME NEW b \in 1 .. n
        PROVE  (c \div 2 ^ (n - b)) % 2 \in Nat
    <3>1. n - b \in 0 .. 15
      OBVIOUS
    <3>2. c \div 2 ^ (n - b) \in Nat
      BY <3>1, Halved
    <3> QED
      BY <3>2
  <2> QED
    BY <2>1 DEF BitsOf
<1> QED
  BY <1>1, <1>2, FunctionIsSeq

LEMMA CodeIsAt ==
  ASSUME NEW in, NEW w, NEW c \in Nat, NEW n \in 0 .. 16, DataAt(in, w, BitsOf(c, n))
  PROVE  CodeAt(in, w, << c, n >>)
<1> DEFINE bits == BitsOf(c, n)
<1>1. Len(bits) = n /\ << c, n >>[1] = c /\ << c, n >>[2] = n
  BY BitsLen
<1> HIDE DEF bits
<1> QED
  BY <1>1 DEF CodeAt, DataAt, Holds, bits

\* Bits that are there are taken.
Taken(in, w, n, c) ==
  /\ \A m \in 1 .. n : PEEK_BITS(in.data, w, m) = c \div 2 ^ (n - m)
  /\ GET_BITS(in, w, n) = [w EXCEPT !.sym = c, !.pos = w.pos + n]

LEMMA BitsTaken ==
  ASSUME NEW in, NEW w, NEW n, NEW c, Codeword(c, n), CodeAt(in, w, << c, n >>)
  PROVE  Taken(in, w, n, c)
<1> USE DEF Codeword
<1> DEFINE q == w.pos
<1>1. /\ q \in Nat /\ q >= 1 /\ w.mark \in Nat /\ in.cut \in Nat /\ q + n <= w.mark
      /\ (q + n) - 1 <= in.cut /\ Holds(in.data, q, c, n)
      /\ w.ok = TRUE /\ w.insufficient \in BOOLEAN /\ w.warned \in BOOLEAN
  BY DEF CodeAt
<1> HIDE DEF q
<1>2. ASSUME NEW m \in 1 .. n
      PROVE  PEEK_BITS(in.data, w, m) = c \div 2 ^ (n - m)
  <2>1. m \in 0 .. n /\ q + m <= w.mark /\ (q - 1) + m = (q + m) - 1
    BY <1>1
  <2>2. BitsValue(in.data, q, (q - 1) + m) = c \div 2 ^ (n - m)
    BY <1>1, <2>1, BitsRead
  <2> QED
    BY <1>1, <2>1, <2>2 DEF PEEK_BITS, q
<1>3. PEEK_BITS(in.data, w, n) = c
  <2>1. n \in 1 .. n /\ n - n = 0 /\ 2 ^ 0 = 1
    BY Powers
  <2>2. c \in Nat
    <3>1. n \in 0 .. 16
      OBVIOUS
    <3> QED
      BY <3>1, Powers
  <2>3. c \div 1 = c
    BY <2>2
  <2> QED
    BY <1>2, <2>1, <2>3
<1>4. ~(q + n > w.mark) /\ ~((q + n) - 1 > in.cut)
  BY <1>1
<1>5. GET_BITS(in, w, n) =
        [w EXCEPT !.sym = c, !.pos = q + n, !.insufficient = @ \/ FALSE,
                  !.warned = @ \/ (FALSE /\ ~w.insufficient)]
  BY <1>1, <1>3, <1>4 DEF GET_BITS, q
<1>6. GET_BITS(in, w, n) = [w EXCEPT !.sym = c, !.pos = q + n]
  BY <1>1, <1>5
<1> QED
  BY <1>2, <1>6 DEF q, Taken

\* The next symbol is sym, of n bits.
SymbolIs(in, w, dt, sym, n) ==
  HUFF_DECODE(in, w, dt) = [w EXCEPT !.sym = sym, !.pos = w.pos + n]

LEMMA CodeDecodes ==
  ASSUME NEW tbl \in HuffTable, NEW isDC \in BOOLEAN,
         NEW sym \in DOMAIN jpeg_make_c_derived_tbl(isDC, tbl),
         NEW code, code = jpeg_make_c_derived_tbl(isDC, tbl)[sym],
         NEW in, NEW w, DataAt(in, w, BitsOf(code[1], code[2]))
  PROVE  SymbolIs(in, w, jpeg_make_d_derived_tbl(isDC, tbl), sym, code[2])
<1> DEFINE s == HuffSizes(tbl)
           dt == jpeg_make_d_derived_tbl(isDC, tbl)
<1>1. PICK p : IsCodeOf(tbl, isDC, sym, p)
  BY CodeOf
<1> DEFINE c == HuffCodes(s)[p]
           n == s[p]
<1>2. code = << c, n >> /\ p \in 1 .. Len(s) /\ tbl.huffval[p] = sym
  BY <1>1 DEF IsCodeOf
<1>3. Derives(dt, s, tbl.huffval)
  BY <1>1, DecoderDerives DEF IsCodeOf
<1>4. /\ n \in 1 .. 16 /\ c \in 0 .. 2 ^ n - 1
      /\ dt.maxcode[n] \in Nat /\ c <= dt.maxcode[n] /\ c + dt.valoffset[n] = p
      /\ \A m \in 1 .. n : m < n => c \div 2 ^ (n - m) > dt.maxcode[m]
  <2> HIDE DEF dt
  <2> QED
    BY <1>1, <1>3, CodeFits
<1>5. dt.huffval = tbl.huffval
  BY <1>3 DEF Derives
<1> HIDE DEF dt
<1>6. CodeAt(in, w, << c, n >>)
  <2>1. c \in Nat /\ n \in 0 .. 16
    <3>1. n \in 0 .. 16
      BY <1>4
    <3> QED
      BY <1>4, <3>1, Powers
  <2>2. DataAt(in, w, BitsOf(c, n))
    <3>1. code[1] = c /\ code[2] = n
      BY <1>2
    <3> HIDE DEF c, n
    <3> QED
      BY <3>1
  <2> HIDE DEF c, n
  <2> QED
    BY <2>1, <2>2, CodeIsAt
<1> HIDE DEF c, n
<1>7. /\ \A m \in 1 .. n : PEEK_BITS(in.data, w, m) = c \div 2 ^ (n - m)
      /\ GET_BITS(in, w, n) = [w EXCEPT !.sym = c, !.pos = w.pos + n]
  <2>1. Codeword(c, n)
    BY <1>4 DEF Codeword
  <2>2. Taken(in, w, n, c)
    BY <1>6, <2>1, BitsTaken
  <2> QED
    BY <2>2 DEF Taken
<1> DEFINE Long(l) == l <= 16 => PEEK_BITS(in.data, w, l) > dt.maxcode[l]
<1>8. ASSUME NEW m \in 1 .. n, m < n
      PROVE  Long(m)
  BY <1>4, <1>7, <1>8
<1>9. ~Long(n)
  <2>1. n <= 16 /\ n \in 1 .. n /\ n - n = 0 /\ 2 ^ 0 = 1
    BY <1>4, Powers
  <2>2. c \in Int
    <3>1. n \in 0 .. 16
      BY <1>4
    <3> QED
      BY <1>4, <3>1, Powers
  <2>3. c \div 1 = c
    BY <2>2
  <2>4. PEEK_BITS(in.data, w, n) = c
    BY <1>7, <2>1, <2>3
  <2> QED
    BY <1>4, <2>1, <2>2, <2>4
<1> HIDE DEF Long
<1> DEFINE First(l) == (l = 17 \/ ~Long(l)) /\ \A m \in 1 .. l - 1 : Long(m)
<1>10. n \in 1 .. 17 /\ First(n)
  BY <1>4, <1>8, <1>9
<1>11. ASSUME NEW l \in 1 .. 17, First(l)
       PROVE  l = n
  <2>1. CASE l < n
    <3>1. l \in 1 .. n /\ l # 17
      BY <1>4, <2>1
    <3> QED
      BY <1>8, <1>11, <2>1, <3>1
  <2>2. CASE l > n
    <3>1. n \in 1 .. l - 1
      BY <1>4, <2>2
    <3> QED
      BY <1>9, <1>11, <3>1
  <2> QED
    BY <1>4, <2>1, <2>2
<1>12. (CHOOSE l \in 1 .. 17 : First(l)) = n
  <2> HIDE DEF First
  <2> QED BY <1>10, <1>11
<1>13. HUFF_DECODE(in, w, dt) = jpeg_huff_decode(in, w, dt, n)
  BY <1>12, Zenon DEF HUFF_DECODE, Long
<1> DEFINE x == GET_BITS(in, w, n)
<1>14. x.ok = TRUE /\ x = [w EXCEPT !.sym = c, !.pos = w.pos + n]
  <2>1. {"ok", "sym", "pos"} \subseteq DOMAIN w /\ w.ok = TRUE
    BY <1>6 DEF CodeAt
  <2>2. x = [w EXCEPT !.sym = c, !.pos = w.pos + n]
    BY <1>7
  <2> HIDE DEF x
  <2> QED
    BY <2>1, <2>2
<1>15. x.sym = c
  <2>1. "sym" \in DOMAIN w
    BY <1>6 DEF CodeAt
  <2> HIDE DEF x
  <2> QED
    BY <1>14, <2>1
<1>16. jpeg_huff_decode(in, w, dt, n) = [x EXCEPT !.sym = dt.huffval[x.sym + dt.valoffset[n]]]
  <2>1. n <= 16 /\ ~(n > 16)
    BY <1>4
  <2> QED
    BY <1>14, <2>1 DEF jpeg_huff_decode
<1> HIDE DEF x
<1>17. jpeg_huff_decode(in, w, dt, n) = [x EXCEPT !.sym = sym]
  BY <1>2, <1>4, <1>5, <1>15, <1>16
<1>18. [x EXCEPT !.sym = sym] = [w EXCEPT !.sym = sym, !.pos = w.pos + n]
  BY <1>14
<1>19. code[2] = n
  BY <1>2 DEF n
<1>20. HUFF_DECODE(in, w, dt) = [w EXCEPT !.sym = sym, !.pos = w.pos + code[2]]
  BY <1>13, <1>17, <1>18, <1>19
<1> QED
  BY <1>20, Zenon DEF SymbolIs, dt

\* Whatever the table is, a code that is in the data is decoded to the symbol the
\* encoder derived it for, and just its bits are taken: the numbers the decoder
\* derives from the table undo the codes the encoder derives from it
\* (jpeg_make_c_derived_tbl in jchuff.c, jpeg_make_d_derived_tbl and HUFF_DECODE in
\* jdhuff.c).
THEOREM SymbolsDecode ==
  ASSUME NEW tbl \in HuffTable, NEW isDC \in BOOLEAN,
         NEW sym \in DOMAIN jpeg_make_c_derived_tbl(isDC, tbl),
         NEW code, code = jpeg_make_c_derived_tbl(isDC, tbl)[sym],
         NEW in, NEW w, DataAt(in, w, BitsOf(code[1], code[2]))
  PROVE  HUFF_DECODE(in, w, jpeg_make_d_derived_tbl(isDC, tbl)) =
           [w EXCEPT !.sym = sym, !.pos = w.pos + code[2]]
<1>1. SymbolIs(in, w, jpeg_make_d_derived_tbl(isDC, tbl), sym, code[2])
  BY CodeDecodes
<1> QED
  BY <1>1, Zenon DEF SymbolIs

-----------------------------------------------------------------------------
(* Values. What the decoder adds to the last DC value, or stores, is what    *)
(* the encoder was given.                                                    *)

LEMMA PowersAscend ==
  ASSUME NEW j \in 0 .. 15
  PROVE  \A i \in 0 .. j : 2 ^ i <= 2 ^ j
<1> DEFINE A == {n \in 0 .. j : \A i \in 0 .. n : 2 ^ i <= 2 ^ n}
<1>1. 0 \in A
  <2>1. 0 \in 0 .. j /\ \A i \in 0 .. 0 : i = 0
    OBVIOUS
  <2>2. 2 ^ 0 <= 2 ^ 0
    BY Powers
  <2> QED
    BY <2>1, <2>2
<1>2. ASSUME NEW n \in 0 .. j, n < j /\ n \in A
      PROVE  n + 1 \in A
  <2>1. n \in 0 .. 15 /\ n \in 0 .. 16 /\ n + 1 \in 0 .. 16 /\ n + 1 \in 0 .. j
    BY <1>2
  <2>2. 2 ^ (n + 1) = 2 * 2 ^ n /\ 2 ^ n \in Nat
    BY <2>1, Powers
  <2>3. ASSUME NEW i \in 0 .. n + 1
        PROVE  2 ^ i <= 2 ^ (n + 1)
    <3>1. CASE i = n + 1
      BY <2>2, <3>1
    <3>2. CASE i # n + 1
      <4>1. i \in 0 .. n /\ i \in 0 .. 16
        BY <2>1, <3>2
      <4>2. 2 ^ i <= 2 ^ n /\ 2 ^ i \in Nat
        BY <1>2, <4>1, Powers
      <4> QED
        BY <2>2, <4>2
    <3> QED
      BY <3>1, <3>2
  <2> QED
    BY <2>1, <2>3
<1>3. 0 .. j \subseteq A
  <2>1. 0 \in Nat /\ j \in Nat
    OBVIOUS
  <2> HIDE DEF A
  <2> QED
    BY <1>1, <1>2, <2>1, UpTheInterval
<1>4. j \in A
  BY <1>3
<1> QED
  BY <1>4

\* The size of a magnitude of at most k bits.
Sized(m, n, k) == n \in 1 .. k /\ 2 ^ (n - 1) <= m /\ m < 2 ^ n

LEMMA SizeOf ==
  ASSUME NEW k \in 1 .. 15, NEW m \in Nat, m >= 1, m < 2 ^ k
  PROVE  Sized(m, nbits(m), k)
<1> DEFINE Above == {n \in 0 .. k : m < 2 ^ n}
           n0 == Min(Above)
<1>1. k \in Nat /\ k \in 0 .. k /\ Above \in SUBSET (0 .. k) /\ k \in Above
  OBVIOUS
<1>2. n0 \in Above /\ \A x \in Above : n0 <= x
  <2> HIDE DEF Above
  <2> QED BY <1>1, LeastOf
<1> HIDE DEF n0
<1>3. n0 \in 0 .. k /\ m < 2 ^ n0
  BY <1>2
<1>4. n0 # 0
  <2> SUFFICES ASSUME n0 = 0 PROVE FALSE
    OBVIOUS
  <2>1. m < 2 ^ 0
    BY <1>3
  <2> QED
    BY <2>1, Powers
<1>5. n0 - 1 \in 0 .. k /\ n0 - 1 \in 0 .. 16 /\ n0 - 1 < n0
  BY <1>3, <1>4
<1>6. ~(m < 2 ^ (n0 - 1))
  BY <1>2, <1>5
<1>7. 2 ^ (n0 - 1) <= m
  BY <1>5, <1>6, Powers
<1> DEFINE P(n) == 2 ^ (n - 1) <= m /\ m < 2 ^ n
<1>8. n0 \in 1 .. 15 /\ P(n0)
  BY <1>3, <1>4, <1>7
<1> HIDE DEF P
<1> DEFINE n1 == CHOOSE n \in 1 .. 15 : P(n)
<1>9. n1 \in 1 .. 15 /\ P(n1)
  BY <1>8
<1>10. nbits(m) = n1
  <2>1. m # 0
    OBVIOUS
  <2> QED
    BY <2>1, Zenon DEF nbits, P
<1> HIDE DEF n1
<1>11. ASSUME n1 > k
       PROVE  FALSE
  <2>1. ASSUME NEW j \in 0 .. 15
        PROVE  \A i \in 0 .. j : 2 ^ i <= 2 ^ j
    BY PowersAscend
  <2>2. n1 - 1 \in 0 .. 15 /\ k \in 0 .. n1 - 1
    BY <1>9, <1>11
  <2>3. 2 ^ k <= 2 ^ (n1 - 1)
    BY <2>1, <2>2
  <2>4. 2 ^ k \in Nat /\ 2 ^ (n1 - 1) \in Nat
    <3>1. k \in 0 .. 16 /\ n1 - 1 \in 0 .. 16
      BY <2>2
    <3> QED
      BY <3>1, Powers
  <2> QED
    BY <1>9, <2>3, <2>4 DEF P
<1> QED
  BY <1>9, <1>10, <1>11 DEF Sized, P

\* The bits that tell a value of s bits.
LEMMA ExtendInverts ==
  ASSUME NEW k \in 1 .. 15, NEW v \in Int, v # 0, Magnitude(v) < 2 ^ k
  PROVE  LET s == nbits(Magnitude(v))
             bits == ValueBits(v, s)
         IN  /\ s \in 1 .. k /\ bits[1] = "bits" /\ bits[2] = s
             /\ bits[3] \in 0 .. 2 ^ s - 1 /\ HUFF_EXTEND(bits[3], s) = v
<1> DEFINE m == Magnitude(v)
           s == nbits(m)
           c == ValueBits(v, s)[3]
<1>1. m \in Nat /\ m >= 1 /\ (v >= 0 => m = v) /\ (v < 0 => m = -v)
  BY DEF Magnitude
<1> HIDE DEF m
<1>2. s \in 1 .. k /\ 2 ^ (s - 1) <= m /\ m < 2 ^ s
  BY <1>1, SizeOf DEF Sized, m
<1> HIDE DEF s
<1>3. PICK P \in Nat : P = 2 ^ (s - 1) /\ 2 ^ s = 2 * P
  <2>1. s - 1 \in 0 .. 15 /\ s - 1 \in 0 .. 16 /\ (s - 1) + 1 = s
    BY <1>2
  <2>2. 2 ^ ((s - 1) + 1) = 2 * 2 ^ (s - 1)
    BY <2>1, Powers
  <2>3. 2 ^ s = 2 * 2 ^ (s - 1)
    BY <2>1, <2>2
  <2> QED
    BY <2>1, <2>3, Powers
<1>4. P <= m /\ m < 2 * P
  BY <1>2, <1>3
<1>5. c = IF v < 0 THEN v + 2 * P - 1 ELSE v
  BY <1>3 DEF ValueBits
<1>6. HUFF_EXTEND(c, s) = IF c < P THEN c - (2 * P - 1) ELSE c
  BY <1>3 DEF HUFF_EXTEND
<1> HIDE DEF c
<1>7. c \in 0 .. 2 * P - 1 /\ HUFF_EXTEND(c, s) = v
  <2>1. CASE v < 0
    BY <1>1, <1>4, <1>5, <1>6, <2>1
  <2>2. CASE v >= 0
    BY <1>1, <1>4, <1>5, <1>6, <2>2
  <2> QED
    BY <2>1, <2>2
<1>8. ValueBits(v, s)[1] = "bits" /\ ValueBits(v, s)[2] = s
  BY DEF ValueBits
<1> QED
  BY <1>2, <1>3, <1>7, <1>8 DEF c, s, m

\* What is written for one or two elements.
LEMMA EmitFew ==
  ASSUME NEW stream, NEW out, NEW count \in 1 .. 2, Len(out) = count, NEW tables
  PROVE  LET one == emit_bits(stream, out[1], tables)
             two == emit_bits(one, out[2], tables)
         IN  emit_all(stream, out, tables) = IF count = 1 THEN one ELSE two
<1> DEFINE one == emit_bits(stream, out[1], tables)
           two == emit_bits(one, out[2], tables)
           last(p) == IF 8 * p < Len(out) THEN 8 * p ELSE Len(out)
           D(start, p) ==
             CHOOSE f : f = [n \in 8 * (p - 1) .. last(p) |->
                               IF n = 8 * (p - 1) THEN start
                               ELSE emit_bits(f[n - 1], out[n], tables)]
           Eight(start, p) == D(start, p)[last(p)]
           E == CHOOSE f : f = [p \in 0 .. (Len(out) + 7) \div 8 |->
                                  IF p = 0 THEN stream
                                  ELSE CHOOSE x \in {Eight(start, p) : start \in {f[p - 1]}} : TRUE]
<1>0. Len(out) = count /\ (count = 1 \/ count = 2)
  OBVIOUS
<1>1. emit_all(stream, out, tables) = E[(Len(out) + 7) \div 8]
  BY Zenon DEF emit_all, InOrder
<1>2. (count + 7) \div 8 = 1 /\ last(1) = count /\ 8 * (1 - 1) = 0
  <2> HIDE DEF one, two, E
  <2>1. count = 1 \/ count = 2
    BY <1>0
  <2>2. (1 + 7) \div 8 = 1 /\ (2 + 7) \div 8 = 1
    OBVIOUS
  <2>3. (count + 7) \div 8 = 1
    BY <2>1, <2>2
  <2>4. ~(8 * 1 < count)
    BY <2>1
  <2>5. last(1) = count
    BY <2>4
  <2> QED
    BY <2>3, <2>5
<1> HIDE DEF last
<1>3. E[1] = Eight(stream, 1)
  <2> HIDE DEF Eight
  <2> DEFINE Right(f) == [p \in 0 .. 1 |->
                            IF p = 0 THEN stream
                            ELSE CHOOSE x \in {Eight(start, p) : start \in {f[p - 1]}} : TRUE]
             g == [p \in 0 .. 1 |-> IF p = 0 THEN stream ELSE Eight(stream, 1)]
  <2>1. g[0] = stream /\ 1 - 1 = 0
    OBVIOUS
  <2>2. \A f : f[0] = stream =>
          (CHOOSE x \in {Eight(start, 1) : start \in {f[1 - 1]}} : TRUE) = Eight(stream, 1)
    BY <2>1
  <2>3. g = Right(g)
    BY <2>1, <2>2
  <2>4. E = CHOOSE f : f = Right(f)
    BY <1>2
  <2> HIDE DEF E, g
  <2>5. E = Right(E)
    <3> HIDE DEF Right
    <3> QED BY <2>3, <2>4
  <2>6. E[0] = stream /\ E[1] = CHOOSE x \in {Eight(start, 1) : start \in {E[1 - 1]}} : TRUE
    BY <2>5
  <2> QED
    BY <2>2, <2>6
<1>4. Eight(stream, 1) = D(stream, 1)[count]
  BY <1>2
<1> HIDE DEF E, Eight
<1> DEFINE d == D(stream, 1)
           Next(f) == [n \in 0 .. count |->
                         IF n = 0 THEN stream ELSE emit_bits(f[n - 1], out[n], tables)]
           h == [n \in 0 .. count |-> IF n = 0 THEN stream ELSE IF n = 1 THEN one ELSE two]
<1>5. d = CHOOSE f : f = Next(f)
  BY <1>2
<1>6. h = Next(h)
  <2> HIDE DEF one, two
  <2>1. h[0] = stream /\ h[1] = one /\ (count = 2 => h[2] = two)
    <3> HIDE DEF Next
    <3>1. 0 \in 0 .. count /\ 1 \in 0 .. count
      OBVIOUS
    <3>2. count = 2 => 2 \in 0 .. count
      OBVIOUS
    <3> QED
      BY <3>1, <3>2
  <2>2. ASSUME NEW n \in 0 .. count
        PROVE  h[n] = Next(h)[n]
    <3>1. n = 0 \/ n = 1 \/ (n = 2 /\ count = 2)
      <4> HIDE DEF d, Next, h, D
      <4> QED BY <1>0
    <3>2. 1 - 1 = 0 /\ 2 - 1 = 1
      OBVIOUS
    <3>3. CASE n = 0
      BY <3>3
    <3>4. CASE n = 1
      BY <2>1, <3>2, <3>4 DEF one
    <3>5. CASE n = 2 /\ count = 2
      BY <2>1, <3>2, <3>5 DEF two
    <3> QED
      BY <3>1, <3>3, <3>4, <3>5
  <2> QED
    BY <2>2
<1>7. d = Next(d)
  <2> HIDE DEF d, Next, h
  <2> QED BY <1>5, <1>6
<1> HIDE DEF d
<1>8. d[0] = stream
  BY <1>7
<1>9. d[1] = one
  <2>1. 1 \in 0 .. count /\ 1 - 1 = 0
    OBVIOUS
  <2> HIDE DEF one
  <2>2. d[1] = emit_bits(d[1 - 1], out[1], tables)
    BY <1>7, <2>1
  <2> QED
    BY <1>8, <2>1, <2>2 DEF one
<1>10. count = 2 => d[2] = two
  <2> SUFFICES ASSUME count = 2 PROVE d[2] = two
    OBVIOUS
  <2>1. 2 \in 0 .. count /\ 2 - 1 = 1
    OBVIOUS
  <2> HIDE DEF one
  <2>2. d[2] = emit_bits(d[2 - 1], out[2], tables)
    BY <1>7, <2>1
  <2> QED
    BY <1>9, <2>1, <2>2
<1> QED
  <2>1. emit_all(stream, out, tables) = d[count]
    BY <1>1, <1>2, <1>3, <1>4 DEF d
  <2> HIDE DEF one, two
  <2>2. count = 1 \/ count = 2
    OBVIOUS
  <2> QED
    BY <1>9, <1>10, <2>1, <2>2 DEF one, two

\* What a reader at work has, among other things.
WorkFields == {"pos", "mark", "insufficient", "warned", "ok", "sym", "last", "k", "block"}

LEMMA CodeShape ==
  ASSUME NEW tbl \in HuffTable, NEW isDC \in BOOLEAN,
         NEW sym \in DOMAIN jpeg_make_c_derived_tbl(isDC, tbl)
  PROVE  \E c \in Nat, n \in 1 .. 16 :
           jpeg_make_c_derived_tbl(isDC, tbl)[sym] = << c, n >>
<1> DEFINE s == HuffSizes(tbl)
           dt == jpeg_make_d_derived_tbl(isDC, tbl)
<1>1. PICK p : IsCodeOf(tbl, isDC, sym, p)
  BY CodeOf
<1>2. Derives(dt, s, tbl.huffval)
  BY <1>1, DecoderDerives DEF IsCodeOf
<1> HIDE DEF dt
<1>3. s[p] \in 1 .. 16 /\ HuffCodes(s)[p] \in 0 .. 2 ^ s[p] - 1
  BY <1>1, <1>2, CodeFits
<1>4. jpeg_make_c_derived_tbl(isDC, tbl)[sym] = << HuffCodes(s)[p], s[p] >>
  BY <1>1 DEF IsCodeOf
<1> DEFINE c == HuffCodes(s)[p]
           n == s[p]
<1> HIDE DEF c, n
<1>5. n \in 1 .. 16 /\ c \in 0 .. 2 ^ n - 1
  BY <1>3 DEF c, n
<1>6. c \in Nat
  <2>1. n \in 0 .. 16
    BY <1>5
  <2>2. 2 ^ n \in Nat
    BY <2>1, Powers
  <2> QED
    BY <1>5, <2>2
<1> QED
  BY <1>4, <1>5, <1>6 DEF c, n

\* Data that holds two stretches of bits holds the first, and after it the second.
LEMMA DataSplit ==
  ASSUME NEW in, NEW w, WorkFields \subseteq DOMAIN w,
         NEW b1 \in Seq(Nat), NEW b2 \in Seq(Nat), DataAt(in, w, b1 \o b2), NEW x
  PROVE  /\ DataAt(in, w, b1)
         /\ DataAt(in, [w EXCEPT !.sym = x, !.pos = w.pos + Len(b1)], b2)
<1> DEFINE u == [w EXCEPT !.sym = x, !.pos = w.pos + Len(b1)]
           b == b1 \o b2
<1>1. /\ Len(b1) \in Nat /\ Len(b2) \in Nat /\ Len(b) = Len(b1) + Len(b2)
      /\ \A i \in 1 .. Len(b1) : b[i] = b1[i]
      /\ \A i \in 1 .. Len(b2) : b[Len(b1) + i] = b2[i]
  BY ConcatProperties, LenProperties
<1>2. /\ w.ok = TRUE /\ w.insufficient \in BOOLEAN /\ w.warned \in BOOLEAN
      /\ w.pos \in Nat /\ w.pos >= 1 /\ w.mark \in Nat /\ in.cut \in Nat
      /\ w.pos + Len(b) <= w.mark /\ (w.pos + Len(b)) - 1 <= in.cut
      /\ \A i \in 1 .. Len(b) : in.data[(w.pos - 1) + i] = b[i]
  BY DEF DataAt
<1>3. /\ u.ok = w.ok /\ u.insufficient = w.insufficient /\ u.warned = w.warned
      /\ u.mark = w.mark /\ u.pos = w.pos + Len(b1) /\ DOMAIN u = DOMAIN w
  BY DEF WorkFields
<1>4. {"ok", "sym", "pos"} \subseteq DOMAIN w
  BY DEF WorkFields
<1> HIDE DEF u, b
<1>5. DataAt(in, w, b1)
  <2>1. w.pos + Len(b1) <= w.mark /\ (w.pos + Len(b1)) - 1 <= in.cut
    BY <1>1, <1>2
  <2>2. \A i \in 1 .. Len(b1) : i \in 1 .. Len(b)
    BY <1>1
  <2>3. \A i \in 1 .. Len(b1) : in.data[(w.pos - 1) + i] = b1[i]
    BY <1>1, <1>2, <2>2
  <2> QED
    BY <1>2, <1>4, <2>1, <2>3 DEF DataAt
<1>6. DataAt(in, u, b2)
  <2>1. /\ u.pos \in Nat /\ u.pos >= 1 /\ u.pos + Len(b2) <= u.mark
        /\ (u.pos + Len(b2)) - 1 <= in.cut
    BY <1>1, <1>2, <1>3
  <2>2. ASSUME NEW i \in 1 .. Len(b2)
        PROVE  in.data[(u.pos - 1) + i] = b2[i]
    <3>1. Len(b1) + i \in 1 .. Len(b) /\ (u.pos - 1) + i = (w.pos - 1) + (Len(b1) + i)
      BY <1>1, <1>2, <1>3
    <3>2. b[Len(b1) + i] = b2[i]
      BY <1>1
    <3>3. in.data[(w.pos - 1) + (Len(b1) + i)] = b[Len(b1) + i]
      BY <1>2, <3>1
    <3> QED
      BY <3>1, <3>2, <3>3
  <2>3. /\ {"ok", "sym", "pos"} \subseteq DOMAIN u /\ u.ok = TRUE
        /\ u.insufficient \in BOOLEAN /\ u.warned \in BOOLEAN /\ u.mark \in Nat
    BY <1>2, <1>3, <1>4
  <2> QED
    BY <1>2, <2>1, <2>2, <2>3 DEF DataAt
<1> QED
  BY <1>5, <1>6 DEF u, b

\* A value that is not zero, of s bits, k at most.
OfBits(v, s, k) == v \in Int /\ v # 0 /\ Magnitude(v) < 2 ^ k /\ s = nbits(Magnitude(v))

\* The symbol is read, then the value.
ValueIs(in, w, dt, sym, n, v, s) ==
  /\ HUFF_DECODE(in, w, dt) = [w EXCEPT !.sym = sym, !.pos = w.pos + n]
  /\ Extended(in, HUFF_DECODE(in, w, dt), s) = [w EXCEPT !.sym = v, !.pos = w.pos + n + s]

\* A symbol and the bits of a value after it.
LEMMA SymbolAndValue ==
  ASSUME NEW tbl \in HuffTable, NEW isDC \in BOOLEAN,
         NEW sym \in DOMAIN jpeg_make_c_derived_tbl(isDC, tbl),
         NEW code, code = jpeg_make_c_derived_tbl(isDC, tbl)[sym],
         NEW k \in 1 .. 15, NEW v, NEW s, OfBits(v, s, k),
         NEW in, NEW w, WorkFields \subseteq DOMAIN w,
         DataAt(in, w, BitsOf(code[1], code[2]) \o BitsOf(ValueBits(v, s)[3], s))
  PROVE  ValueIs(in, w, jpeg_make_d_derived_tbl(isDC, tbl), sym, code[2], v, s)
<1> DEFINE h == HUFF_DECODE(in, w, jpeg_make_d_derived_tbl(isDC, tbl))
           x == ValueBits(v, s)[3]
           b1 == BitsOf(code[1], code[2])
           b2 == BitsOf(x, s)
           u == [w EXCEPT !.sym = sym, !.pos = w.pos + code[2]]
<1>1. PICK c \in Nat, n \in 1 .. 16 : code = << c, n >>
  BY CodeShape
<1>2. code[1] = c /\ code[2] = n
  BY <1>1
<1>3. s \in 1 .. k /\ x \in 0 .. 2 ^ s - 1 /\ HUFF_EXTEND(x, s) = v
  BY ExtendInverts DEF OfBits
<1> HIDE DEF h, x, u
<1>4. s \in 0 .. 16 /\ s \in 1 .. 16 /\ n \in 0 .. 16 /\ x \in Nat
  <2>1. s \in 0 .. 16 /\ s \in 1 .. 16
    BY <1>3
  <2>2. 2 ^ s \in Nat
    BY <2>1, Powers
  <2> QED
    BY <1>3, <2>1, <2>2
<1>5. b1 \in Seq(Nat) /\ Len(b1) = n /\ b2 \in Seq(Nat)
  <2>1. BitsOf(c, n) \in Seq(Nat) /\ Len(BitsOf(c, n)) = n
    BY <1>4, BitsLen
  <2> QED
    BY <1>2, <1>4, <2>1, BitsLen
<1>6. DataAt(in, w, b1) /\ DataAt(in, [w EXCEPT !.sym = sym, !.pos = w.pos + Len(b1)], b2)
  <2>1. DataAt(in, w, b1 \o b2)
    BY DEF x
  <2> HIDE DEF b1, b2
  <2> QED
    BY <1>5, <2>1, DataSplit
<1>7. DataAt(in, u, b2)
  <2> HIDE DEF b1, b2
  <2> QED
    BY <1>2, <1>5, <1>6 DEF u
<1>8. h = u
  <2>1. DataAt(in, w, BitsOf(code[1], code[2]))
    BY <1>6
  <2>2. SymbolIs(in, w, jpeg_make_d_derived_tbl(isDC, tbl), sym, code[2])
    <3> HIDE DEF b1, b2
    <3> QED BY <2>1, CodeDecodes
  <2> QED
    BY <2>2 DEF h, u, SymbolIs
<1>9. u.ok = TRUE /\ u.pos = w.pos + n /\ "sym" \in DOMAIN u /\ "pos" \in DOMAIN u
  BY <1>2, <1>7 DEF u, WorkFields, DataAt
<1>10. GET_BITS(in, u, s) = [u EXCEPT !.sym = x, !.pos = u.pos + s]
  <2>1. Codeword(x, s)
    BY <1>3, <1>4 DEF Codeword
  <2>2. CodeAt(in, u, << x, s >>)
    BY <1>4, <1>7, CodeIsAt
  <2> QED
    <3> HIDE DEF b1, b2
    <3>1. Taken(in, u, s, x)
      BY <2>1, <2>2, BitsTaken
    <3> QED
      BY <3>1 DEF Taken
<1>11. Extended(in, u, s) = [u EXCEPT !.sym = v, !.pos = u.pos + s]
  <2>1. s # 0
    BY <1>3
  <2>2. Extended(in, u, s) = ExtendedBits([u EXCEPT !.sym = x, !.pos = u.pos + s], s)
    BY <1>10, <2>1 DEF Extended
  <2> QED
    BY <1>3, <1>9, <2>2 DEF ExtendedBits
<1>12. Extended(in, u, s) = [w EXCEPT !.sym = v, !.pos = w.pos + code[2] + s]
  BY <1>2, <1>9, <1>11 DEF u
<1> QED
  BY <1>8, <1>12 DEF h, u, ValueIs

LEMMA SizeWithin ==
  ASSUME NEW k \in 1 .. 15, NEW s \in 1 .. k
  PROVE  s \in 0 .. 16
OBVIOUS

\* The code that table t of a kind, derived from tbl, has for sym.
Kinds == {"dc", "ac"}
CodedAs(tables, kind, t, isDC, tbl, sym, code) ==
  /\ kind \in Kinds /\ tables[kind][t] = jpeg_make_c_derived_tbl(isDC, tbl)
  /\ sym \in DOMAIN jpeg_make_c_derived_tbl(isDC, tbl)
  /\ code = jpeg_make_c_derived_tbl(isDC, tbl)[sym]

\* What an element adds to some bits.
Adds(tables, bits, em, more) ==
  /\ more \in Seq(Nat) /\ Len(more) \in Nat
  /\ emit_bits(bits, em, tables) = bits \o more

\* What is written for a symbol, and for one with a value after it.
LEMMA SymbolBits ==
  ASSUME NEW tbl \in HuffTable, NEW isDC \in BOOLEAN, NEW tables, NEW kind, NEW t, NEW sym,
         NEW code, CodedAs(tables, kind, t, isDC, tbl, sym, code)
  PROVE  /\ Adds(tables, << >>, << kind, t, sym >>, BitsOf(code[1], code[2]))
         /\ Len(BitsOf(code[1], code[2])) = code[2]
<1> DEFINE codes == jpeg_make_c_derived_tbl(isDC, tbl)
           bits == BitsOf(code[1], code[2])
           em == << kind, t, sym >>
<1>1. sym \in DOMAIN codes /\ code = codes[sym]
  BY DEF CodedAs
<1>2. PICK c \in Nat, n \in 1 .. 16 : codes[sym] = << c, n >>
  BY <1>1, CodeShape
<1>3. code[1] = c /\ code[2] = n
  BY <1>1, <1>2
<1>4. bits \in Seq(Nat) /\ Len(bits) = n
  <2>1. n \in 0 .. 16
    OBVIOUS
  <2>2. BitsOf(c, n) \in Seq(Nat) /\ Len(BitsOf(c, n)) = n
    BY <2>1, BitsLen
  <2> QED
    BY <1>3, <2>2
<1>5. emit_bits(<< >>, em, tables) = << >> \o bits
  <2>1. em[1] = kind /\ em[2] = t /\ em[3] = sym
    OBVIOUS
  <2>4. tables[kind][t] = codes
    BY DEF CodedAs
  <2> HIDE DEF em, bits, codes
  <2>2. CASE kind = "dc"
    <3>1. kind = "dc" /\ tables.dc[t] = codes
      BY <2>4, <2>2
    <3> QED
      BY <1>1, <2>1, <3>1 DEF emit_bits, bits
  <2>3. CASE kind = "ac"
    <3>1. kind = "ac" /\ tables.ac[t] = codes
      BY <2>4, <2>3
    <3> QED
      BY <1>1, <2>1, <3>1 DEF emit_bits, bits
  <2>5. kind = "dc" \/ kind = "ac"
    BY DEF CodedAs, Kinds
  <2> QED
    BY <2>2, <2>3, <2>5
<1> HIDE DEF bits, em
<1> QED
  BY <1>3, <1>4, <1>5 DEF bits, em, Adds

LEMMA ValueAfter ==
  ASSUME NEW bits \in Seq(Nat), NEW k \in 1 .. 15, NEW v, NEW s, OfBits(v, s, k), NEW tables
  PROVE  /\ Adds(tables, bits, ValueBits(v, s), BitsOf(ValueBits(v, s)[3], s))
         /\ Len(BitsOf(ValueBits(v, s)[3], s)) = s
<1> DEFINE em == ValueBits(v, s)
<1>1. s \in 1 .. k /\ em[1] = "bits" /\ em[2] = s /\ em[3] \in 0 .. 2 ^ s - 1
  BY ExtendInverts DEF OfBits
<1> HIDE DEF em
<1>2. em[3] \in Nat /\ s \in 0 .. 16
  <2>1. s \in 0 .. 16
    <3>1. s \in 1 .. k /\ k \in 1 .. 15
      BY <1>1
    <3> QED
      BY <3>1, SizeWithin
  <2>2. 2 ^ s \in Nat
    BY <2>1, Powers
  <2> QED
    BY <1>1, <2>1, <2>2
<1>3. emit_bits(bits, em, tables) = bits \o BitsOf(em[3], s)
  BY <1>1 DEF emit_bits
<1>4. BitsOf(em[3], s) \in Seq(Nat) /\ Len(BitsOf(em[3], s)) = s
  BY <1>2, BitsLen
<1> QED
  BY <1>2, <1>3, <1>4 DEF em, Adds

\* One element, or two, of which the first is a symbol with a code.
LEMMA SymbolSent ==
  ASSUME NEW tbl \in HuffTable, NEW isDC \in BOOLEAN, NEW tables, NEW kind, NEW t, NEW sym,
         NEW code, CodedAs(tables, kind, t, isDC, tbl, sym, code),
         NEW in, NEW w, WorkFields \subseteq DOMAIN w,
         NEW out, out = << << kind, t, sym >> >>,
         DataAt(in, w, emit_all(<< >>, out, tables))
  PROVE  /\ Len(emit_all(<< >>, out, tables)) = code[2] /\ code[2] \in Nat
         /\ SymbolIs(in, w, jpeg_make_d_derived_tbl(isDC, tbl), sym, code[2])
<1> DEFINE bits == BitsOf(code[1], code[2])
           em == << kind, t, sym >>
<1>1. /\ code[2] \in Nat /\ bits \in Seq(Nat) /\ Len(bits) = code[2]
      /\ emit_bits(<< >>, em, tables) = bits
  <2>1. Adds(tables, << >>, em, bits) /\ Len(bits) = code[2]
    BY SymbolBits
  <2> HIDE DEF em, bits
  <2>2. bits \in Seq(Nat) /\ code[2] \in Nat /\ emit_bits(<< >>, em, tables) = << >> \o bits
    BY <2>1 DEF Adds
  <2> QED
    BY <2>1, <2>2
<1> HIDE DEF bits, em
<1>2. Len(out) = 1 /\ out[1] = em
  BY DEF em
<1>3. emit_all(<< >>, out, tables) = bits
  <2>1. 1 \in 1 .. 2
    OBVIOUS
  <2>2. emit_all(<< >>, out, tables) = emit_bits(<< >>, out[1], tables)
    BY <1>2, <2>1, EmitFew
  <2> QED
    BY <1>1, <1>2, <2>2
<1>4. SymbolIs(in, w, jpeg_make_d_derived_tbl(isDC, tbl), sym, code[2])
  <2>1. DataAt(in, w, BitsOf(code[1], code[2]))
    BY <1>3 DEF bits
  <2>2. sym \in DOMAIN jpeg_make_c_derived_tbl(isDC, tbl)
        /\ code = jpeg_make_c_derived_tbl(isDC, tbl)[sym]
    BY DEF CodedAs
  <2> QED
    BY <2>1, <2>2, CodeDecodes
<1> QED
  BY <1>1, <1>3, <1>4

LEMMA ValueSent ==
  ASSUME NEW tbl \in HuffTable, NEW isDC \in BOOLEAN, NEW tables, NEW kind, NEW t, NEW sym,
         NEW code, CodedAs(tables, kind, t, isDC, tbl, sym, code),
         NEW k \in 1 .. 15, NEW v, NEW s, OfBits(v, s, k),
         NEW in, NEW w, WorkFields \subseteq DOMAIN w,
         NEW out, out = << << kind, t, sym >>, ValueBits(v, s) >>,
         DataAt(in, w, emit_all(<< >>, out, tables))
  PROVE  /\ Len(emit_all(<< >>, out, tables)) = code[2] + s /\ code[2] \in Nat
         /\ ValueIs(in, w, jpeg_make_d_derived_tbl(isDC, tbl), sym, code[2], v, s)
<1> DEFINE b1 == BitsOf(code[1], code[2])
           b2 == BitsOf(ValueBits(v, s)[3], s)
           em == << kind, t, sym >>
           value == ValueBits(v, s)
<1>1. /\ code[2] \in Nat /\ b1 \in Seq(Nat) /\ Len(b1) = code[2]
      /\ emit_bits(<< >>, em, tables) = b1
  <2>1. Adds(tables, << >>, em, b1) /\ Len(b1) = code[2]
    BY SymbolBits
  <2> HIDE DEF em, b1, b2, value
  <2>2. b1 \in Seq(Nat) /\ code[2] \in Nat /\ emit_bits(<< >>, em, tables) = << >> \o b1
    BY <2>1 DEF Adds
  <2> QED
    BY <2>1, <2>2
<1> HIDE DEF b1, em
<1>2. emit_bits(b1, value, tables) = b1 \o b2 /\ b2 \in Seq(Nat) /\ Len(b2) = s
  <2>1. b1 \in Seq(Nat)
    BY <1>1
  <2>2. Adds(tables, b1, value, b2) /\ Len(b2) = s
    BY <2>1, ValueAfter, ZenonT(60)
  <2> HIDE DEF b2, value
  <2> QED
    BY <2>2 DEF Adds
<1> HIDE DEF b2, value
<1>3. Len(out) = 2 /\ out[1] = em /\ out[2] = value
  BY DEF em, value
<1>4. emit_all(<< >>, out, tables) = b1 \o b2
  <2>1. 2 \in 1 .. 2 /\ 2 # 1
    OBVIOUS
  <2>2. emit_all(<< >>, out, tables) = emit_bits(emit_bits(<< >>, out[1], tables), out[2], tables)
    BY <1>3, <2>1, EmitFew
  <2> QED
    BY <1>1, <1>2, <1>3, <2>2
<1>5. Len(b1 \o b2) = code[2] + s
  <2>1. Len(b1 \o b2) = Len(b1) + Len(b2)
    BY <1>1, <1>2, ConcatProperties
  <2> QED
    BY <1>1, <1>2, <2>1
<1>6. ValueIs(in, w, jpeg_make_d_derived_tbl(isDC, tbl), sym, code[2], v, s)
  <2>1. DataAt(in, w, BitsOf(code[1], code[2]) \o BitsOf(ValueBits(v, s)[3], s))
    BY <1>4 DEF b1, b2
  <2>2. sym \in DOMAIN jpeg_make_c_derived_tbl(isDC, tbl)
        /\ code = jpeg_make_c_derived_tbl(isDC, tbl)[sym]
    BY DEF CodedAs
  <2> QED
    BY <2>1, <2>2, SymbolAndValue
<1> QED
  BY <1>1, <1>4, <1>5, <1>6

\* w once the bits before p are taken, with v read.
Took(w, v, p) == [w EXCEPT !.sym = v, !.pos = p]

LEMMA TookFields ==
  ASSUME NEW w, WorkFields \subseteq DOMAIN w, NEW v, NEW p
  PROVE  /\ Took(w, v, p).sym = v /\ Took(w, v, p).ok = w.ok
         /\ Took(w, v, p).last = w.last
         /\ Took(w, v, p).k = w.k /\ Took(w, v, p).block = w.block
         /\ [Took(w, v, p) EXCEPT !.sym = v] = Took(w, v, p)
<1>1. Took(w, v, p).sym = v
  BY DEF Took, WorkFields
<1>2. Took(w, v, p).ok = w.ok /\ Took(w, v, p).last = w.last
  BY DEF Took, WorkFields
<1>3. [Took(w, v, p) EXCEPT !.sym = v] = Took(w, v, p)
  BY DEF Took, WorkFields
<1>4. Took(w, v, p).k = w.k /\ Took(w, v, p).block = w.block
  BY DEF Took, WorkFields
<1> QED
  BY <1>1, <1>2, <1>3, <1>4

LEMMA SymbolTook ==
  ASSUME NEW in, NEW w, NEW dt, NEW sym, NEW n, SymbolIs(in, w, dt, sym, n)
  PROVE  HUFF_DECODE(in, w, dt) = Took(w, sym, w.pos + n)
BY Zenon DEF SymbolIs, Took

LEMMA ValueTook ==
  ASSUME NEW in, NEW w, NEW dt, NEW sym, NEW n, NEW v, NEW s, ValueIs(in, w, dt, sym, n, v, s)
  PROVE  /\ HUFF_DECODE(in, w, dt) = Took(w, sym, w.pos + n)
         /\ Extended(in, HUFF_DECODE(in, w, dt), s) = Took(w, v, w.pos + n + s)
BY Zenon DEF ValueIs, Took

LEMMA NothingExtended ==
  ASSUME NEW in, NEW h
  PROVE  Extended(in, h, 0) = [h EXCEPT !.sym = 0]
BY Zenon DEF Extended

\* A difference of 0 is a symbol alone.
LEMMA NoDiff ==
  ASSUME NEW t
  PROVE  nbits(Magnitude(0)) = 0 /\ DcDiff(0, t) = << << "dc", t, 0 >> >>
<1>1. Magnitude(0) = 0
  BY DEF Magnitude
<1>2. nbits(0) = 0
  BY Zenon DEF nbits
<1>3. ~(0 > MAX_COEF_BITS + 1)
  BY DEF MAX_COEF_BITS
<1>4. nbits(Magnitude(0)) = 0
  BY <1>1, <1>2
<1>5. DcDiff(0, t) = << << "dc", t, 0 >> >>
  BY <1>3, <1>4, Zenon DEF DcDiff
<1> QED
  BY <1>4, <1>5

\* The difference diff is added to the last value of component i.
DcAdded(in, w, dt, i, diff, bits) ==
  DecodeDc(in, w, dt, i) =
    [w EXCEPT !.sym = diff, !.pos = w.pos + Len(bits), !.last[i] = w.last[i] + diff]

LEMMA DcRead ==
  ASSUME NEW tbl \in HuffTable, NEW isDC \in BOOLEAN, NEW tables, NEW t,
         tables.dc[t] = jpeg_make_c_derived_tbl(isDC, tbl),
         NEW diff \in Int, diff > -2048, diff < 2048,
         nbits(Magnitude(diff)) \in DOMAIN tables.dc[t],
         NEW in, NEW w, WorkFields \subseteq DOMAIN w,
         NEW i, i \in DOMAIN w.last, w.last[i] \in Int,
         NEW bits, bits = emit_all(<< >>, DcDiff(diff, t), tables), DataAt(in, w, bits)
  PROVE  DcAdded(in, w, jpeg_make_d_derived_tbl(isDC, tbl), i, diff, bits)
<1> DEFINE dt == jpeg_make_d_derived_tbl(isDC, tbl)
           sym == nbits(Magnitude(diff))
           code == jpeg_make_c_derived_tbl(isDC, tbl)[sym]
           out == DcDiff(diff, t)
           h == HUFF_DECODE(in, w, dt)
           x == Extended(in, h, h.sym)
<1>1. CodedAs(tables, "dc", t, isDC, tbl, sym, code)
  BY DEF CodedAs, Kinds
<1>2. DecodeDc(in, w, dt, i) = AddDc(x, i)
  BY DEF DecodeDc
<1>3. w.ok = TRUE /\ w.pos \in Nat
  BY DEF DataAt
<1> HIDE DEF h, x, dt
<1>4. ASSUME x = Took(w, diff, w.pos + Len(bits))
      PROVE  DcAdded(in, w, dt, i, diff, bits)
  <2>1. x.ok = TRUE /\ x.sym = diff /\ x.last = w.last
    BY <1>3, <1>4, TookFields
  <2>2. AddDc(x, i) = [x EXCEPT !.last[i] = x.last[i] + diff]
    BY <2>1 DEF AddDc
  <2> QED
    BY <1>2, <1>4, <2>1, <2>2 DEF DcAdded, Took
<1>5. CASE diff = 0
  <2>1. sym = 0 /\ out = << << "dc", t, 0 >> >>
    BY <1>5, NoDiff
  <2> HIDE DEF sym, out, code
  <2>2. out = << << "dc", t, sym >> >>
    BY <2>1
  <2>3. DataAt(in, w, emit_all(<< >>, out, tables))
    BY DEF out
  <2>4. /\ Len(emit_all(<< >>, out, tables)) = code[2] /\ code[2] \in Nat
        /\ SymbolIs(in, w, jpeg_make_d_derived_tbl(isDC, tbl), sym, code[2])
    BY <1>1, <2>2, <2>3, SymbolSent
  <2>5. Len(bits) = code[2]
    BY <2>4 DEF out
  <2>6. h = Took(w, sym, w.pos + code[2])
    BY <2>4, SymbolTook DEF h, dt
  <2>7. h = Took(w, 0, w.pos + Len(bits))
    BY <2>1, <2>5, <2>6
  <2>8. h.sym = 0 /\ [h EXCEPT !.sym = 0] = h
    BY <2>7, TookFields
  <2>9. x = h
    BY <2>8, NothingExtended DEF x
  <2> QED
    BY <1>4, <1>5, <2>7, <2>9 DEF dt
<1>6. CASE diff # 0
  <2>1. OfBits(diff, sym, 11)
    <3>1. 2 ^ 11 = 2048
      OBVIOUS
    <3>2. Magnitude(diff) < 2048
      BY DEF Magnitude
    <3> QED
      BY <1>6, <3>1, <3>2 DEF OfBits
  <2>2. sym \in 1 .. 11
    BY <2>1, ExtendInverts DEF OfBits
  <2> HIDE DEF sym
  <2>3. out = << << "dc", t, sym >>, ValueBits(diff, sym) >>
    <3>1. ~(sym > MAX_COEF_BITS + 1) /\ sym # 0
      BY <2>2 DEF MAX_COEF_BITS
    <3> QED
      BY <3>1 DEF DcDiff, sym
  <2> HIDE DEF out, code
  <2>5. DataAt(in, w, emit_all(<< >>, out, tables))
    BY DEF out
  <2>6. /\ Len(emit_all(<< >>, out, tables)) = code[2] + sym /\ code[2] \in Nat
        /\ ValueIs(in, w, jpeg_make_d_derived_tbl(isDC, tbl), sym, code[2], diff, sym)
    <3>1. 11 \in 1 .. 15
      OBVIOUS
    <3> QED
      BY <1>1, <2>1, <2>3, <2>5, <3>1, ValueSent
  <2>7. Len(bits) = code[2] + sym
    BY <2>6 DEF out
  <2>8. h = Took(w, sym, w.pos + code[2])
    BY <2>6, ValueTook DEF h, dt
  <2>9. h.sym = sym
    BY <2>8, TookFields
  <2>10. x = Took(w, diff, w.pos + code[2] + sym)
    BY <2>6, <2>9, ValueTook DEF x, h, dt
  <2>11. w.pos + code[2] + sym = w.pos + Len(bits)
    BY <1>3, <2>2, <2>6, <2>7
  <2>12. x = Took(w, diff, w.pos + Len(bits))
    BY <2>10, <2>11
  <2> QED
    BY <1>4, <2>12 DEF dt
<1> QED
  BY <1>5, <1>6

\* A DC difference of up to eleven bits whose size has a code: from what the encoder
\* writes for it the decoder adds that difference to the last value of the component,
\* and takes just those bits (encode_one_block in jchuff.c, decode_mcu in jdhuff.c).
THEOREM DcDecodes ==
  ASSUME NEW tbl \in HuffTable, NEW isDC \in BOOLEAN, NEW tables, NEW t,
         tables.dc[t] = jpeg_make_c_derived_tbl(isDC, tbl),
         NEW diff \in Int, diff > -2048, diff < 2048,
         nbits(Magnitude(diff)) \in DOMAIN tables.dc[t],
         NEW in, NEW w, WorkFields \subseteq DOMAIN w,
         NEW i, i \in DOMAIN w.last, w.last[i] \in Int,
         NEW bits, bits = emit_all(<< >>, DcDiff(diff, t), tables), DataAt(in, w, bits)
  PROVE  DecodeDc(in, w, jpeg_make_d_derived_tbl(isDC, tbl), i) =
           [w EXCEPT !.sym = diff, !.pos = w.pos + Len(bits), !.last[i] = w.last[i] + diff]
<1>1. DcAdded(in, w, jpeg_make_d_derived_tbl(isDC, tbl), i, diff, bits)
  BY DcRead
<1> QED
  BY <1>1 DEF DcAdded

\* The value v is stored after a run of zeros, unless nobody needs it.
AcLeft(w, limit, Se, run, v, p) ==
  [w EXCEPT !.sym = v, !.pos = p, !.k = w.k + run + 1,
            !.block = IF w.k < limit THEN Store(w.block, w.k + run, v, Se) ELSE w.block]
AcStored(in, w, dt, limit, Se, run, v, bits) ==
  NextAc(in, w, dt, limit, Se) = AcLeft(w, limit, Se, run, v, w.pos + Len(bits))

\* What is written for a value after less than sixteen zeros.
LEMMA AcOut ==
  ASSUME NEW t, NEW run \in 0 .. 15, NEW v \in Int, NEW n \in 1 .. 10, n = nbits(Magnitude(v))
  PROVE  AcValue(t, run, v, Magnitude(v)) =
           << << "ac", t, 16 * run + n >>, ValueBits(v, n) >>
<1> DEFINE m == Magnitude(v)
           x == << << "ac", t, 16 * run + n >>, ValueBits(v, n) >>
           zrls == [z \in 1 .. (run \div 16) |-> ZRL(t)]
<1>1. (run \div 16) = 0 /\ (run % 16) = run
  OBVIOUS
<1>2. (IF v < 0 THEN -m ELSE m) = v
  BY DEF Magnitude
<1>3. ~(n > MAX_COEF_BITS)
  BY DEF MAX_COEF_BITS
<1>4. AcValue(t, run, v, m) = zrls \o x
  BY <1>1, <1>2, <1>3, Zenon DEF AcValue
<1>5. zrls = << >>
  <2>1. zrls = [z \in 1 .. 0 |-> ZRL(t)]
    BY <1>1
  <2> QED
    BY <2>1
<1>6. << >> \o x = x
  OBVIOUS
<1> HIDE DEF x, zrls, m
<1> QED
  BY <1>4, <1>5, <1>6 DEF x, m

Ready(w) == WorkFields \subseteq DOMAIN w /\ w.ok = TRUE

LEMMA StoredTook ==
  ASSUME NEW w, Ready(w), NEW k, k = w.k, NEW run, NEW v, NEW p, NEW limit, NEW Se
  PROVE  StoreAc(Took(w, v, p), k + run, limit, Se) = AcLeft(w, limit, Se, run, v, p)
<1> DEFINE x == Took(w, v, p)
           stored == IF w.k < limit THEN Store(w.block, w.k + run, v, Se) ELSE w.block
<1>1. x.ok = TRUE /\ x.k = w.k /\ x.block = w.block /\ x.sym = v
  BY TookFields DEF Ready
<1> HIDE DEF x
<1>2. StoreAc(x, k + run, limit, Se) = [x EXCEPT !.k = k + run + 1, !.block = stored]
  BY <1>1 DEF StoreAc
<1> HIDE DEF stored
<1>3. [x EXCEPT !.k = k + run + 1, !.block = stored] =
        [w EXCEPT !.sym = v, !.pos = p, !.k = w.k + run + 1, !.block = stored]
  BY Zenon DEF x, Took
<1> QED
  BY <1>2, <1>3 DEF x, stored, AcLeft

LEMMA RunAndSize ==
  ASSUME NEW run \in 0 .. 15, NEW s \in 1 .. 10
  PROVE  ((16 * run + s) % 16) = s /\ ((16 * run + s) \div 16) = run /\ s # 0
OBVIOUS

LEMMA AcRead ==
  ASSUME NEW tbl \in HuffTable, NEW isDC \in BOOLEAN, NEW tables, NEW t,
         tables.ac[t] = jpeg_make_c_derived_tbl(isDC, tbl),
         NEW run \in 0 .. 15, NEW v \in Int, v # 0, v > -1024, v < 1024,
         16 * run + nbits(Magnitude(v)) \in DOMAIN tables.ac[t],
         NEW in, NEW w, WorkFields \subseteq DOMAIN w,
         NEW Se \in Nat, w.k \in Nat, w.k <= Se, NEW limit,
         NEW bits, bits = emit_all(<< >>, AcValue(t, run, v, Magnitude(v)), tables),
         DataAt(in, w, bits)
  PROVE  AcStored(in, w, jpeg_make_d_derived_tbl(isDC, tbl), limit, Se, run, v, bits)
<1> DEFINE dt == jpeg_make_d_derived_tbl(isDC, tbl)
           s == nbits(Magnitude(v))
           sym == 16 * run + s
           code == jpeg_make_c_derived_tbl(isDC, tbl)[sym]
           out == AcValue(t, run, v, Magnitude(v))
           h == HUFF_DECODE(in, w, dt)
           x == Extended(in, h, s)
<1>1. CodedAs(tables, "ac", t, isDC, tbl, sym, code)
  BY DEF CodedAs, Kinds
<1>2. OfBits(v, s, 10)
  <2>1. 2 ^ 10 = 1024
    OBVIOUS
  <2>2. Magnitude(v) < 1024
    BY DEF Magnitude
  <2> QED
    BY <2>1, <2>2 DEF OfBits
<1>3. s \in 1 .. 10
  BY <1>2, ExtendInverts DEF OfBits
<1>4. out = << << "ac", t, sym >>, ValueBits(v, s) >>
  BY <1>3, AcOut, ZenonT(60)
<1>5. w.ok = TRUE /\ w.pos \in Nat
  BY DEF DataAt
<1> HIDE DEF s
<1>6. (sym % 16) = s /\ (sym \div 16) = run /\ s # 0
  BY <1>3, RunAndSize
<1> HIDE DEF sym, code, out, h, x, dt
<1>7. /\ Len(emit_all(<< >>, out, tables)) = code[2] + s /\ code[2] \in Nat
      /\ ValueIs(in, w, jpeg_make_d_derived_tbl(isDC, tbl), sym, code[2], v, s)
  <2>1. DataAt(in, w, emit_all(<< >>, out, tables))
    BY DEF out
  <2>2. 10 \in 1 .. 15
    OBVIOUS
  <2> QED
    BY <1>1, <1>2, <1>4, <2>1, <2>2, ValueSent
<1>8. Len(bits) = code[2] + s
  BY <1>7 DEF out
<1>9. h = Took(w, sym, w.pos + code[2])
  BY <1>7, ValueTook DEF h, dt
<1>10. h.ok = TRUE /\ h.sym = sym /\ h.k = w.k
  BY <1>5, <1>9, TookFields
<1>11. x = Took(w, v, w.pos + Len(bits))
  <2>1. x = Took(w, v, w.pos + code[2] + s)
    BY <1>7, ValueTook DEF x, h, dt
  <2>2. w.pos + code[2] + s = w.pos + Len(bits)
    <3>1. s \in Int /\ code[2] \in Int /\ w.pos \in Int
      BY <1>3, <1>5, <1>7
    <3> QED
      BY ONLY <3>1, <1>8
  <2> QED
    BY <2>1, <2>2
<1>12. NextAc(in, w, dt, limit, Se) = StoreAc(x, w.k + run, limit, Se)
  <2>1. NextAc(in, w, dt, limit, Se) = AcSymbol(in, h, limit, Se)
    BY <1>5 DEF NextAc, h
  <2>2. AcSymbol(in, h, limit, Se) = StoreAc(x, w.k + run, limit, Se)
    BY <1>6, <1>10 DEF AcSymbol, x
  <2> QED
    BY <2>1, <2>2
<1>13. StoreAc(x, w.k + run, limit, Se) = AcLeft(w, limit, Se, run, v, w.pos + Len(bits))
  <2> DEFINE p == w.pos + Len(bits)
             k == w.k
  <2>1. k = w.k /\ Ready(w)
    BY <1>5 DEF Ready
  <2> HIDE DEF p, k
  <2>2. StoreAc(Took(w, v, p), k + run, limit, Se) = AcLeft(w, limit, Se, run, v, p)
    BY ONLY <2>1, StoredTook
  <2> QED
    BY <1>11, <2>2 DEF p, k
<1> QED
  BY <1>12, <1>13 DEF AcStored, dt

\* An AC coefficient of up to ten bits after less than sixteen zeros, whose run and size
\* have a code: from what the encoder writes for it the decoder stores that value behind
\* as many zeros, and takes just those bits (encode_one_block in jchuff.c, decode_mcu in
\* jdhuff.c).
THEOREM AcDecodes ==
  ASSUME NEW tbl \in HuffTable, NEW isDC \in BOOLEAN, NEW tables, NEW t,
         tables.ac[t] = jpeg_make_c_derived_tbl(isDC, tbl),
         NEW run \in 0 .. 15, NEW v \in Int, v # 0, v > -1024, v < 1024,
         16 * run + nbits(Magnitude(v)) \in DOMAIN tables.ac[t],
         NEW in, NEW w, WorkFields \subseteq DOMAIN w,
         NEW Se \in Nat, w.k \in Nat, w.k <= Se, NEW limit,
         NEW bits, bits = emit_all(<< >>, AcValue(t, run, v, Magnitude(v)), tables),
         DataAt(in, w, bits)
  PROVE  NextAc(in, w, jpeg_make_d_derived_tbl(isDC, tbl), limit, Se) =
           [w EXCEPT !.sym = v, !.pos = w.pos + Len(bits), !.k = w.k + run + 1,
                     !.block = IF w.k < limit THEN Store(w.block, w.k + run, v, Se)
                               ELSE w.block]
<1>1. AcStored(in, w, jpeg_make_d_derived_tbl(isDC, tbl), limit, Se, run, v, bits)
  BY AcRead, ZenonT(60)
<1> QED
  BY <1>1, Zenon DEF AcStored, AcLeft
=============================================================================
