--------------------------- MODULE ExecutorProofs ---------------------------
(***************************************************************************)
(* Theorems about firing transitions concurrently, for every net, any      *)
(* finite set of threads and any number of calls: the types and the locks, *)
(* that the steps of all the threads together play the token game of       *)
(* TokenGame, the state equation of the net, and that a firing which no    *)
(* one disturbs gets the tokens that its guard saw.                        *)
(*                                                                         *)
(* First, how to count: the weight of a sequence of arcs up to one of      *)
(* them, and the tokens that a firing has consumed from a place.           *)
(***************************************************************************)
EXTENDS Executor, PlaceChannelProofs

IsArcs(arcs) ==
  \E S : /\ arcs \in Seq(S)
         /\ \A a \in S : a.place \in Place /\ a.weight \in Nat \ {0}

(* The weight of the first k arcs at place p.                               *)
UptoFn(arcs, k, p) ==
  [i \in DOMAIN arcs |->
     IF i <= k /\ arcs[i].place = p THEN arcs[i].weight ELSE 0]

Upto(arcs, k, p) == Cardinality(SlotSet(DOMAIN arcs, UptoFn(arcs, k, p)))

LEMMA ArcsShape ==
  ASSUME NEW arcs, IsArcs(arcs)
  PROVE  /\ Len(arcs) \in Nat /\ DOMAIN arcs = 1 .. Len(arcs)
         /\ IsFiniteSet(DOMAIN arcs)
         /\ \A i \in DOMAIN arcs : arcs[i].place \in Place
                                   /\ arcs[i].weight \in Nat \ {0}
<1>1. PICK S : /\ arcs \in Seq(S)
               /\ \A a \in S : a.place \in Place /\ a.weight \in Nat \ {0}
  BY DEF IsArcs
<1>2. Len(arcs) \in Nat /\ DOMAIN arcs = 1 .. Len(arcs)
      /\ \A i \in DOMAIN arcs : arcs[i] \in S
  BY <1>1
<1>3. IsFiniteSet(1 .. Len(arcs))
  BY <1>2, FS_Interval
<1> QED BY <1>1, <1>2, <1>3

LEMMA UptoType ==
  ASSUME NEW arcs, IsArcs(arcs), NEW k \in Int, NEW p
  PROVE  /\ UptoFn(arcs, k, p) \in [DOMAIN arcs -> Nat]
         /\ Upto(arcs, k, p) \in Nat
<1>1. UptoFn(arcs, k, p) \in [DOMAIN arcs -> Nat]
  BY ArcsShape DEF UptoFn
<1>2. IsFiniteSet(SlotSet(DOMAIN arcs, UptoFn(arcs, k, p)))
  BY <1>1, ArcsShape, SlotSetFinite
<1> QED BY <1>1, <1>2, FS_CardinalityType DEF Upto

(* A sum of zeros.                                                          *)
LEMMA SlotZero ==
  ASSUME NEW S, NEW n, \A x \in S : n[x] = 0
  PROVE  Cardinality(SlotSet(S, n)) = 0
<1>1. ASSUME NEW e \in SlotSet(S, n) PROVE FALSE
  <2>1. PICK x \in S : e \in {x} \X (1 .. n[x])
    BY <1>1 DEF SlotSet
  <2>2. n[x] = 0
    OBVIOUS
  <2>3. \A i \in 1 .. 0 : FALSE
    OBVIOUS
  <2> QED BY <2>1, <2>2, <2>3
<1>2. SlotSet(S, n) = {}
  BY <1>1
<1> QED BY <1>2, FS_EmptySet

LEMMA UptoNone ==
  ASSUME NEW arcs, IsArcs(arcs), NEW p
  PROVE  Upto(arcs, 0, p) = 0
<1>1. \A i \in DOMAIN arcs : UptoFn(arcs, 0, p)[i] = 0
  BY ArcsShape DEF UptoFn
<1> HIDE DEF UptoFn
<1> QED BY <1>1, SlotZero DEF Upto

LEMMA UptoAll ==
  ASSUME NEW arcs, IsArcs(arcs), NEW p
  PROVE  Upto(arcs, Len(arcs), p) = Weight(arcs, p)
<1>1. UptoFn(arcs, Len(arcs), p)
        = [i \in DOMAIN arcs |-> IF arcs[i].place = p THEN arcs[i].weight ELSE 0]
  BY ArcsShape DEF UptoFn
<1> QED BY <1>1 DEF Upto, Weight, Total, SlotSet

LEMMA UptoNext ==
  ASSUME NEW arcs, IsArcs(arcs), NEW k \in DOMAIN arcs, NEW p
  PROVE  Upto(arcs, k, p)
           = Upto(arcs, k - 1, p)
               + (IF arcs[k].place = p THEN arcs[k].weight ELSE 0)
<1> DEFINE m == UptoFn(arcs, k, p)  n == UptoFn(arcs, k - 1, p)
           w == IF arcs[k].place = p THEN arcs[k].weight ELSE 0
<1>1. k \in Int /\ k - 1 \in Int /\ w \in Nat
  BY ArcsShape
<1>2. m \in [DOMAIN arcs -> Nat] /\ n \in [DOMAIN arcs -> Nat]
  BY <1>1, UptoType
<1>3. \A i \in DOMAIN arcs : i # k => m[i] = n[i]
  BY ArcsShape DEF UptoFn
<1>4. m[k] = w /\ n[k] = 0
  BY ArcsShape DEF UptoFn
<1> DEFINE D == DOMAIN arcs
<1>0. IsFiniteSet(D) /\ k \in D
  BY ArcsShape
<1> HIDE DEF m, n, w, D
<1>5. /\ Cardinality(SlotSet(D, n)) \in Nat
      /\ Cardinality(SlotSet(D, m)) = Cardinality(SlotSet(D, n)) - n[k] + m[k]
  <2>1. m \in [D -> Nat] /\ n \in [D -> Nat] /\ \A i \in D : i # k => m[i] = n[i]
    BY <1>2, <1>3 DEF D
  <2> QED BY <1>0, <2>1, SlotReplace
<1>6. Cardinality(SlotSet(D, m)) = Cardinality(SlotSet(D, n)) + w
  BY <1>1, <1>4, <1>5
<1> QED BY <1>6 DEF m, n, w, D, Upto

LEMMA UptoBound ==
  ASSUME NEW arcs, IsArcs(arcs), NEW k \in DOMAIN arcs, NEW p
  PROVE  Upto(arcs, k, p) <= Weight(arcs, p)
<1> DEFINE m == UptoFn(arcs, k, p)  n == UptoFn(arcs, Len(arcs), p)
<1>1. k \in Int /\ Len(arcs) \in Int
  BY ArcsShape
<1>2. m \in [DOMAIN arcs -> Nat] /\ n \in [DOMAIN arcs -> Nat]
  BY <1>1, UptoType
<1>3. \A i \in DOMAIN arcs : m[i] <= n[i]
  BY ArcsShape DEF UptoFn
<1> HIDE DEF m, n
<1>4. SlotSet(DOMAIN arcs, m) \subseteq SlotSet(DOMAIN arcs, n)
  <2>1. ASSUME NEW e \in SlotSet(DOMAIN arcs, m)
        PROVE  e \in SlotSet(DOMAIN arcs, n)
    <3>1. PICK i \in DOMAIN arcs : \E j \in 1 .. m[i] : e = <<i, j>>
      BY <1>2, SlotMember
    <3>2. PICK j \in 1 .. m[i] : e = <<i, j>>
      BY <3>1
    <3>3. j \in 1 .. n[i]
      BY <1>2, <1>3
    <3> QED BY <1>2, <3>2, <3>3, SlotMember
  <2> QED BY <2>1
<1>5. IsFiniteSet(SlotSet(DOMAIN arcs, n))
  BY <1>2, ArcsShape, SlotSetFinite
<1>6. Cardinality(SlotSet(DOMAIN arcs, m)) <= Cardinality(SlotSet(DOMAIN arcs, n))
  BY <1>4, <1>5, FS_Subset
<1> QED BY <1>6, UptoAll DEF m, n, Upto

(* The first k arcs as a sequence of their own.                             *)
LEMMA UptoPrefix ==
  ASSUME NEW arcs, IsArcs(arcs), NEW k \in 0 .. Len(arcs), NEW p
  PROVE  Weight(SubSeq(arcs, 1, k), p) = Upto(arcs, k, p)
<1> DEFINE sub == SubSeq(arcs, 1, k)
           n == [i \in DOMAIN sub |->
                   IF sub[i].place = p THEN sub[i].weight ELSE 0]
           m == UptoFn(arcs, k, p)
<1>1. PICK S : arcs \in Seq(S)
  BY DEF IsArcs
<1>2. /\ Len(arcs) \in Nat /\ DOMAIN arcs = 1 .. Len(arcs)
      /\ k \in Nat /\ k <= Len(arcs)
      /\ \A i \in DOMAIN arcs : arcs[i].weight \in Nat
  BY ArcsShape
<1>3. DOMAIN sub = 1 .. k /\ \A i \in 1 .. k : sub[i] = arcs[i]
  BY <1>1, <1>2
<1> HIDE DEF sub
<1>4. /\ n \in [1 .. k -> Nat] /\ m \in [DOMAIN arcs -> Nat]
      /\ \A i \in 1 .. k : i \in DOMAIN arcs /\ m[i] = n[i]
      /\ \A i \in DOMAIN arcs : i \notin 1 .. k => m[i] = 0
  BY <1>2, <1>3 DEF UptoFn
<1> HIDE DEF n, m
<1>5. SlotSet(1 .. k, n) = SlotSet(DOMAIN arcs, m)
  <2>1. ASSUME NEW e
        PROVE  (\E i \in 1 .. k : \E j \in 1 .. n[i] : e = <<i, j>>)
                 <=> (\E i \in DOMAIN arcs : \E j \in 1 .. m[i] : e = <<i, j>>)
    <3>1. ASSUME NEW i \in DOMAIN arcs, NEW j \in 1 .. m[i], e = <<i, j>>
          PROVE  i \in 1 .. k
      BY <1>4, <3>1
    <3> QED BY <1>4, <3>1
  <2> DEFINE D == DOMAIN arcs  K == 1 .. k
  <2>2. /\ n \in [K -> Nat] /\ m \in [D -> Nat]
        /\ \A e : (\E i \in K : \E j \in 1 .. n[i] : e = <<i, j>>)
                    <=> (\E i \in D : \E j \in 1 .. m[i] : e = <<i, j>>)
    BY <1>4, <2>1
  <2> HIDE DEF D, K
  <2>3. \A e : e \in SlotSet(K, n) <=> \E i \in K : \E j \in 1 .. n[i] : e = <<i, j>>
    BY <2>2, SlotMember
  <2>4. \A e : e \in SlotSet(D, m) <=> \E i \in D : \E j \in 1 .. m[i] : e = <<i, j>>
    BY <2>2, SlotMember
  <2>5. SlotSet(K, n) = SlotSet(D, m)
    BY <2>2, <2>3, <2>4
  <2> QED BY <2>5 DEF D, K
<1>6. Weight(sub, p) = Cardinality(SlotSet(1 .. k, n))
  BY <1>3 DEF Weight, Total, SlotSet, n
<1> QED BY <1>5, <1>6 DEF sub, m, Upto

(* How much of the weight at p is done when the loop over the arcs is at    *)
(* arc, with n tokens of it done.                                           *)
Partial(arcs, arc, n, p) ==
  Upto(arcs, arc - 1, p)
    + (IF arc \in DOMAIN arcs /\ arcs[arc].place = p THEN n ELSE 0)

LEMMA PartialFirst ==
  ASSUME NEW arcs, IsArcs(arcs), NEW p
  PROVE  Partial(arcs, 1, 0, p) = 0
  BY UptoNone DEF Partial

LEMMA PartialLast ==
  ASSUME NEW arcs, IsArcs(arcs), NEW arc \in Nat, arc = Len(arcs) + 1, NEW p
  PROVE  Partial(arcs, arc, 0, p) = Weight(arcs, p)
<1>1. arc - 1 = Len(arcs)
  BY ArcsShape
<1>2. Upto(arcs, Len(arcs), p) = Weight(arcs, p) /\ Upto(arcs, Len(arcs), p) \in Nat
  BY ArcsShape, UptoAll, UptoType
<1> QED BY <1>1, <1>2 DEF Partial

(* Inside the loop something is still missing at the place of the arc.      *)
LEMMA PartialBelow ==
  ASSUME NEW arcs, IsArcs(arcs), NEW arc \in DOMAIN arcs, NEW n \in Nat,
         n < arcs[arc].weight
  PROVE  Partial(arcs, arc, n, arcs[arc].place)
           < Weight(arcs, arcs[arc].place)
<1> DEFINE p == arcs[arc].place
           u == Upto(arcs, arc - 1, p)  v == Upto(arcs, arc, p)
           w == arcs[arc].weight  x == Weight(arcs, p)
<1>1. arc \in Int /\ arc - 1 \in Int /\ w \in Nat
  BY ArcsShape
<1>2. u \in Nat /\ v \in Nat /\ v <= x
  BY <1>1, UptoType, UptoBound
<1>3. v = u + w
  BY UptoNext
<1>4. Partial(arcs, arc, n, p) = u + n
  BY DEF Partial
<1>5. x \in Nat
  BY ArcsShape, UptoType, UptoAll
<1>7. n < w
  OBVIOUS
<1> HIDE DEF u, v, w, x
<1>6. u + n < x
  BY ONLY <1>1, <1>2, <1>3, <1>5, <1>7, n \in Nat
<1> QED BY <1>4, <1>6 DEF x

LEMMA WeightType ==
  ASSUME NEW arcs, IsArcs(arcs), NEW p
  PROVE  Weight(arcs, p) \in Nat
  BY ArcsShape, UptoAll, UptoType

LEMMA PartialType ==
  ASSUME NEW arcs, IsArcs(arcs), NEW arc \in Nat, NEW n \in Nat, NEW p
  PROVE  Partial(arcs, arc, n, p) \in Nat
<1>1. Upto(arcs, arc - 1, p) \in Nat
  BY UptoType
<1> QED BY <1>1 DEF Partial

(* The loop is at one of the arcs, or has passed the last one.              *)
Inside(arcs, f) ==
  \/ f.arc \in DOMAIN arcs /\ f.n < arcs[f.arc].weight
  \/ f.arc = Len(arcs) + 1 /\ f.n = 0

LEMMA AdvancePartial ==
  ASSUME NEW arcs, IsArcs(arcs), NEW f \in FireType, f.arc \in DOMAIN arcs,
         f.n < arcs[f.arc].weight
  PROVE  LET g == Advance(f, arcs) IN
         /\ g \in FireType
         /\ g.t = f.t /\ g.mode = f.mode /\ g.inputs = f.inputs
         /\ Inside(arcs, g)
         /\ \A p : Partial(arcs, g.arc, g.n, p)
                     = Partial(arcs, f.arc, f.n, p) + Bit(arcs[f.arc].place = p)
<1> DEFINE g == Advance(f, arcs)
<1>1. /\ f.arc \in Nat /\ f.n \in Nat /\ arcs[f.arc].weight \in Nat
      /\ Len(arcs) \in Nat /\ DOMAIN arcs = 1 .. Len(arcs)
      /\ f.arc - 1 \in Int
  BY ArcsShape DEF FireType
<1>2. /\ g \in FireType /\ g.t = f.t /\ g.mode = f.mode /\ g.inputs = f.inputs
  <2>1. [f EXCEPT !.n = @ + 1] \in FireType
    BY DEF FireType
  <2>4. [f EXCEPT !.arc = @ + 1, !.n = 0] \in FireType
    <3>1. ASSUME NEW j \in Nat, NEW k \in Nat
          PROVE  [f EXCEPT !.arc = j, !.n = k] \in FireType
      BY DEF FireType
    <3>2. f.arc + 1 \in Nat /\ 0 \in Nat
      BY <1>1
    <3>3. [f EXCEPT !.arc = f.arc + 1, !.n = 0] \in FireType
      BY <3>1, <3>2
    <3> QED BY <3>3
  <2>2. ASSUME NEW h, \/ h = [f EXCEPT !.n = @ + 1]
                      \/ h = [f EXCEPT !.arc = @ + 1, !.n = 0]
        PROVE  h.t = f.t /\ h.mode = f.mode /\ h.inputs = f.inputs
    BY <2>2 DEF FireType
  <2>3. \/ g = [f EXCEPT !.n = @ + 1]
        \/ g = [f EXCEPT !.arc = @ + 1, !.n = 0]
    BY DEF Advance
  <2> HIDE DEF g
  <2> QED BY <2>1, <2>2, <2>3, <2>4
<1>3. CASE f.n + 1 < arcs[f.arc].weight
  <2>1. g.arc = f.arc /\ g.n = f.n + 1
    BY <1>3 DEF Advance, FireType
  <2> HIDE DEF g
  <2>2. Inside(arcs, g)
    BY <1>3, <2>1 DEF Inside
  <2>3. ASSUME NEW p
        PROVE  Partial(arcs, g.arc, g.n, p)
                 = Partial(arcs, f.arc, f.n, p) + Bit(arcs[f.arc].place = p)
    <3>1. Upto(arcs, f.arc - 1, p) \in Nat
      BY <1>1, UptoType
    <3>2. Partial(arcs, g.arc, g.n, p)
            = Upto(arcs, f.arc - 1, p)
                + (IF arcs[f.arc].place = p THEN f.n + 1 ELSE 0)
      BY ONLY f.arc \in DOMAIN arcs, <2>1 DEF Partial
    <3>3. Partial(arcs, f.arc, f.n, p)
            = Upto(arcs, f.arc - 1, p) + (IF arcs[f.arc].place = p THEN f.n ELSE 0)
      BY ONLY f.arc \in DOMAIN arcs DEF Partial
    <3> QED BY ONLY <1>1, <3>1, <3>2, <3>3 DEF Bit
  <2> QED BY <1>2, <2>2, <2>3 DEF g
<1>4. CASE ~(f.n + 1 < arcs[f.arc].weight)
  <2>1. g.arc = f.arc + 1 /\ g.n = 0 /\ g.arc - 1 = f.arc
        /\ f.n + 1 = arcs[f.arc].weight
    BY <1>1, <1>4 DEF Advance, FireType
  <2> HIDE DEF g
  <2>2. Inside(arcs, g)
    <3>1. \A i \in DOMAIN arcs : 0 < arcs[i].weight
      BY ArcsShape
    <3>2. g.arc \in DOMAIN arcs \/ g.arc = Len(arcs) + 1
      BY <1>1, <2>1
    <3> QED BY <2>1, <3>1, <3>2 DEF Inside
  <2>3. ASSUME NEW p
        PROVE  Partial(arcs, g.arc, g.n, p)
                 = Partial(arcs, f.arc, f.n, p) + Bit(arcs[f.arc].place = p)
    <3>1. Upto(arcs, f.arc - 1, p) \in Nat /\ Upto(arcs, f.arc, p) \in Nat
      BY <1>1, UptoType
    <3>2. Upto(arcs, f.arc, p)
            = Upto(arcs, f.arc - 1, p)
                + (IF arcs[f.arc].place = p THEN arcs[f.arc].weight ELSE 0)
      BY UptoNext
    <3>3. Partial(arcs, g.arc, g.n, p) = Upto(arcs, f.arc, p)
      BY <2>1, <3>1 DEF Partial
    <3>4. Partial(arcs, f.arc, f.n, p)
            = Upto(arcs, f.arc - 1, p) + (IF arcs[f.arc].place = p THEN f.n ELSE 0)
      BY DEF Partial
    <3> QED BY <1>1, <2>1, <3>1, <3>2, <3>3, <3>4 DEF Bit
  <2> QED BY <1>2, <2>2, <2>3 DEF g
<1> QED BY <1>3, <1>4

LEMMA TheArcs ==
  ASSUME NEW t \in Transition
  PROVE  IsArcs(InputArcs[t]) /\ IsArcs(OutputArcs[t])
<1>1. /\ InputArcs[t] \in Seq([place : Place, weight : Nat \ {0}])
      /\ OutputArcs[t] \in Seq([place : Place, weight : Nat \ {0},
                                expr : [Token -> Token]])
  BY ExecutorAssumption
<1>2. IsArcs(InputArcs[t])
  <2> DEFINE S == [place : Place, weight : Nat \ {0}]
  <2>1. \A a \in S : a.place \in Place /\ a.weight \in Nat \ {0}
    OBVIOUS
  <2>2. InputArcs[t] \in Seq(S)
    BY <1>1
  <2> HIDE DEF S
  <2> QED BY <2>1, <2>2 DEF IsArcs
<1>3. IsArcs(OutputArcs[t])
  <2> DEFINE S == [place : Place, weight : Nat \ {0}, expr : [Token -> Token]]
  <2>1. \A a \in S : a.place \in Place /\ a.weight \in Nat \ {0}
    OBVIOUS
  <2>2. OutputArcs[t] \in Seq(S)
    BY <1>1
  <2> HIDE DEF S
  <2> QED BY <2>1, <2>2 DEF IsArcs
<1> QED BY <1>2, <1>3

(* The consumed tokens of a place.                                          *)
InputSeq == Seq([tok : Token, place : Place])

LEMMA FromNone == ASSUME NEW p PROVE From(<<>>, p) = 0
<1>1. {i \in DOMAIN <<>> : <<>>[i].place = p} = {}
  OBVIOUS
<1> QED BY <1>1, FS_EmptySet DEF From

LEMMA FromAppend ==
  ASSUME NEW s \in InputSeq, NEW x \in [tok : Token, place : Place], NEW p
  PROVE  /\ From(s, p) \in Nat
         /\ From(Append(s, x), p) = From(s, p) + Bit(x.place = p)
<1> DEFINE r == Append(s, x)
           A == {i \in DOMAIN s : s[i].place = p}
           B == {i \in DOMAIN r : r[i].place = p}
           k == Len(s) + 1
<1>1. Len(s) \in Nat /\ DOMAIN s = 1 .. Len(s)
  BY DEF InputSeq
<1>2. /\ DOMAIN r = 1 .. k /\ r[k] = x
      /\ \A i \in 1 .. Len(s) : r[i] = s[i]
  BY <1>1, AppendProperties DEF InputSeq
<1>3. IsFiniteSet(A)
  <2>1. IsFiniteSet(1 .. Len(s))
    BY <1>1, FS_Interval
  <2> QED BY <1>1, <2>1, FS_Subset
<1> HIDE DEF r
<1>4. \A y : y # k => (y \in B <=> y \in A)
  BY <1>1, <1>2
<1>5. k \notin A /\ (k \in B <=> x.place = p)
  BY <1>1, <1>2
<1> HIDE DEF A, B, k
<1>6. /\ Cardinality(A) \in Nat
      /\ Cardinality(B) = Cardinality(A) - Bit(k \in A) + Bit(k \in B)
  BY <1>3, <1>4, MemberReplace
<1>7. Cardinality(B) = Cardinality(A) + Bit(x.place = p)
  BY <1>5, <1>6 DEF Bit
<1> QED BY <1>6, <1>7 DEF From, A, B, r

LEMMA FromType ==
  ASSUME NEW s \in InputSeq, NEW p
  PROVE  From(s, p) \in Nat
<1> DEFINE A == {i \in DOMAIN s : s[i].place = p}
<1>1. Len(s) \in Nat /\ DOMAIN s = 1 .. Len(s)
  BY DEF InputSeq
<1>2. IsFiniteSet(A)
  <2>1. IsFiniteSet(1 .. Len(s))
    BY <1>1, FS_Interval
  <2> QED BY <1>1, <2>1, FS_Subset
<1> QED BY <1>2, FS_CardinalityType DEF From

LEMMA FromFront ==
  ASSUME NEW s \in InputSeq, s # <<>>, NEW p
  PROVE  /\ Front(s) \in InputSeq
         /\ Last(s) \in [tok : Token, place : Place]
         /\ From(s, p) = From(Front(s), p) + Bit(Last(s).place = p)
<1>1. /\ Front(s) \in InputSeq
      /\ Last(s) \in [tok : Token, place : Place]
      /\ Append(Front(s), Last(s)) = s
  <2> DEFINE S == [tok : Token, place : Place]
             fr == Front(s)  la == Last(s)
  <2>1. s \in Seq(S) /\ Len(s) \in Nat \ {0}
    BY EmptySeq DEF InputSeq
  <2> HIDE DEF S
  <2>2. /\ fr \in Seq(S) /\ Len(fr) = Len(s) - 1
        /\ \A i \in 1 .. Len(s) - 1 : fr[i] = s[i]
    <3> DEFINE k == Len(s) - 1
    <3>1. k \in 0 .. Len(s) /\ k \in Int
      BY <2>1
    <3>2. fr = SubSeq(s, 1, k)
      BY DEF Front
    <3> HIDE DEF k, fr
    <3>3. fr \in Seq(S) /\ Len(fr) = k /\ \A i \in 1 .. k : fr[i] = s[i]
      BY <2>1, <3>1, <3>2, SubSeqProperties
    <3> QED BY <3>3 DEF k
  <2>3. la \in S /\ la = s[Len(s)]
    BY <2>1 DEF Last
  <2> HIDE DEF fr, la
  <2>4. /\ Append(fr, la) \in Seq(S) /\ Len(Append(fr, la)) = Len(s)
        /\ \A i \in 1 .. Len(s) : Append(fr, la)[i] = s[i]
    BY <2>1, <2>2, <2>3
  <2>5. Append(fr, la) = s
    BY <2>1, <2>4, SeqEqual
  <2> QED BY <2>2, <2>3, <2>5 DEF S, fr, la, InputSeq
<1>2. ASSUME NEW fr \in InputSeq, NEW la \in [tok : Token, place : Place]
      PROVE  From(Append(fr, la), p) = From(fr, p) + Bit(la.place = p)
  BY FromAppend
<1> QED BY <1>1, <1>2

-----------------------------------------------------------------------------
(* What a firing record f says together with the place call c of its        *)
(* thread.  Ok and No are the two outcomes of a call that has returned.     *)
Ok(c) == c.pc = "done" /\ c.ok
No(c) == c.pc = "done" /\ ~c.ok

PwcSteps == {"pwc_lock", "pwc_drain", "pwc_undo", "pwc_refill"}

(* c is a call of these steps on place p, or one that has returned.         *)
Calling(c, steps, p) ==
  c.pc \in steps \cup {"done"} /\ (c.pc \in steps => c.place = p)

Consuming(f, c) ==
  LET arcs == InputArcs[f.t] IN
  /\ f.arc \in DOMAIN arcs /\ f.n < arcs[f.arc].weight
  /\ Calling(c, RemoveSteps, arcs[f.arc].place)
  /\ Ok(c) => c.tok \in Token
  /\ \A p \in Place : From(f.inputs, p) = Partial(arcs, f.arc, f.n, p)

Producing(f, c) ==
  LET arcs == OutputArcs[f.t] IN
  /\ f.arc \in DOMAIN arcs /\ f.n < arcs[f.arc].weight
  /\ Calling(c, AddSteps, arcs[f.arc].place)

FireOK(f, c) ==
  /\ f.pc # "idle" => f.t \in Transition
  /\ f.pc \in {"idle", "lock", "guard", "task"} => c.pc \in {"idle", "done"}
  /\ f.pc \in {"lock", "check", "guard"} => f.inputs = <<>>
  /\ f.pc = "lock" => f.arc = 1
  /\ f.pc = "check" => /\ f.arc \in DOMAIN InputArcs[f.t]
                       /\ c.pc \in PwcSteps \cup {"done"}
  /\ f.pc = "consume" => Consuming(f, c)
  /\ f.pc = "task" => \A p \in Place :
                        From(f.inputs, p) = Weight(InputArcs[f.t], p)
  /\ f.pc = "rollback" => /\ f.inputs # <<>>
                          /\ Calling(c, AddSteps, Last(f.inputs).place)
  /\ f.pc = "produce" => Producing(f, c)

(* A client step of th leaves it with the records f and c.                  *)
Becomes(th, f, c) ==
  /\ SetFire(th, f) /\ Set(th, c)
  /\ f \in FireType /\ c \in CallType /\ CallOK(c) /\ FireOK(f, c)
  /\ c.pc \notin DrainSteps

LEMMA KeepsCall ==
  ASSUME PlaceTypeOK, NEW th \in Thread, Free(th), UNCHANGED call
  PROVE  /\ Set(th, call[th]) /\ call[th] \in CallType /\ CallOK(call[th])
         /\ call[th].pc \in {"idle", "done"} /\ call[th].pc \notin DrainSteps
<1>1. call \in [Thread -> CallType] /\ CallOK(call[th])
  BY DEF PlaceTypeOK
<1>2. call[th].pc \in {"idle", "done"}
  BY DEF Free
<1> QED BY <1>1, <1>2 DEF Set, DrainSteps

LEMMA TheRequest ==
  ASSUME NEW p \in Place, NEW t \in Token \cup {None}, NEW n \in Nat,
         NEW step \in {"add_check", "rem_recv", "pwc_lock"},
         step = "add_check" => t \in Token, step = "pwc_lock" => n >= 1
  PROVE  LET c == Request(step, p, t, n) IN
         /\ c \in CallType /\ CallOK(c)
         /\ c.pc = step /\ c.place = p /\ c.pc \notin DrainSteps
<1> DEFINE c == Request(step, p, t, n)
<1>1. step \in Steps /\ step \notin DrainSteps
  BY DEF Steps, AddSteps, RemoveSteps, LockSteps, DrainSteps
<1>2. c \in CallType
  BY <1>1, RequestType
<1>3. c.pc = step /\ c.place = p /\ c.tok = t /\ c.need = n /\ c.buf = <<>>
  BY DEF Request
<1> HIDE DEF c
<1>4. CallOK(c)
  BY <1>1, <1>3 DEF CallOK, Steps, AddSteps, RemoveSteps, LockSteps, DrainSteps
<1> QED BY <1>1, <1>2, <1>3, <1>4 DEF c

LEMMA CheckFromBecomes ==
  ASSUME PlaceTypeOK, NEW th \in Thread, Free(th), NEW f \in FireType,
         f.t \in Transition, f.inputs = <<>>, f.arc >= 1, CheckFrom(th, f)
  PROVE  \E g, c : /\ Becomes(th, g, c)
                   /\ g.pc \in {"check", "guard"} /\ g.t = f.t /\ g.mode = f.mode
<1> DEFINE arcs == InputArcs[f.t]
<1>1. IsArcs(arcs) /\ f.arc \in Nat
  BY TheArcs DEF FireType
<1>2. Len(arcs) \in Nat /\ DOMAIN arcs = 1 .. Len(arcs)
      /\ \A i \in DOMAIN arcs : arcs[i].place \in Place
                                /\ arcs[i].weight \in Nat \ {0}
  BY <1>1, ArcsShape
<1>3. ASSUME NEW pc \in {"check", "guard"}
      PROVE  LET g == [f EXCEPT !.pc = pc] IN
             /\ g \in FireType /\ g.pc = pc /\ g.t = f.t /\ g.mode = f.mode
             /\ g.inputs = <<>> /\ g.arc = f.arc
  BY DEF FireType, Phases
<1>4. CASE f.arc <= Len(arcs)
  <2> DEFINE g == [f EXCEPT !.pc = "check"]
             c == Request("pwc_lock", arcs[f.arc].place, None, arcs[f.arc].weight)
  <2>1. f.arc \in DOMAIN arcs
    BY <1>1, <1>2, <1>4
  <2>2. SetFire(th, g) /\ Set(th, c)
    BY <1>4 DEF CheckFrom, CallPeekTokensWithCount
  <2>3. /\ c \in CallType /\ CallOK(c)
        /\ c.pc = "pwc_lock" /\ c.pc \notin DrainSteps
    <3> DEFINE p == arcs[f.arc].place  n == arcs[f.arc].weight
    <3>1. p \in Place /\ n \in Nat /\ n >= 1 /\ None \in Token \cup {None}
      BY <1>2, <2>1
    <3> HIDE DEF p, n
    <3>2. LET d == Request("pwc_lock", p, None, n) IN
          /\ d \in CallType /\ CallOK(d)
          /\ d.pc = "pwc_lock" /\ d.pc \notin DrainSteps
      BY ONLY <3>1, TheRequest
    <3> QED BY <3>2 DEF p, n
  <2>4. /\ g \in FireType /\ g.pc = "check" /\ g.t = f.t /\ g.mode = f.mode
        /\ g.inputs = <<>> /\ g.arc = f.arc
    BY <1>3
  <2> HIDE DEF g, c
  <2>5. FireOK(g, c)
    BY <2>1, <2>3, <2>4 DEF FireOK, PwcSteps
  <2>6. Becomes(th, g, c)
    BY <2>2, <2>3, <2>4, <2>5 DEF Becomes
  <2> QED BY <2>4, <2>6
<1>5. CASE ~(f.arc <= Len(arcs))
  <2> DEFINE g == [f EXCEPT !.pc = "guard"]  c == call[th]
  <2>2. SetFire(th, g) /\ UNCHANGED call
    BY <1>5 DEF CheckFrom
  <2>3. /\ Set(th, c) /\ c \in CallType /\ CallOK(c)
        /\ c.pc \in {"idle", "done"} /\ c.pc \notin DrainSteps
    BY <2>2, KeepsCall
  <2>4. /\ g \in FireType /\ g.pc = "guard" /\ g.t = f.t /\ g.mode = f.mode
        /\ g.inputs = <<>>
    BY <1>3
  <2> HIDE DEF g, c
  <2>5. FireOK(g, c)
    BY <2>3, <2>4 DEF FireOK
  <2>6. Becomes(th, g, c)
    BY <2>2, <2>3, <2>4, <2>5 DEF Becomes
  <2> QED BY <2>4, <2>6
<1> QED BY <1>4, <1>5

LEMMA ConsumeFromBecomes ==
  ASSUME PlaceTypeOK, NEW th \in Thread, Free(th), NEW f \in FireType,
         f.t \in Transition, Inside(InputArcs[f.t], f), ConsumeFrom(th, f),
         \A p \in Place : From(f.inputs, p) = Partial(InputArcs[f.t], f.arc, f.n, p)
  PROVE  \E g, c : /\ Becomes(th, g, c)
                   /\ g.t = f.t /\ g.inputs = f.inputs
                   /\ \/ g.pc = "consume" /\ c.pc = "rem_recv"
                      \/ g.pc = "task"
<1> DEFINE arcs == InputArcs[f.t]
<1>1. IsArcs(arcs) /\ f.arc \in Nat
  BY TheArcs DEF FireType
<1>2. Len(arcs) \in Nat /\ DOMAIN arcs = 1 .. Len(arcs)
      /\ \A i \in DOMAIN arcs : arcs[i].place \in Place
  BY <1>1, ArcsShape
<1>3. ASSUME NEW pc \in {"consume", "task"}
      PROVE  LET g == [f EXCEPT !.pc = pc] IN
             /\ g \in FireType /\ g.pc = pc /\ g.t = f.t
             /\ g.inputs = f.inputs /\ g.arc = f.arc /\ g.n = f.n
  BY DEF FireType, Phases
<1>4. CASE f.arc <= Len(arcs)
  <2> DEFINE g == [f EXCEPT !.pc = "consume"]
             c == Request("rem_recv", arcs[f.arc].place, None, 0)
  <2>1. f.arc \in DOMAIN arcs /\ f.n < arcs[f.arc].weight
    BY <1>1, <1>2, <1>4 DEF Inside
  <2>2. SetFire(th, g) /\ Set(th, c)
    BY <1>4 DEF ConsumeFrom, CallRemoveToken
  <2>3. /\ c \in CallType /\ CallOK(c) /\ c.place = arcs[f.arc].place
        /\ c.pc = "rem_recv" /\ c.pc \notin DrainSteps
    <3> DEFINE p == arcs[f.arc].place
    <3>1. p \in Place /\ 0 \in Nat /\ None \in Token \cup {None}
      BY <1>2, <2>1
    <3> HIDE DEF p
    <3>2. LET d == Request("rem_recv", p, None, 0) IN
          /\ d \in CallType /\ CallOK(d) /\ d.place = p
          /\ d.pc = "rem_recv" /\ d.pc \notin DrainSteps
      BY <3>1, TheRequest
    <3> QED BY <3>2 DEF p
  <2>4. /\ g \in FireType /\ g.pc = "consume" /\ g.t = f.t
        /\ g.inputs = f.inputs /\ g.arc = f.arc /\ g.n = f.n
    BY <1>3
  <2> HIDE DEF g, c
  <2>5. Consuming(g, c)
    BY <2>1, <2>3, <2>4 DEF Consuming, Calling, Ok, RemoveSteps
  <2>6. FireOK(g, c)
    BY <2>4, <2>5 DEF FireOK
  <2>7. Becomes(th, g, c)
    BY <2>2, <2>3, <2>4, <2>6 DEF Becomes
  <2> QED BY <2>3, <2>4, <2>7
<1>5. CASE ~(f.arc <= Len(arcs))
  <2> DEFINE g == [f EXCEPT !.pc = "task"]  c == call[th]
  <2>1. f.arc = Len(arcs) + 1 /\ f.n = 0
    BY <1>1, <1>2, <1>5 DEF Inside
  <2>2. SetFire(th, g) /\ UNCHANGED call
    BY <1>5 DEF ConsumeFrom
  <2>3. /\ Set(th, c) /\ c \in CallType /\ CallOK(c)
        /\ c.pc \in {"idle", "done"} /\ c.pc \notin DrainSteps
    BY <2>2, KeepsCall
  <2>4. /\ g \in FireType /\ g.pc = "task" /\ g.t = f.t
        /\ g.inputs = f.inputs
    BY <1>3
  <2>5. \A p \in Place : From(f.inputs, p) = Weight(arcs, p)
    BY <1>1, <2>1, PartialLast
  <2> HIDE DEF g, c
  <2>6. FireOK(g, c)
    BY <2>3, <2>4, <2>5 DEF FireOK
  <2>7. Becomes(th, g, c)
    BY <2>2, <2>3, <2>4, <2>6 DEF Becomes
  <2> QED BY <2>4, <2>7
<1> QED BY <1>4, <1>5

(* The firing is over: the thread is idle, or BatchFire checks again.       *)
Over(f) == f.pc = "idle" \/ (f.pc \in {"check", "guard"} /\ f.mode = "BatchFire")

LEMMA NewFireType ==
  ASSUME NEW pc \in Phases, NEW mode \in {"Fire", "FireUnchecked", "BatchFire"},
         NEW t \in Transition \cup {None}, NEW left \in Nat
  PROVE  LET f == NewFire(pc, mode, t, left) IN
         /\ f \in FireType /\ f.pc = pc /\ f.mode = mode /\ f.t = t
         /\ f.arc = 1 /\ f.n = 0 /\ f.inputs = <<>>
BY DEF NewFire, FireType

LEMMA IdleBecomes ==
  ASSUME PlaceTypeOK, NEW th \in Thread, Free(th), SetFire(th, Idle), UNCHANGED call
  PROVE  \E g, c : Becomes(th, g, c) /\ g.pc = "idle"
<1> DEFINE g == Idle  c == call[th]
<1>1. g \in FireType /\ g.pc = "idle"
  BY DEF Idle, NewFire, FireType, Phases
<1>2. /\ Set(th, c) /\ c \in CallType /\ CallOK(c)
      /\ c.pc \in {"idle", "done"} /\ c.pc \notin DrainSteps
  BY KeepsCall
<1> HIDE DEF g, c
<1>3. FireOK(g, c)
  BY <1>1, <1>2 DEF FireOK
<1>4. Becomes(th, g, c)
  BY <1>1, <1>2, <1>3 DEF Becomes, g
<1> QED BY <1>1, <1>4

LEMMA FinishBecomes ==
  ASSUME PlaceTypeOK, NEW th \in Thread, Free(th), NEW f \in FireType,
         f.t \in Transition, NEW ok, Finish(th, f, ok)
  PROVE  /\ Unlock(th, f.t)
         /\ \E g, c : Becomes(th, g, c) /\ Over(g)
<1>1. Unlock(th, f.t)
  BY DEF Finish
<1>2. CASE ok /\ f.mode = "BatchFire" /\ f.left > 1
  <2> DEFINE h == NewFire("check", f.mode, f.t, f.left - 1)
  <2>1. CheckFrom(th, h)
    BY <1>2 DEF Finish
  <2>2. /\ "check" \in Phases /\ f.left - 1 \in Nat
        /\ f.mode \in {"Fire", "FireUnchecked", "BatchFire"}
        /\ f.t \in Transition \cup {None}
    BY <1>2 DEF Phases, FireType
  <2>3. /\ h \in FireType /\ h.mode = f.mode /\ h.t = f.t /\ h.arc = 1
        /\ h.inputs = <<>>
    BY <2>2, NewFireType
  <2> HIDE DEF h
  <2>4. \E g, c : /\ Becomes(th, g, c)
                  /\ g.pc \in {"check", "guard"} /\ g.mode = h.mode
    BY <2>1, <2>3, CheckFromBecomes
  <2> QED BY <1>1, <1>2, <2>3, <2>4 DEF Over
<1>3. CASE ~(ok /\ f.mode = "BatchFire" /\ f.left > 1)
  <2>1. SetFire(th, Idle) /\ UNCHANGED call
    BY <1>3 DEF Finish
  <2> QED BY <1>1, <2>1, IdleBecomes DEF Over
<1> QED BY <1>2, <1>3

LEMMA RollbackFromBecomes ==
  ASSUME PlaceTypeOK, NEW th \in Thread, Free(th), NEW f \in FireType,
         f.t \in Transition, RollbackFrom(th, f)
  PROVE  \E g, c :
           /\ Becomes(th, g, c)
           /\ \/ /\ g.pc = "rollback" /\ g.t = f.t /\ g.inputs = f.inputs
                 /\ c.pc = "add_check" /\ UNCHANGED fireMu
              \/ f.inputs = <<>> /\ Over(g) /\ Unlock(th, f.t)
<1>1. CASE f.inputs = <<>>
  <2>1. Finish(th, f, FALSE)
    BY <1>1 DEF RollbackFrom
  <2> QED BY <1>1, <2>1, FinishBecomes
<1>2. CASE f.inputs # <<>>
  <2> DEFINE g == [f EXCEPT !.pc = "rollback"]
             p == Last(f.inputs).place  t == Last(f.inputs).tok
             c == Request("add_check", p, t, 0)
  <2>1. SetFire(th, g) /\ Set(th, c) /\ UNCHANGED fireMu
    BY <1>2 DEF RollbackFrom, CallAddToken
  <2>2. g \in FireType /\ g.pc = "rollback" /\ g.t = f.t /\ g.inputs = f.inputs
    BY DEF FireType, Phases
  <2>3. f.inputs \in InputSeq
    BY DEF FireType, InputSeq
  <2>4. p \in Place /\ t \in Token
    <3>1. Last(f.inputs) \in [tok : Token, place : Place]
      BY <1>2, <2>3, FromFront
    <3> QED BY <3>1
  <2>5. /\ c \in CallType /\ CallOK(c) /\ c.place = p
        /\ c.pc = "add_check" /\ c.pc \notin DrainSteps
    <3>1. 0 \in Nat /\ t \in Token \cup {None}
      BY <2>4
    <3> HIDE DEF p, t
    <3> QED BY <2>4, <3>1, TheRequest
  <2> HIDE DEF g, c
  <2>6. FireOK(g, c)
    BY <1>2, <2>2, <2>5 DEF FireOK, Calling, AddSteps
  <2>7. Becomes(th, g, c)
    BY <2>1, <2>2, <2>5, <2>6 DEF Becomes
  <2> QED BY <2>1, <2>2, <2>5, <2>7
<1> QED BY <1>1, <1>2

LEMMA OutputTokenType ==
  ASSUME NEW f \in FireType, f.t \in Transition,
         f.arc \in DOMAIN OutputArcs[f.t]
  PROVE  OutputToken(f) \in Token
<1>1. EmptyToken \in Token
  BY ExecutorAssumption
<1>2. OutputArcs[f.t][f.arc].expr \in [Token -> Token]
  <2> DEFINE S == [place : Place, weight : Nat \ {0}, expr : [Token -> Token]]
             arcs == OutputArcs[f.t]
  <2>1. arcs \in Seq(S) /\ \A a \in S : a.expr \in [Token -> Token]
    BY ExecutorAssumption
  <2> HIDE DEF S, arcs
  <2>2. \A i \in DOMAIN arcs : arcs[i] \in S
    BY <2>1
  <2> QED BY <2>1, <2>2 DEF arcs
<1>3. CASE f.inputs # <<>>
  <2> DEFINE s == f.inputs
  <2>1. s \in Seq([tok : Token, place : Place]) /\ s # <<>>
    BY <1>3 DEF FireType
  <2> HIDE DEF s
  <2>2. s[1] \in [tok : Token, place : Place]
    <3>1. Len(s) \in Nat \ {0}
      BY <2>1, EmptySeq
    <3>2. 1 \in 1 .. Len(s)
      BY <3>1
    <3> DEFINE R == [tok : Token, place : Place]
    <3>3. s \in Seq(R)
      BY <2>1
    <3> HIDE DEF R
    <3>4. s[1] \in R
      BY <3>2, <3>3
    <3> QED BY <3>4 DEF R
  <2>3. s[1].tok \in Token
    BY <2>2
  <2> QED BY <1>2, <1>3, <2>3 DEF OutputToken, s
<1> QED BY <1>1, <1>3 DEF OutputToken

LEMMA ProduceFromBecomes ==
  ASSUME PlaceTypeOK, NEW th \in Thread, Free(th), NEW f \in FireType,
         f.t \in Transition, Inside(OutputArcs[f.t], f), ProduceFrom(th, f)
  PROVE  \E g, c :
           /\ Becomes(th, g, c)
           /\ \/ /\ g.pc = "produce" /\ g.t = f.t /\ g.arc = f.arc /\ g.n = f.n
                 /\ c.pc = "add_check" /\ UNCHANGED <<fireMu, committed>>
              \/ /\ f.arc = Len(OutputArcs[f.t]) + 1 /\ f.n = 0
                 /\ Over(g) /\ Unlock(th, f.t)
                 /\ committed' = [committed EXCEPT ![f.t] = @ + 1]
<1> DEFINE arcs == OutputArcs[f.t]
<1>1. IsArcs(arcs) /\ f.arc \in Nat
  BY TheArcs DEF FireType
<1>2. Len(arcs) \in Nat /\ DOMAIN arcs = 1 .. Len(arcs)
      /\ \A i \in DOMAIN arcs : arcs[i].place \in Place
  BY <1>1, ArcsShape
<1>3. CASE f.arc <= Len(arcs)
  <2> DEFINE g == [f EXCEPT !.pc = "produce"]
             p == arcs[f.arc].place  t == OutputToken(f)
             c == Request("add_check", p, t, 0)
  <2>1. f.arc \in DOMAIN arcs /\ f.n < arcs[f.arc].weight
    BY <1>1, <1>2, <1>3 DEF Inside
  <2>2. SetFire(th, g) /\ Set(th, c) /\ UNCHANGED <<fireMu, committed>>
    BY <1>3 DEF ProduceFrom, CallAddToken
  <2>3. p \in Place /\ t \in Token
    BY <1>2, <2>1, OutputTokenType
  <2>4. /\ c \in CallType /\ CallOK(c) /\ c.place = p
        /\ c.pc = "add_check" /\ c.pc \notin DrainSteps
    <3>1. 0 \in Nat /\ t \in Token \cup {None}
      BY <2>3
    <3> HIDE DEF p, t
    <3> QED BY <2>3, <3>1, TheRequest
  <2>5. /\ g \in FireType /\ g.pc = "produce" /\ g.t = f.t /\ g.arc = f.arc
        /\ g.n = f.n
    BY DEF FireType, Phases
  <2> HIDE DEF g, c
  <2>6. Producing(g, c)
    BY <2>1, <2>4, <2>5 DEF Producing, Calling, AddSteps
  <2>7. FireOK(g, c)
    BY <2>5, <2>6 DEF FireOK
  <2>8. Becomes(th, g, c)
    BY <2>2, <2>4, <2>5, <2>7 DEF Becomes
  <2> QED BY <2>2, <2>4, <2>5, <2>8
<1>4. CASE ~(f.arc <= Len(arcs))
  <2>1. f.arc = Len(arcs) + 1 /\ f.n = 0
    BY <1>1, <1>2, <1>4 DEF Inside
  <2>2. Finish(th, f, TRUE) /\ committed' = [committed EXCEPT ![f.t] = @ + 1]
    BY <1>4 DEF ProduceFrom
  <2> QED BY <2>1, <2>2, FinishBecomes
<1> QED BY <1>3, <1>4

(* A loop that starts has passed none of its arcs.                          *)
LEMMA PhaseStarts ==
  ASSUME NEW f \in FireType, NEW pc \in Phases
  PROVE  LET g == Phase(f, pc) IN
         /\ g \in FireType /\ g.pc = pc /\ g.t = f.t /\ g.mode = f.mode
         /\ g.inputs = f.inputs /\ g.arc = 1 /\ g.n = 0
         /\ \A arcs : IsArcs(arcs) => Inside(arcs, g)
<1> DEFINE g == Phase(f, pc)
<1>1. g = [f EXCEPT !.pc = pc, !.arc = 1, !.n = 0]
  BY DEF Phase
<1>2. /\ g.pc = pc /\ g.t = f.t /\ g.mode = f.mode
      /\ g.inputs = f.inputs /\ g.arc = 1 /\ g.n = 0
  BY <1>1 DEF FireType
<1>3. g \in FireType
  <2>1. ASSUME NEW j \in Nat, NEW k \in Nat
        PROVE  [f EXCEPT !.pc = pc, !.arc = j, !.n = k] \in FireType
    BY DEF FireType
  <2>2. [f EXCEPT !.pc = pc, !.arc = 1, !.n = 0] \in FireType
    BY <2>1
  <2> QED BY <1>1, <2>2
<1> HIDE DEF g
<1>4. ASSUME NEW arcs, IsArcs(arcs) PROVE Inside(arcs, g)
  <2>1. /\ Len(arcs) \in Nat /\ DOMAIN arcs = 1 .. Len(arcs)
        /\ \A i \in DOMAIN arcs : 0 < arcs[i].weight
    BY <1>4, ArcsShape
  <2>2. 1 \in DOMAIN arcs \/ 1 = Len(arcs) + 1
    BY <2>1
  <2> QED BY <1>2, <2>1, <2>2 DEF Inside
<1> QED BY <1>2, <1>3, <1>4 DEF g

-----------------------------------------------------------------------------
(* What a thread contributes to the token game, from its two records.       *)
Took(c) == c.pc = "rem_count" \/ Ok(c)
Sent(c) == c.pc = "add_count" \/ Ok(c)
Gave(c) == c.pc \in {"add_count", "done"}

HeldBy(f, c, p) ==
  CASE f.pc = "consume" ->
         From(f.inputs, p) + Bit(Took(c) /\ InputArcs[f.t][f.arc].place = p)
    [] f.pc = "rollback" ->
         From(f.inputs, p) - Bit(Gave(c) /\ Last(f.inputs).place = p)
    [] OTHER -> 0

MadeBy(f, c) ==
  [p \in Place |-> Partial(OutputArcs[f.t], f.arc, f.n + Bit(Sent(c)), p)]

Fired(t, made) == [trans |-> t, made |-> made]
Fresh(t) == Fired(t, [p \in Place |-> 0])

FiringOf(f, c) ==
  CASE f.pc = "task" -> Fresh(f.t)
    [] f.pc = "produce" /\ ~No(c) -> Fired(f.t, MadeBy(f, c))
    [] OTHER -> None

LEMMA HeldCases ==
  ASSUME NEW f, NEW c, NEW p
  PROVE  /\ f.pc \notin {"consume", "rollback"} => HeldBy(f, c, p) = 0
         /\ f.pc = "consume" =>
              HeldBy(f, c, p) =
                From(f.inputs, p)
                  + Bit(Took(c) /\ InputArcs[f.t][f.arc].place = p)
         /\ f.pc = "rollback" =>
              HeldBy(f, c, p) =
                From(f.inputs, p) - Bit(Gave(c) /\ Last(f.inputs).place = p)
BY DEF HeldBy

LEMMA FiringCases ==
  ASSUME NEW f, NEW c
  PROVE  /\ f.pc \notin {"task", "produce"} => FiringOf(f, c) = None
         /\ f.pc = "task" => FiringOf(f, c) = Fresh(f.t)
         /\ f.pc = "produce" /\ No(c) => FiringOf(f, c) = None
         /\ f.pc = "produce" /\ ~No(c) => FiringOf(f, c) = Fired(f.t, MadeBy(f, c))
BY DEF FiringOf

(* fireMu is held from the moment a firing has it to its end; BatchFire     *)
(* checks and evaluates the guard without it.                               *)
HoldsMu(f) ==
  \/ f.pc \in {"consume", "task", "rollback", "produce"}
  \/ f.pc \in {"check", "guard"} /\ f.mode # "BatchFire"

KeepsMu(th, g) ==
  UNCHANGED fireMu /\ (HoldsMu(g) => HoldsMu(fire[th]) /\ g.t = fire[th].t)

TakesMu(th, g) ==
  /\ fireMu[g.t] = None /\ g.t \in Transition /\ ~HoldsMu(fire[th])
  /\ fireMu' = [fireMu EXCEPT ![g.t] = th]

ReleasesMu(th, g) ==
  HoldsMu(fire[th]) /\ Unlock(th, fire[th].t) /\ ~HoldsMu(g)

(* The moves of the token game that a client step of th makes when it       *)
(* leaves the records g and c.                                              *)
Stays(th, g, c) ==
  /\ \A p \in Place : HeldBy(g, c, p) = HeldBy(fire[th], call[th], p)
  /\ FiringOf(g, c) = FiringOf(fire[th], call[th])
  /\ UNCHANGED committed

Starts(th, g, c) ==
  /\ g.t \in Transition /\ HoldsMu(g)
  /\ FiringOf(fire[th], call[th]) = None /\ FiringOf(g, c) = Fresh(g.t)
  /\ \A p \in Place : HeldBy(fire[th], call[th], p) = Pre[g.t][p]
                      /\ HeldBy(g, c, p) = 0
  /\ UNCHANGED committed

Commits(th, g, c) ==
  LET t == fire[th].t IN
  /\ t \in Transition
  /\ FiringOf(fire[th], call[th]) = Fired(t, Post[t]) /\ FiringOf(g, c) = None
  /\ \A p \in Place : HeldBy(g, c, p) = HeldBy(fire[th], call[th], p)
  /\ committed' = [committed EXCEPT ![t] = @ + 1]

Aborts(th, g, c) ==
  LET t == fire[th].t IN
  /\ t \in Transition
  /\ FiringOf(fire[th], call[th]) = Fresh(t) /\ FiringOf(g, c) = None
  /\ \A p \in Place : HeldBy(fire[th], call[th], p) = 0
                      /\ HeldBy(g, c, p) = Pre[t][p]
  /\ UNCHANGED committed

Moves(th, g, c) ==
  Stays(th, g, c) \/ Starts(th, g, c) \/ Commits(th, g, c) \/ Aborts(th, g, c)

(* A place has refused a token of the firing, and the firing is about to    *)
(* find out.                                                                *)
Dirty(f, c) == f.pc \in {"rollback", "produce"} /\ No(c)

Outcome(th) ==
  \E g, c : /\ Becomes(th, g, c)
            /\ KeepsMu(th, g) \/ TakesMu(th, g) \/ ReleasesMu(th, g)
            /\ Moves(th, g, c)
            /\ leaked \/ Dirty(fire[th], call[th]) => leaked'

(* What is known of a thread between steps.                                 *)
FiresOK == \A th \in Thread : FireOK(fire[th], call[th])

LEMMA Given ==
  ASSUME TypeOK, FiresOK, NEW th \in Thread
  PROVE  /\ fire[th] \in FireType /\ call[th] \in CallType
         /\ FireOK(fire[th], call[th]) /\ PlaceTypeOK
         /\ fire[th].inputs \in InputSeq
         /\ fire[th].pc # "idle" => fire[th].t \in Transition
         /\ call[th].pc = "done" => Free(th)
         /\ fire[th].pc \in {"idle", "lock", "guard", "task"} => Free(th)
<1>1. /\ fire[th] \in FireType /\ call[th] \in CallType
      /\ FireOK(fire[th], call[th]) /\ PlaceTypeOK
  BY DEF TypeOK, PlaceTypeOK, FiresOK
<1>2. fire[th].inputs \in InputSeq
  BY <1>1 DEF FireType, InputSeq
<1> QED BY <1>1, <1>2 DEF FireOK, Free

LEMMA PreIs ==
  ASSUME NEW t \in Transition, NEW p \in Place
  PROVE  Pre[t][p] = Weight(InputArcs[t], p) /\ Post[t][p] = Weight(OutputArcs[t], p)
BY DEF Pre, Post

(* Before a firing holds tokens nothing can have leaked.                    *)
LEMMA EarlyStays ==
  ASSUME NEW th, NEW g, NEW c,
         fire[th].pc \in {"idle", "lock", "check", "guard"},
         g.pc \in {"idle", "lock", "check", "guard"}, UNCHANGED committed
  PROVE  Moves(th, g, c)
<1>1. \A p \in Place : HeldBy(fire[th], call[th], p) = 0 /\ HeldBy(g, c, p) = 0
  BY HeldCases
<1>2. FiringOf(fire[th], call[th]) = None /\ FiringOf(g, c) = None
  BY FiringCases
<1> QED BY <1>1, <1>2 DEF Moves, Stays

LEMMA FireInternalMoves ==
  ASSUME TypeOK, FiresOK, NEW th \in Thread, Free(th), NEW f \in FireType,
         f.t \in Transition, f.inputs = <<>>, FireInternal(th, f),
         fire[th].pc \in {"idle", "lock", "check", "guard"}, UNCHANGED committed
  PROVE  \E g, c : /\ Becomes(th, g, c) /\ Moves(th, g, c)
                   /\ g.t = f.t /\ g.pc \in {"consume", "task"}
<1> DEFINE h == Phase(f, "consume")  arcs == InputArcs[f.t]
<1>1. IsArcs(arcs)
  BY TheArcs
<1>2. /\ h \in FireType /\ h.t = f.t /\ h.inputs = <<>> /\ h.arc = 1 /\ h.n = 0
      /\ Inside(arcs, h)
  BY <1>1, PhaseStarts DEF Phases
<1>3. \A p \in Place : From(h.inputs, p) = Partial(arcs, h.arc, h.n, p)
  BY <1>1, <1>2, FromNone, PartialFirst
<1>4. ConsumeFrom(th, h)
  BY DEF FireInternal
<1> HIDE DEF h
<1>5. PICK g, c : /\ Becomes(th, g, c)
                  /\ g.t = f.t /\ g.inputs = <<>>
                  /\ \/ g.pc = "consume" /\ c.pc = "rem_recv"
                     \/ g.pc = "task"
  <2>1. PlaceTypeOK
    BY DEF TypeOK
  <2> QED BY <1>2, <1>3, <1>4, <2>1, ConsumeFromBecomes
<1>6. /\ \A p \in Place : HeldBy(fire[th], call[th], p) = 0
      /\ FiringOf(fire[th], call[th]) = None
  BY HeldCases, FiringCases
<1>7. CASE g.pc = "consume" /\ c.pc = "rem_recv"
  <2>1. ~Took(c)
    BY <1>7 DEF Took, Ok
  <2>2. \A p \in Place : HeldBy(g, c, p) = 0
    BY <1>5, <1>7, <2>1, HeldCases, FromNone DEF Bit
  <2>3. FiringOf(g, c) = None
    BY <1>7, FiringCases
  <2> QED BY <1>5, <1>6, <1>7, <2>2, <2>3 DEF Moves, Stays
<1>8. CASE g.pc = "task"
  <2>1. \A p \in Place : Weight(arcs, p) = 0
    BY <1>5, <1>8, FromNone DEF Becomes, FireOK
  <2>2. \A p \in Place : HeldBy(g, c, p) = 0 /\ Pre[g.t][p] = 0
    BY <1>5, <1>8, <2>1, HeldCases, PreIs
  <2>3. FiringOf(g, c) = Fresh(g.t) /\ HoldsMu(g)
    BY <1>8, FiringCases DEF HoldsMu
  <2>4. Starts(th, g, c)
    BY <1>5, <1>6, <2>2, <2>3 DEF Starts
  <2> QED BY <1>5, <1>8, <2>4 DEF Moves
<1> QED BY <1>5, <1>7, <1>8

-----------------------------------------------------------------------------
(* One lemma for each client action.                                        *)
LEMMA CallOutcome ==
  ASSUME TypeOK, FiresOK, NEW th \in Thread, Call(th)
  PROVE  Outcome(th)
<1>1. fire[th].pc = "idle" /\ Free(th) /\ PlaceTypeOK
  BY Given DEF Call
<1>2. UNCHANGED <<fireMu, committed, leaked>>
  BY DEF Call
<1>3. ~Dirty(fire[th], call[th])
  BY <1>1 DEF Dirty
<1>4. ASSUME NEW g, NEW c, Becomes(th, g, c),
             g.pc \in {"lock", "check", "guard"},
             g.pc # "lock" => g.mode = "BatchFire"
      PROVE  Outcome(th)
  <2>1. Moves(th, g, c)
    BY <1>1, <1>2, <1>4, EarlyStays
  <2>2. KeepsMu(th, g)
    BY <1>2, <1>4 DEF KeepsMu, HoldsMu
  <2> QED BY <1>2, <1>3, <1>4, <2>1, <2>2 DEF Outcome
<1>5. PICK t \in Transition :
        \/ \E mode \in {"Fire", "FireUnchecked"} :
             SetFire(th, NewFire("lock", mode, t, 1)) /\ UNCHANGED call
        \/ CheckFrom(th, NewFire("check", "BatchFire", t, BatchSize))
  BY DEF Call
<1>6. ASSUME NEW mode \in {"Fire", "FireUnchecked"},
             SetFire(th, NewFire("lock", mode, t, 1)), UNCHANGED call
      PROVE  Outcome(th)
  <2> DEFINE g == NewFire("lock", mode, t, 1)  c == call[th]
  <2>1. /\ g \in FireType /\ g.pc = "lock" /\ g.t = t /\ g.arc = 1
        /\ g.inputs = <<>>
    BY NewFireType DEF Phases
  <2>2. /\ Set(th, c) /\ c \in CallType /\ CallOK(c)
        /\ c.pc \in {"idle", "done"} /\ c.pc \notin DrainSteps
    BY <1>1, <1>6, KeepsCall
  <2>3. SetFire(th, g)
    BY <1>6
  <2> HIDE DEF g, c
  <2>4. FireOK(g, c)
    BY <2>1, <2>2 DEF FireOK
  <2>5. Becomes(th, g, c)
    BY <2>1, <2>2, <2>3, <2>4 DEF Becomes
  <2> QED BY <1>4, <2>1, <2>5
<1>7. CASE CheckFrom(th, NewFire("check", "BatchFire", t, BatchSize))
  <2> DEFINE h == NewFire("check", "BatchFire", t, BatchSize)
  <2>1. /\ h \in FireType /\ h.mode = "BatchFire" /\ h.t = t /\ h.arc = 1
        /\ h.inputs = <<>>
    <3>1. BatchSize \in Nat /\ "check" \in Phases
      BY ExecutorAssumption DEF Phases
    <3> QED BY <3>1, NewFireType
  <2>2. CheckFrom(th, h)
    BY <1>7
  <2> HIDE DEF h
  <2>3. PICK g, c : /\ Becomes(th, g, c)
                    /\ g.pc \in {"check", "guard"} /\ g.mode = h.mode
    BY <1>1, <2>1, <2>2, CheckFromBecomes
  <2> QED BY <1>4, <2>1, <2>3
<1> QED BY <1>5, <1>6, <1>7

LEMMA LockOutcome ==
  ASSUME TypeOK, FiresOK, NEW th \in Thread, Lock(th)
  PROVE  Outcome(th)
<1> DEFINE f == fire[th]
<1>1. /\ f.pc = "lock" /\ Free(th) /\ PlaceTypeOK /\ f \in FireType
      /\ f.t \in Transition /\ f.inputs = <<>> /\ f.arc = 1
  BY Given DEF Lock, FireOK
<1>2. /\ UNCHANGED <<committed, leaked>>
      /\ fireMu[f.t] = None /\ fireMu' = [fireMu EXCEPT ![f.t] = th]
  BY DEF Lock
<1>3. ~Dirty(f, call[th]) /\ ~HoldsMu(f)
  BY <1>1 DEF Dirty, HoldsMu
<1>4. ASSUME NEW g, NEW c, Becomes(th, g, c), Moves(th, g, c), g.t = f.t
      PROVE  Outcome(th)
  <2>1. TakesMu(th, g)
    BY <1>1, <1>2, <1>3, <1>4 DEF TakesMu
  <2> QED BY <1>2, <1>3, <1>4, <2>1 DEF Outcome
<1>5. CASE CheckFrom(th, f)
  <2>1. PICK g, c : /\ Becomes(th, g, c)
                    /\ g.pc \in {"check", "guard"} /\ g.t = f.t
    BY <1>1, <1>5, CheckFromBecomes
  <2>2. Moves(th, g, c)
    BY <1>1, <1>2, <2>1, EarlyStays
  <2> QED BY <1>4, <2>1, <2>2
<1>6. CASE FireInternal(th, f)
  <2>1. \E g, c : Becomes(th, g, c) /\ Moves(th, g, c) /\ g.t = f.t
    BY <1>1, <1>2, <1>6, FireInternalMoves
  <2> QED BY <1>4, <2>1
<1> QED BY <1>5, <1>6 DEF Lock

(* How checking ends: the transition is not enabled, or it is.              *)
LEMMA NotEnabledOutcome ==
  ASSUME TypeOK, FiresOK, NEW th \in Thread, Free(th), NEW f \in FireType,
         NotEnabled(th, f), fire[th].pc \in {"check", "guard"},
         f.t = fire[th].t, f.mode = fire[th].mode, UNCHANGED <<committed, leaked>>
  PROVE  Outcome(th)
<1>1. PICK g, c : Becomes(th, g, c) /\ g.pc = "idle"
  BY Given, IdleBecomes DEF NotEnabled
<1>2. Moves(th, g, c)
  BY <1>1, EarlyStays
<1>3. ~HoldsMu(g)
  BY <1>1 DEF HoldsMu
<1>4. KeepsMu(th, g) \/ ReleasesMu(th, g)
  <2>1. CASE f.mode = "BatchFire"
    BY <1>3, <2>1 DEF NotEnabled, KeepsMu
  <2>2. CASE f.mode # "BatchFire"
    <3>1. HoldsMu(fire[th])
      BY <2>2 DEF HoldsMu
    <3> QED BY <1>3, <2>2, <3>1 DEF NotEnabled, ReleasesMu
  <2> QED BY <2>1, <2>2
<1> QED BY <1>1, <1>2, <1>4 DEF Outcome, Dirty

LEMMA EnabledOutcome ==
  ASSUME TypeOK, FiresOK, NEW th \in Thread, Free(th), NEW f \in FireType,
         Enabled(th, f), fire[th].pc \in {"check", "guard"}, f.inputs = <<>>,
         f.t = fire[th].t, f.mode = fire[th].mode, f.t \in Transition,
         UNCHANGED <<committed, leaked>>
  PROVE  Outcome(th)
<1>1. CASE f.mode = "BatchFire"
  <2> DEFINE g == Phase(f, "lock")  c == call[th]
  <2>1. /\ g \in FireType /\ g.pc = "lock" /\ g.t = f.t /\ g.inputs = <<>>
        /\ g.arc = 1
    BY PhaseStarts DEF Phases
  <2>2. SetFire(th, g) /\ UNCHANGED <<call, fireMu>>
    BY <1>1 DEF Enabled
  <2>3. /\ Set(th, c) /\ c \in CallType /\ CallOK(c)
        /\ c.pc \in {"idle", "done"} /\ c.pc \notin DrainSteps
    BY <2>2, Given, KeepsCall
  <2> HIDE DEF g, c
  <2>4. FireOK(g, c)
    BY <2>1, <2>3 DEF FireOK
  <2>5. Becomes(th, g, c)
    BY <2>1, <2>2, <2>3, <2>4 DEF Becomes
  <2>6. Moves(th, g, c)
    BY <2>1, EarlyStays
  <2>7. KeepsMu(th, g)
    BY <2>1, <2>2 DEF KeepsMu, HoldsMu
  <2> QED BY <2>5, <2>6, <2>7 DEF Outcome, Dirty
<1>2. CASE f.mode # "BatchFire"
  <2>1. FireInternal(th, f) /\ UNCHANGED fireMu
    BY <1>2 DEF Enabled
  <2>2. PICK g, c : Becomes(th, g, c) /\ Moves(th, g, c) /\ g.t = f.t
    BY <2>1, FireInternalMoves
  <2>3. HoldsMu(fire[th])
    BY <1>2 DEF HoldsMu
  <2>4. KeepsMu(th, g)
    BY <2>1, <2>2, <2>3 DEF KeepsMu
  <2> QED BY <2>2, <2>4 DEF Outcome, Dirty
<1> QED BY <1>1, <1>2

LEMMA CheckedOutcome ==
  ASSUME TypeOK, FiresOK, NEW th \in Thread, Checked(th)
  PROVE  Outcome(th)
<1> DEFINE f == fire[th]
           g == [f EXCEPT !.arc = @ + 1, !.snapshot = @ \o call[th].seen]
<1>1. /\ f.pc = "check" /\ Free(th) /\ PlaceTypeOK /\ f \in FireType
      /\ f.t \in Transition /\ f.inputs = <<>> /\ f.arc \in Nat /\ f.arc >= 1
  <2>1. f.pc = "check" /\ call[th].pc = "done"
    BY DEF Checked, Returned
  <2>2. f.arc \in DOMAIN InputArcs[f.t] /\ f.inputs = <<>> /\ f.t \in Transition
    BY <2>1, Given DEF FireOK
  <2>3. f.arc \in Nat /\ f.arc >= 1
    BY <2>2, TheArcs, ArcsShape
  <2> QED BY <2>1, <2>2, <2>3, Given
<1>2. UNCHANGED <<committed, leaked>>
  BY DEF Checked
<1>3. /\ g.t = f.t /\ g.mode = f.mode /\ g.pc = "check" /\ g.inputs = <<>>
      /\ g.arc = f.arc + 1
  BY <1>1 DEF FireType
<1>4. g \in FireType
  <2>1. f.snapshot \in Seq(Token) /\ call[th].seen \in Seq(Token)
    BY <1>1, Given DEF FireType, CallType
  <2>2. f.snapshot \o call[th].seen \in Seq(Token) /\ f.arc + 1 \in Nat
    BY <1>1, <2>1
  <2>3. ASSUME NEW j \in Nat, NEW s \in Seq(Token)
        PROVE  [f EXCEPT !.arc = j, !.snapshot = s] \in FireType
    BY <1>1 DEF FireType
  <2>4. [f EXCEPT !.arc = f.arc + 1, !.snapshot = f.snapshot \o call[th].seen]
          \in FireType
    BY <2>2, <2>3
  <2> QED BY <2>4
<1>5. CASE NotEnabled(th, f)
  BY <1>1, <1>2, <1>5, NotEnabledOutcome
<1>6. CASE CheckFrom(th, g) /\ UNCHANGED fireMu
  <2> HIDE DEF g
  <2>1. g.arc >= 1
    BY <1>1, <1>3
  <2>2. PICK h, c : /\ Becomes(th, h, c)
                    /\ h.pc \in {"check", "guard"} /\ h.t = g.t /\ h.mode = g.mode
    BY <1>1, <1>3, <1>4, <1>6, <2>1, CheckFromBecomes
  <2>3. Moves(th, h, c)
    BY <1>1, <1>2, <2>2, EarlyStays
  <2>4. KeepsMu(th, h)
    BY <1>1, <1>3, <1>6, <2>2 DEF KeepsMu, HoldsMu
  <2> QED BY <1>1, <1>2, <2>2, <2>3, <2>4 DEF Outcome, Dirty
<1>7. CASE Enabled(th, g)
  <2> HIDE DEF g
  <2> QED BY <1>1, <1>2, <1>3, <1>4, <1>7, EnabledOutcome
<1> QED BY <1>5, <1>6, <1>7 DEF Checked

LEMMA GuardOutcome ==
  ASSUME TypeOK, FiresOK, NEW th \in Thread, Guard(th)
  PROVE  Outcome(th)
<1> DEFINE f == fire[th]
<1>1. /\ f.pc = "guard" /\ Free(th) /\ f \in FireType
      /\ f.t \in Transition /\ f.inputs = <<>>
  BY Given DEF Guard, FireOK
<1>2. UNCHANGED <<committed, leaked>>
  BY DEF Guard
<1>3. Enabled(th, f) \/ NotEnabled(th, f)
  BY DEF Guard
<1> QED BY <1>1, <1>2, <1>3, EnabledOutcome, NotEnabledOutcome

LEMMA OverIs ==
  ASSUME NEW g, NEW c, Over(g)
  PROVE  /\ ~HoldsMu(g) /\ FiringOf(g, c) = None
         /\ \A p \in Place : HeldBy(g, c, p) = 0
<1>1. g.pc \in {"idle", "check", "guard"}
  BY DEF Over
<1> QED BY <1>1, HeldCases, FiringCases DEF Over, HoldsMu

(* Giving back the tokens in f.inputs begins, or goes on.                   *)
LEMMA RollbackFromMoves ==
  ASSUME TypeOK, FiresOK, NEW th \in Thread, Free(th), NEW f \in FireType,
         f.t \in Transition, RollbackFrom(th, f),
         HoldsMu(fire[th]), fire[th].t = f.t
  PROVE  \E g, c : /\ Becomes(th, g, c)
                   /\ KeepsMu(th, g) \/ ReleasesMu(th, g)
                   /\ \A p \in Place : HeldBy(g, c, p) = From(f.inputs, p)
                   /\ FiringOf(g, c) = None
<1>1. PlaceTypeOK
  BY DEF TypeOK
<1>2. PICK g, c :
        /\ Becomes(th, g, c)
        /\ \/ /\ g.pc = "rollback" /\ g.t = f.t /\ g.inputs = f.inputs
              /\ c.pc = "add_check" /\ UNCHANGED fireMu
           \/ f.inputs = <<>> /\ Over(g) /\ Unlock(th, f.t)
  BY <1>1, RollbackFromBecomes
<1>3. CASE /\ g.pc = "rollback" /\ g.t = f.t /\ g.inputs = f.inputs
           /\ c.pc = "add_check" /\ UNCHANGED fireMu
  <2>1. ~Gave(c)
    BY <1>3 DEF Gave
  <2>2. ASSUME NEW p \in Place PROVE HeldBy(g, c, p) = From(f.inputs, p)
    <3>1. From(f.inputs, p) \in Nat
      BY FromType DEF FireType, InputSeq
    <3>2. HeldBy(g, c, p) = From(f.inputs, p) - 0
      BY <1>3, <2>1, HeldCases DEF Bit
    <3> QED BY <3>1, <3>2
  <2>3. FiringOf(g, c) = None
    BY <1>3, FiringCases
  <2>4. KeepsMu(th, g)
    BY <1>3 DEF KeepsMu
  <2> QED BY <1>2, <2>2, <2>3, <2>4
<1>4. CASE f.inputs = <<>> /\ Over(g) /\ Unlock(th, f.t)
  <2>1. \A p \in Place : HeldBy(g, c, p) = From(f.inputs, p)
    BY <1>4, OverIs, FromNone
  <2>2. FiringOf(g, c) = None /\ ReleasesMu(th, g)
    BY <1>4, OverIs DEF ReleasesMu
  <2> QED BY <1>2, <2>1, <2>2
<1> QED BY <1>2, <1>3, <1>4

LEMMA ConsumedOutcome ==
  ASSUME TypeOK, FiresOK, NEW th \in Thread, Consumed(th)
  PROVE  Outcome(th)
<1> DEFINE f == fire[th]  arcs == InputArcs[f.t]
<1>1. /\ f.pc = "consume" /\ Free(th) /\ PlaceTypeOK /\ f \in FireType
      /\ f.t \in Transition /\ f.inputs \in InputSeq /\ IsArcs(arcs)
      /\ Consuming(f, call[th]) /\ call[th].pc = "done"
  BY Given, TheArcs DEF Consumed, Returned, FireOK
<1>2. UNCHANGED <<committed, leaked>>
  BY DEF Consumed
<1>3. HoldsMu(f) /\ ~Dirty(f, call[th]) /\ FiringOf(f, call[th]) = None
  BY <1>1, FiringCases DEF HoldsMu, Dirty
<1>4. /\ f.arc \in DOMAIN arcs /\ f.n < arcs[f.arc].weight
      /\ arcs[f.arc].place \in Place
      /\ \A p \in Place : From(f.inputs, p) = Partial(arcs, f.arc, f.n, p)
  BY <1>1, ArcsShape DEF Consuming
<1>5. ASSUME Ok(call[th]),
             ConsumeFrom(th, Advance([f EXCEPT !.inputs =
               Append(@, [tok |-> call[th].tok, place |-> arcs[f.arc].place])], arcs)),
             UNCHANGED fireMu
      PROVE  Outcome(th)
  <2> DEFINE x == [tok |-> call[th].tok, place |-> arcs[f.arc].place]
             e == [f EXCEPT !.inputs = Append(@, x)]
             h == Advance(e, arcs)
  <2>1. x \in [tok : Token, place : Place] /\ x.place = arcs[f.arc].place
    BY <1>1, <1>4, <1>5 DEF Consuming
  <2> HIDE DEF x
  <2>2. Append(f.inputs, x) \in Seq([tok : Token, place : Place])
    BY <1>1, <2>1 DEF InputSeq
  <2>3. /\ e \in FireType /\ e.t = f.t /\ e.arc = f.arc /\ e.n = f.n
        /\ e.inputs = Append(f.inputs, x)
    <3>1. ASSUME NEW s \in Seq([tok : Token, place : Place])
          PROVE  [f EXCEPT !.inputs = s] \in FireType
      BY <1>1 DEF FireType
    <3>2. [f EXCEPT !.inputs = Append(f.inputs, x)] \in FireType
      BY <2>2, <3>1
    <3> QED BY <1>1, <3>2 DEF FireType
  <2> HIDE DEF e
  <2>4. /\ h \in FireType /\ h.t = f.t /\ h.inputs = Append(f.inputs, x)
        /\ Inside(arcs, h)
        /\ \A p : Partial(arcs, h.arc, h.n, p)
                    = Partial(arcs, f.arc, f.n, p) + Bit(arcs[f.arc].place = p)
    <3> HIDE DEF arcs
    <3>1. /\ e.arc \in DOMAIN arcs /\ e.n < arcs[e.arc].weight /\ IsArcs(arcs)
          /\ e \in FireType
      BY <1>1, <1>4, <2>3
    <3>2. /\ h \in FireType /\ h.t = e.t /\ h.inputs = e.inputs
          /\ Inside(arcs, h)
          /\ \A p : Partial(arcs, h.arc, h.n, p)
                      = Partial(arcs, e.arc, e.n, p) + Bit(arcs[e.arc].place = p)
      BY ONLY <3>1, AdvancePartial
    <3> QED BY <2>3, <3>2
  <2>5. ConsumeFrom(th, h)
    BY <1>5 DEF e, x
  <2> HIDE DEF h
  <2>6. \A p \in Place :
          /\ From(h.inputs, p) = From(f.inputs, p) + Bit(arcs[f.arc].place = p)
          /\ From(h.inputs, p) = Partial(arcs, h.arc, h.n, p)
    <3> SUFFICES ASSUME NEW p \in Place
                 PROVE  /\ From(h.inputs, p) = From(f.inputs, p) + Bit(arcs[f.arc].place = p)
                        /\ From(h.inputs, p) = Partial(arcs, h.arc, h.n, p)
      OBVIOUS
    <3>1. f.inputs \in InputSeq /\ From(f.inputs, p) = Partial(arcs, f.arc, f.n, p)
      BY <1>1, <1>4
    <3>2. From(h.inputs, p) = From(f.inputs, p) + Bit(arcs[f.arc].place = p)
      BY <2>1, <2>4, <3>1, FromAppend
    <3>3. Partial(arcs, h.arc, h.n, p)
            = Partial(arcs, f.arc, f.n, p) + Bit(arcs[f.arc].place = p)
      BY <2>4
    <3> QED BY ONLY <3>1, <3>2, <3>3
  <2>7. PICK g, c : /\ Becomes(th, g, c)
                    /\ g.t = f.t /\ g.inputs = h.inputs
                    /\ \/ g.pc = "consume" /\ c.pc = "rem_recv"
                       \/ g.pc = "task"
    <3>1. /\ h.t \in Transition /\ Inside(InputArcs[h.t], h)
          /\ \A p \in Place :
               From(h.inputs, p) = Partial(InputArcs[h.t], h.arc, h.n, p)
      BY <1>1, <2>4, <2>6
    <3>2. \E g, c : /\ Becomes(th, g, c)
                    /\ g.t = h.t /\ g.inputs = h.inputs
                    /\ \/ g.pc = "consume" /\ c.pc = "rem_recv"
                       \/ g.pc = "task"
      BY <1>1, <2>4, <2>5, <3>1, ConsumeFromBecomes
    <3> QED BY <2>4, <3>2
  <2>8. \A p \in Place : HeldBy(f, call[th], p) = From(h.inputs, p)
    BY <1>1, <1>5, <2>6, HeldCases DEF Took
  <2>9. KeepsMu(th, g)
    BY <1>3, <1>5, <2>7 DEF KeepsMu
  <2>10. CASE g.pc = "consume" /\ c.pc = "rem_recv"
    <3>1. ~Took(c)
      BY <2>10 DEF Took, Ok
    <3>2. \A p \in Place : From(h.inputs, p) \in Nat
      BY <2>4, FromType DEF FireType, InputSeq
    <3>3. \A p \in Place : HeldBy(g, c, p) = From(h.inputs, p)
      BY <2>7, <2>10, <3>1, <3>2, HeldCases DEF Bit
    <3>4. FiringOf(g, c) = None
      BY <2>10, FiringCases
    <3>5. Stays(th, g, c)
      BY <1>2, <1>3, <2>8, <3>3, <3>4 DEF Stays
    <3> QED BY <1>2, <1>3, <2>7, <2>9, <3>5 DEF Outcome, Moves
  <2>11. CASE g.pc = "task"
    <3>1. \A p \in Place : From(h.inputs, p) = Pre[g.t][p]
      BY <1>1, <2>7, <2>11, PreIs DEF Becomes, FireOK
    <3>2. \A p \in Place : HeldBy(g, c, p) = 0
      BY <2>11, HeldCases
    <3>3. FiringOf(g, c) = Fresh(g.t) /\ HoldsMu(g)
      BY <2>11, FiringCases DEF HoldsMu
    <3>4. Starts(th, g, c)
      BY <1>1, <1>2, <1>3, <2>7, <2>8, <3>1, <3>2, <3>3 DEF Starts
    <3> QED BY <1>2, <1>3, <2>7, <2>9, <3>4 DEF Outcome, Moves
  <2> QED BY <2>7, <2>10, <2>11
<1>6. ASSUME ~Ok(call[th]), RollbackFrom(th, f)
      PROVE  Outcome(th)
  <2>1. PICK g, c : /\ Becomes(th, g, c)
                    /\ KeepsMu(th, g) \/ ReleasesMu(th, g)
                    /\ \A p \in Place : HeldBy(g, c, p) = From(f.inputs, p)
                    /\ FiringOf(g, c) = None
    BY <1>1, <1>3, <1>6, RollbackFromMoves
  <2>2. ~Took(call[th])
    BY <1>1, <1>6 DEF Took
  <2>3. ASSUME NEW p \in Place PROVE HeldBy(f, call[th], p) = From(f.inputs, p)
    <3>1. From(f.inputs, p) \in Nat
      BY <1>1, FromType
    <3>2. HeldBy(f, call[th], p) = From(f.inputs, p) + 0
      BY <1>1, <2>2, HeldCases DEF Bit
    <3> QED BY <3>1, <3>2
  <2>4. Stays(th, g, c)
    BY <1>2, <1>3, <2>1, <2>3 DEF Stays
  <2> QED BY <1>2, <1>3, <2>1, <2>4 DEF Outcome, Moves
<1>7. Ok(call[th]) <=> call[th].ok
  BY <1>1 DEF Ok
<1> QED BY <1>5, <1>6, <1>7 DEF Consumed

(* Production goes on at h, or is over.  What had been made before is what  *)
(* the loop has passed.                                                     *)
LEMMA ProduceFromMoves ==
  ASSUME TypeOK, FiresOK, NEW th \in Thread, Free(th), NEW h \in FireType,
         h.t \in Transition, h.t = fire[th].t, Inside(OutputArcs[h.t], h),
         ProduceFrom(th, h), fire[th].pc \in {"task", "produce"},
         FiringOf(fire[th], call[th])
           = Fired(h.t, [p \in Place |-> Partial(OutputArcs[h.t], h.arc, h.n, p)])
  PROVE  \E g, c : /\ Becomes(th, g, c)
                   /\ KeepsMu(th, g) \/ ReleasesMu(th, g)
                   /\ Moves(th, g, c)
<1> DEFINE arcs == OutputArcs[h.t]
           made == [p \in Place |-> Partial(arcs, h.arc, h.n, p)]
<1>1. PlaceTypeOK /\ IsArcs(arcs) /\ h.n \in Nat
  BY TheArcs DEF TypeOK, FireType
<1>2. /\ HoldsMu(fire[th])
      /\ \A p \in Place : HeldBy(fire[th], call[th], p) = 0
  BY HeldCases DEF HoldsMu
<1>3. PICK g, c :
        /\ Becomes(th, g, c)
        /\ \/ /\ g.pc = "produce" /\ g.t = h.t /\ g.arc = h.arc /\ g.n = h.n
              /\ c.pc = "add_check" /\ UNCHANGED <<fireMu, committed>>
           \/ /\ h.arc = Len(arcs) + 1 /\ h.n = 0
              /\ Over(g) /\ Unlock(th, h.t)
              /\ committed' = [committed EXCEPT ![h.t] = @ + 1]
  BY <1>1, ProduceFromBecomes
<1>4. CASE /\ g.pc = "produce" /\ g.t = h.t /\ g.arc = h.arc /\ g.n = h.n
           /\ c.pc = "add_check" /\ UNCHANGED <<fireMu, committed>>
  <2>1. ~Sent(c) /\ ~No(c)
    BY <1>4 DEF Sent, No, Ok
  <2>2. MadeBy(g, c) = made
    <3>1. h.n + Bit(Sent(c)) = h.n
      BY <1>1, <2>1 DEF Bit
    <3> QED BY <1>4, <3>1 DEF MadeBy
  <2>3. FiringOf(g, c) = Fired(h.t, made)
    BY <1>4, <2>1, <2>2, FiringCases
  <2>4. \A p \in Place : HeldBy(g, c, p) = 0
    BY <1>4, HeldCases
  <2>5. Stays(th, g, c)
    BY <1>2, <1>4, <2>3, <2>4 DEF Stays
  <2>6. KeepsMu(th, g)
    BY <1>2, <1>4 DEF KeepsMu
  <2> QED BY <1>3, <2>5, <2>6 DEF Moves
<1>5. CASE /\ h.arc = Len(arcs) + 1 /\ h.n = 0
           /\ Over(g) /\ Unlock(th, h.t)
           /\ committed' = [committed EXCEPT ![h.t] = @ + 1]
  <2>1. made = Post[h.t]
    <3>1. h.arc \in Nat
      BY DEF FireType
    <3>2. \A p \in Place : Partial(arcs, h.arc, h.n, p) = Weight(arcs, p)
      BY <1>1, <1>5, <3>1, PartialLast
    <3> QED BY <3>2 DEF Post
  <2>2. /\ ~HoldsMu(g) /\ FiringOf(g, c) = None
        /\ \A p \in Place : HeldBy(g, c, p) = 0
    BY <1>5, OverIs
  <2>3. Commits(th, g, c)
    BY <1>2, <1>5, <2>1, <2>2 DEF Commits
  <2>4. ReleasesMu(th, g)
    BY <1>2, <1>5, <2>2 DEF ReleasesMu
  <2> QED BY <1>3, <2>3, <2>4 DEF Moves
<1> QED BY <1>3, <1>4, <1>5

LEMMA TaskOutcome ==
  ASSUME TypeOK, FiresOK, NEW th \in Thread, Task(th)
  PROVE  Outcome(th)
<1> DEFINE f == fire[th]
<1>1. /\ f.pc = "task" /\ Free(th) /\ f \in FireType /\ f.t \in Transition
      /\ \A p \in Place : From(f.inputs, p) = Weight(InputArcs[f.t], p)
  BY Given DEF Task, FireOK
<1>2. /\ UNCHANGED leaked /\ ~Dirty(f, call[th]) /\ HoldsMu(f)
      /\ FiringOf(f, call[th]) = Fresh(f.t)
  BY <1>1, FiringCases DEF Task, Dirty, HoldsMu
<1>3. CASE ProduceFrom(th, Phase(f, "produce"))
  <2> DEFINE h == Phase(f, "produce")  arcs == OutputArcs[f.t]
  <2>1. IsArcs(arcs)
    BY <1>1, TheArcs
  <2>2. /\ h \in FireType /\ h.t = f.t /\ h.arc = 1 /\ h.n = 0
        /\ Inside(arcs, h)
    BY <1>1, <2>1, PhaseStarts DEF Phases
  <2>3. ProduceFrom(th, h)
    BY <1>3
  <2> HIDE DEF h
  <2>4. [p \in Place |-> Partial(arcs, h.arc, h.n, p)] = [p \in Place |-> 0]
    BY <2>1, <2>2, PartialFirst
  <2>5. FiringOf(f, call[th])
          = Fired(h.t, [p \in Place |-> Partial(OutputArcs[h.t], h.arc, h.n, p)])
    BY <1>2, <2>2, <2>4 DEF Fresh
  <2>6. \E g, c : /\ Becomes(th, g, c)
                  /\ KeepsMu(th, g) \/ ReleasesMu(th, g)
                  /\ Moves(th, g, c)
    BY <1>1, <2>2, <2>3, <2>5, ProduceFromMoves
  <2> QED BY <1>2, <2>6 DEF Outcome
<1>4. CASE RollbackFrom(th, f) /\ UNCHANGED committed
  <2>1. PICK g, c : /\ Becomes(th, g, c)
                    /\ KeepsMu(th, g) \/ ReleasesMu(th, g)
                    /\ \A p \in Place : HeldBy(g, c, p) = From(f.inputs, p)
                    /\ FiringOf(g, c) = None
    BY <1>1, <1>2, <1>4, RollbackFromMoves
  <2>2. \A p \in Place : HeldBy(f, call[th], p) = 0
    BY <1>1, HeldCases
  <2>3. \A p \in Place : HeldBy(g, c, p) = Pre[f.t][p]
    BY <1>1, <2>1, PreIs
  <2>4. Aborts(th, g, c)
    BY <1>1, <1>2, <1>4, <2>1, <2>2, <2>3 DEF Aborts
  <2> QED BY <1>2, <2>1, <2>4 DEF Outcome, Moves
<1> QED BY <1>3, <1>4 DEF Task

LEMMA RolledBackOutcome ==
  ASSUME TypeOK, FiresOK, NEW th \in Thread, RolledBack(th)
  PROVE  Outcome(th)
<1> DEFINE f == fire[th]  h == [f EXCEPT !.inputs = Front(@)]
<1>1. /\ f.pc = "rollback" /\ Free(th) /\ f \in FireType /\ f.t \in Transition
      /\ f.inputs \in InputSeq /\ f.inputs # <<>> /\ call[th].pc = "done"
  BY Given DEF RolledBack, Returned, FireOK
<1>2. HoldsMu(f) /\ FiringOf(f, call[th]) = None /\ UNCHANGED committed
  BY <1>1, FiringCases DEF HoldsMu, RolledBack
<1>3. leaked \/ Dirty(f, call[th]) => leaked'
  <2>1. leaked' <=> leaked \/ ~call[th].ok
    BY DEF RolledBack
  <2> QED BY <2>1 DEF Dirty, No
<1>4. h \in FireType /\ h.t = f.t /\ h.inputs = Front(f.inputs)
  <2>1. Front(f.inputs) \in Seq([tok : Token, place : Place])
    BY <1>1, FromFront DEF InputSeq
  <2>2. ASSUME NEW s \in Seq([tok : Token, place : Place])
        PROVE  [f EXCEPT !.inputs = s] \in FireType
    BY <1>1 DEF FireType
  <2>3. [f EXCEPT !.inputs = Front(f.inputs)] \in FireType
    BY <2>1, <2>2
  <2> QED BY <1>1, <2>3 DEF FireType
<1>5. RollbackFrom(th, h)
  BY DEF RolledBack
<1> HIDE DEF h
<1>6. PICK g, c : /\ Becomes(th, g, c)
                  /\ KeepsMu(th, g) \/ ReleasesMu(th, g)
                  /\ \A p \in Place : HeldBy(g, c, p) = From(h.inputs, p)
                  /\ FiringOf(g, c) = None
  BY <1>1, <1>2, <1>4, <1>5, RollbackFromMoves
<1>7. ASSUME NEW p \in Place PROVE HeldBy(f, call[th], p) = From(h.inputs, p)
  <2>1. HeldBy(f, call[th], p) = From(f.inputs, p) - Bit(Last(f.inputs).place = p)
    BY <1>1, HeldCases DEF Gave
  <2>2. From(f.inputs, p) = From(Front(f.inputs), p) + Bit(Last(f.inputs).place = p)
    BY <1>1, FromFront
  <2>3. From(h.inputs, p) \in Nat /\ Bit(Last(f.inputs).place = p) \in Nat
    BY <1>4, FromType DEF FireType, InputSeq, Bit
  <2> QED BY <1>4, <2>1, <2>2, <2>3
<1>8. Stays(th, g, c)
  BY <1>2, <1>6, <1>7 DEF Stays
<1> QED BY <1>3, <1>6, <1>8 DEF Outcome, Moves

LEMMA ProducedOutcome ==
  ASSUME TypeOK, FiresOK, NEW th \in Thread, Produced(th)
  PROVE  Outcome(th)
<1> DEFINE f == fire[th]  arcs == OutputArcs[f.t]
<1>1. /\ f.pc = "produce" /\ Free(th) /\ f \in FireType /\ f.t \in Transition
      /\ IsArcs(arcs) /\ Producing(f, call[th]) /\ call[th].pc = "done"
      /\ PlaceTypeOK
  BY Given, TheArcs DEF Produced, Returned, FireOK
<1>2. HoldsMu(f)
  BY <1>1 DEF HoldsMu
<1>3. /\ f.arc \in DOMAIN arcs /\ f.n < arcs[f.arc].weight
      /\ f.arc \in Nat /\ f.n \in Nat
  BY <1>1 DEF Producing, FireType
<1>4. Ok(call[th]) <=> call[th].ok
  BY <1>1 DEF Ok
<1>5. No(call[th]) <=> ~call[th].ok
  BY <1>1 DEF No
<1>6. ASSUME Ok(call[th]), ProduceFrom(th, Advance(f, arcs)), UNCHANGED leaked
      PROVE  Outcome(th)
  <2> DEFINE h == Advance(f, arcs)
  <2>1. /\ h \in FireType /\ h.t = f.t /\ Inside(arcs, h)
        /\ \A p : Partial(arcs, h.arc, h.n, p)
                    = Partial(arcs, f.arc, f.n, p) + Bit(arcs[f.arc].place = p)
    <3> HIDE DEF arcs
    <3> QED BY ONLY <1>1, <1>3, AdvancePartial
  <2>2. ProduceFrom(th, h)
    BY <1>6
  <2> HIDE DEF h
  <2>3. ASSUME NEW p \in Place
        PROVE  Partial(arcs, f.arc, f.n + 1, p) = Partial(arcs, h.arc, h.n, p)
    <3>1. Upto(arcs, f.arc - 1, p) \in Nat
      BY <1>1, <1>3, UptoType
    <3>2. Partial(arcs, f.arc, f.n + 1, p)
            = Partial(arcs, f.arc, f.n, p) + Bit(arcs[f.arc].place = p)
      BY <1>3, <3>1 DEF Partial, Bit
    <3> QED BY <2>1, <3>2
  <2>4. MadeBy(f, call[th]) = [p \in Place |-> Partial(arcs, h.arc, h.n, p)]
    <3>1. f.n + Bit(Sent(call[th])) = f.n + 1
      BY <1>3, <1>6 DEF Sent, Bit
    <3> QED BY <2>3, <3>1 DEF MadeBy
  <2>5. ~No(call[th])
    BY <1>4, <1>5, <1>6
  <2>6. FiringOf(f, call[th])
          = Fired(h.t, [p \in Place |-> Partial(OutputArcs[h.t], h.arc, h.n, p)])
    BY <1>1, <2>1, <2>4, <2>5, FiringCases
  <2>7. \E g, c : /\ Becomes(th, g, c)
                  /\ KeepsMu(th, g) \/ ReleasesMu(th, g)
                  /\ Moves(th, g, c)
    BY <1>1, <2>1, <2>2, <2>6, ProduceFromMoves
  <2>8. ~Dirty(f, call[th])
    BY <2>5 DEF Dirty
  <2> QED BY <1>6, <2>7, <2>8 DEF Outcome
<1>7. ASSUME ~Ok(call[th]), Finish(th, f, FALSE), leaked' = TRUE, UNCHANGED committed
      PROVE  Outcome(th)
  <2>1. Unlock(th, f.t) /\ \E g, c : Becomes(th, g, c) /\ Over(g)
    BY <1>1, <1>7, FinishBecomes
  <2>2. PICK g, c : Becomes(th, g, c) /\ Over(g)
    BY <2>1
  <2>3. /\ ~HoldsMu(g) /\ FiringOf(g, c) = None
        /\ \A p \in Place : HeldBy(g, c, p) = 0
    BY <2>2, OverIs
  <2>4. /\ FiringOf(f, call[th]) = None
        /\ \A p \in Place : HeldBy(f, call[th], p) = 0
    BY <1>1, <1>4, <1>5, <1>7, FiringCases, HeldCases
  <2>5. Stays(th, g, c) /\ ReleasesMu(th, g)
    BY <1>2, <1>7, <2>1, <2>3, <2>4 DEF Stays, ReleasesMu
  <2> QED BY <1>7, <2>2, <2>5 DEF Outcome, Moves
<1> QED BY <1>4, <1>6, <1>7 DEF Produced

LEMMA FireStepOutcome ==
  ASSUME TypeOK, FiresOK, NEW th \in Thread, FireStep(th)
  PROVE  Outcome(th) /\ UNCHANGED <<tokens, totalTokens, peekMu, history>>
<1>1. \/ Call(th) \/ Lock(th) \/ Checked(th) \/ Guard(th) \/ Consumed(th)
      \/ Task(th) \/ RolledBack(th) \/ Produced(th)
  BY DEF FireStep
<1>2. Outcome(th)
  BY <1>1, CallOutcome, LockOutcome, CheckedOutcome, GuardOutcome,
     ConsumedOutcome, TaskOutcome, RolledBackOutcome, ProducedOutcome
<1> QED BY <1>2 DEF FireStep

-----------------------------------------------------------------------------
(* A step of the place call of th: the records are fire[th] and c.          *)
Drawn(c, p) == IF c.pc \in DrainSteps /\ c.place = p THEN Len(c.buf) ELSE 0

(* What there is of p in the channel and in the hands of th.                *)
Around(tk, f, c, p) == Len(tk[p]) + Drawn(c, p) + HeldBy(f, c, p)

RefusedAt(p) == Len(tokens[p]) >= Capacity[p] \/ GlobalCapacity # 0

Quietly(th, c) ==
  LET f == fire[th] IN
  /\ \A p \in Place : Around(tokens', f, c, p) = Around(tokens, f, call[th], p)
  /\ FiringOf(f, c) = FiringOf(f, call[th])

Puts(th, c) ==
  LET f == fire[th] IN
  \E q \in Place, m \in [Place -> Nat] :
    /\ FiringOf(f, call[th]) = Fired(f.t, m) /\ m[q] < Post[f.t][q]
    /\ FiringOf(f, c) = Fired(f.t, [m EXCEPT ![q] = @ + 1])
    /\ \A p \in Place : Around(tokens', f, c, p)
                          = Around(tokens, f, call[th], p) + Bit(p = q)

Fails(th, c) ==
  LET f == fire[th] IN
  \E q \in Place, m \in [Place -> Nat] :
    /\ FiringOf(f, call[th]) = Fired(f.t, m) /\ m[q] < Post[f.t][q]
    /\ FiringOf(f, c) = None /\ RefusedAt(q) /\ Dirty(f, c)
    /\ \A p \in Place : Around(tokens', f, c, p) = Around(tokens, f, call[th], p)

Loses(th, c) ==
  LET f == fire[th] IN
  \E q \in Place :
    /\ FiringOf(f, call[th]) = None /\ FiringOf(f, c) = None
    /\ RefusedAt(q) /\ Dirty(f, c) /\ HeldBy(f, call[th], q) >= 1
    /\ \A p \in Place : Around(tokens', f, c, p)
                          = Around(tokens, f, call[th], p) - Bit(p = q)

PlaceOutcome(th) ==
  \E c : /\ Set(th, c) /\ FireOK(fire[th], c) /\ ~Dirty(fire[th], call[th])
         /\ Quietly(th, c) \/ Puts(th, c) \/ Fails(th, c) \/ Loses(th, c)

LEMMA ResultIs ==
  ASSUME NEW ok, NEW t, NEW s
  PROVE  LET c == Result(ok, t, s) IN
         /\ c.pc = "done" /\ c.tok = t /\ c.pc \notin DrainSteps
         /\ \A p : Drawn(c, p) = 0
BY DEF Result, DrainSteps, Drawn

(* What a peek drains and what it puts back stays of its place.             *)
LEMMA DrainDrawn ==
  ASSUME PlaceTypeOK, NEW th \in Thread, Drain(th), call[th].pc = "pwc_drain"
  PROVE  \E c : /\ Set(th, c) /\ c.pc = "pwc_drain"
                /\ \A p \in Place : Len(tokens'[p]) + Drawn(c, p)
                                      = Len(tokens[p]) + Drawn(call[th], p)
<1> DEFINE q == call[th].place  b == call[th].buf
           r == Append(b, Head(tokens[q]))
           c == [call[th] EXCEPT !.buf = r]
<1>1. /\ q \in Place /\ b \in Seq(Token) /\ call[th] \in CallType
      /\ tokens \in [Place -> Seq(Token)] /\ tokens[q] # <<>>
  BY DEF PlaceTypeOK, CallType, CallOK, Drain, Steps, DrainSteps
<1>2. tokens' = [tokens EXCEPT ![q] = Tail(@)] /\ Set(th, c)
  BY DEF Drain, Receive
<1>3. Len(r) = Len(b) + 1 /\ Len(b) \in Nat
  <2>1. Head(tokens[q]) \in Token
    BY <1>1, HeadTailProperties
  <2> QED BY <1>1, <2>1, AppendProperties
<1>4. Len(Tail(tokens[q])) = Len(tokens[q]) - 1 /\ Len(tokens[q]) \in Nat
  BY <1>1, HeadTailProperties
<1>5. c.pc = "pwc_drain" /\ c.place = q /\ c.buf = r
  BY <1>1 DEF CallType
<1> HIDE DEF c, r
<1>6. ASSUME NEW p \in Place
      PROVE  Len(tokens'[p]) + Drawn(c, p) = Len(tokens[p]) + Drawn(call[th], p)
  <2>1. CASE p = q
    <3>1. tokens'[p] = Tail(tokens[q])
      BY <1>1, <1>2, <2>1
    <3>2. Drawn(c, p) = Len(b) + 1 /\ Drawn(call[th], p) = Len(b)
      BY <1>3, <1>5, <2>1 DEF Drawn, DrainSteps
    <3>3. ASSUME NEW i \in Nat, NEW j \in Nat PROVE (i - 1) + (j + 1) = i + j
      OBVIOUS
    <3>4. (Len(tokens[q]) - 1) + (Len(b) + 1) = Len(tokens[q]) + Len(b)
      BY <1>3, <1>4, <3>3
    <3>5. Len(tokens'[p]) = Len(tokens[q]) - 1
      BY <1>4, <3>1
    <3> QED BY <2>1, <3>2, <3>4, <3>5
  <2>2. CASE p # q
    BY <1>1, <1>2, <1>5, <2>2 DEF Drawn
  <2> QED BY <2>1, <2>2
<1> QED BY <1>2, <1>5, <1>6

LEMMA RefillDrawn ==
  ASSUME PlaceTypeOK, NEW th \in Thread, PwcRefill(th)
  PROVE  \E c : /\ Set(th, c) /\ c.pc \in PwcSteps \cup {"done"}
                /\ \A p \in Place : Len(tokens'[p]) + Drawn(c, p)
                                      = Len(tokens[p]) + Drawn(call[th], p)
<1> DEFINE q == call[th].place  b == call[th].buf
<1>1. /\ q \in Place /\ b \in Seq(Token) /\ b # <<>> /\ call[th] \in CallType
      /\ tokens \in [Place -> Seq(Token)]
      /\ call[th].pc \in {"pwc_undo", "pwc_refill"}
  BY DEF PlaceTypeOK, CallType, CallOK, PwcRefill, Steps, DrainSteps
<1>2. tokens' = [tokens EXCEPT ![q] = Append(@, Head(b))]
  BY DEF PwcRefill
<1>3. Head(b) \in Token /\ Tail(b) \in Seq(Token) /\ Len(Tail(b)) = Len(b) - 1
      /\ Len(b) \in Nat \ {0}
  BY <1>1, HeadTailProperties, EmptySeq
<1>4. \A p \in Place : /\ Len(tokens'[p]) = Len(tokens[p]) + Bit(p = q)
                       /\ Len(tokens[p]) \in Nat
  <2>1. \A p \in Place : tokens'[p] = IF p = q THEN Append(tokens[q], Head(b))
                                      ELSE tokens[p]
    BY <1>1, <1>2
  <2>2. Len(Append(tokens[q], Head(b))) = Len(tokens[q]) + 1
    BY <1>1, <1>3, AppendProperties
  <2>3. \A p \in Place : Len(tokens[p]) \in Nat
    BY <1>1
  <2>4. ASSUME NEW p \in Place
        PROVE  Len(tokens'[p]) = Len(tokens[p]) + Bit(p = q)
    <3>1. CASE p = q
      <4>1. Len(tokens'[p]) = Len(tokens[q]) + 1
        BY <2>1, <2>2, <3>1
      <4> QED BY <3>1, <4>1 DEF Bit
    <3>2. CASE p # q
      <4>1. Len(tokens'[p]) = Len(tokens[p])
        BY <2>1, <3>2
      <4> QED BY <2>3, <3>2, <4>1 DEF Bit
    <3> QED BY <3>1, <3>2
  <2> QED BY <2>3, <2>4
<1>5. \A p \in Place : Drawn(call[th], p) = IF p = q THEN Len(b) ELSE 0
  BY <1>1 DEF Drawn, DrainSteps
<1>6. ASSUME NEW c, \A p \in Place : Drawn(c, p) = IF p = q THEN Len(b) - 1 ELSE 0
      PROVE  \A p \in Place : Len(tokens'[p]) + Drawn(c, p)
                                = Len(tokens[p]) + Drawn(call[th], p)
  <2>1. ASSUME NEW i \in Nat, NEW j \in Nat PROVE (i + 1) + (j - 1) = i + j
    OBVIOUS
  <2>2. ASSUME NEW p \in Place
        PROVE  Len(tokens'[p]) + Drawn(c, p) = Len(tokens[p]) + Drawn(call[th], p)
    <3>1. CASE p = q
      <4>1. Len(tokens'[p]) = Len(tokens[p]) + 1
        BY <1>4, <3>1 DEF Bit
      <4>2. Drawn(c, p) = Len(b) - 1 /\ Drawn(call[th], p) = Len(b)
        BY <1>5, <1>6, <3>1
      <4>3. (Len(tokens[p]) + 1) + (Len(b) - 1) = Len(tokens[p]) + Len(b)
        BY <1>3, <1>4, <2>1
      <4> QED BY <4>1, <4>2, <4>3
    <3>2. CASE p # q
      <4>0. Len(tokens'[p]) = Len(tokens[p]) + Bit(p = q) /\ Len(tokens[p]) \in Nat
        BY <1>4
      <4>1. Len(tokens'[p]) = Len(tokens[p])
        BY ONLY <3>2, <4>0 DEF Bit
      <4> QED BY <1>5, <1>6, <3>2, <4>1
    <3> QED BY <3>1, <3>2
  <2> QED BY <2>2
<1>7. CASE Set(th, [call[th] EXCEPT !.buf = Tail(@)])
  <2> DEFINE c == [call[th] EXCEPT !.buf = Tail(@)]
  <2>1. c.pc = call[th].pc /\ c.place = q /\ c.buf = Tail(b)
    BY <1>1 DEF CallType
  <2>2. Set(th, c)
    BY <1>7
  <2> HIDE DEF c
  <2>3. \A p \in Place : Drawn(c, p) = IF p = q THEN Len(b) - 1 ELSE 0
    BY <1>1, <1>3, <2>1 DEF Drawn, DrainSteps
  <2> QED BY <1>1, <1>6, <2>1, <2>2, <2>3 DEF PwcSteps
<1>8. ASSUME NEW ok, NEW s, Return(th, ok, None, s), Tail(b) = <<>>
      PROVE  \E c : /\ Set(th, c) /\ c.pc \in PwcSteps \cup {"done"}
                    /\ \A p \in Place : Len(tokens'[p]) + Drawn(c, p)
                                          = Len(tokens[p]) + Drawn(call[th], p)
  <2> DEFINE c == Result(ok, None, s)
  <2>1. Set(th, c) /\ c.pc = "done" /\ \A p : Drawn(c, p) = 0
    BY <1>8, ResultIs DEF Return
  <2> HIDE DEF c
  <2>2. Len(b) - 1 = 0
    BY <1>3, <1>8, EmptySeq
  <2>3. \A p \in Place : Drawn(c, p) = IF p = q THEN Len(b) - 1 ELSE 0
    BY <2>1, <2>2
  <2> QED BY <1>6, <2>1, <2>3
<1> QED BY <1>7, <1>8 DEF PwcRefill, Refilled

LEMMA PwcDrawn ==
  ASSUME PlaceTypeOK, NEW th \in Thread,
         PwcLock(th) \/ PwcDrain(th) \/ PwcRefill(th)
  PROVE  \E c : /\ Set(th, c) /\ c.pc \in PwcSteps \cup {"done"}
                /\ \A p \in Place : Len(tokens'[p]) + Drawn(c, p)
                                      = Len(tokens[p]) + Drawn(call[th], p)
<1> DEFINE q == call[th].place  b == call[th].buf
<1>1. /\ b \in Seq(Token) /\ call[th] \in CallType
      /\ call[th].pc \notin DrainSteps => b = <<>>
  BY DEF PlaceTypeOK, CallType, CallOK
<1>2. ASSUME NEW c, Set(th, c), c.pc \in PwcSteps \cup {"done"}, tokens' = tokens,
             \A p \in Place : Drawn(c, p) = Drawn(call[th], p)
      PROVE  \E e : /\ Set(th, e) /\ e.pc \in PwcSteps \cup {"done"}
                    /\ \A p \in Place : Len(tokens'[p]) + Drawn(e, p)
                                          = Len(tokens[p]) + Drawn(call[th], p)
  BY <1>2
<1>3. b = <<>> => \A p : Drawn(call[th], p) = 0
  BY EmptySeq DEF Drawn
<1>4. ASSUME NEW ok, Return(th, ok, None, <<>>), tokens' = tokens, b = <<>>
      PROVE  \E e : /\ Set(th, e) /\ e.pc \in PwcSteps \cup {"done"}
                    /\ \A p \in Place : Len(tokens'[p]) + Drawn(e, p)
                                          = Len(tokens[p]) + Drawn(call[th], p)
  <2> DEFINE c == Result(ok, None, <<>>)
  <2>1. Set(th, c) /\ c.pc = "done" /\ \A p : Drawn(c, p) = 0
    BY <1>4, ResultIs DEF Return
  <2> HIDE DEF c
  <2> QED BY <1>2, <1>3, <1>4, <2>1
<1>5. CASE PwcLock(th)
  <2>1. b = <<>> /\ tokens' = tokens /\ call[th].pc = "pwc_lock"
    BY <1>1, <1>5 DEF PwcLock, DrainSteps
  <2>2. CASE Set(th, [call[th] EXCEPT !.pc = "pwc_drain", !.avail = Len(tokens[q])])
    <3> DEFINE c == [call[th] EXCEPT !.pc = "pwc_drain", !.avail = Len(tokens[q])]
    <3>1. c.pc = "pwc_drain" /\ c.buf = <<>> /\ Set(th, c)
      BY <1>1, <2>1, <2>2 DEF CallType
    <3> HIDE DEF c
    <3>2. \A p : Drawn(c, p) = 0
      BY <3>1, EmptySeq DEF Drawn
    <3> QED BY <1>2, <1>3, <2>1, <3>1, <3>2 DEF PwcSteps
  <2> QED BY <1>4, <1>5, <2>1, <2>2 DEF PwcLock
<1>6. CASE PwcDrain(th)
  <2>1. call[th].pc = "pwc_drain"
    BY <1>6 DEF PwcDrain
  <2>2. CASE Drain(th)
    <3>1. \E c : /\ Set(th, c) /\ c.pc = "pwc_drain"
                 /\ \A p \in Place : Len(tokens'[p]) + Drawn(c, p)
                                       = Len(tokens[p]) + Drawn(call[th], p)
      BY <2>1, <2>2, DrainDrawn
    <3> QED BY <3>1 DEF PwcSteps
  <2>3. ASSUME NEW c, c.pc \in {"pwc_undo", "pwc_refill"}, c.place = q, c.buf = b
        PROVE  c.pc \in PwcSteps /\ \A p \in Place : Drawn(c, p) = Drawn(call[th], p)
    BY <2>1, <2>3 DEF Drawn, DrainSteps, PwcSteps
  <2>4. CASE Goto(th, "pwc_undo") /\ tokens' = tokens
    <3> DEFINE c == [call[th] EXCEPT !.pc = "pwc_undo"]
    <3>1. c.pc = "pwc_undo" /\ c.place = q /\ c.buf = b /\ Set(th, c)
      BY <1>1, <2>4 DEF CallType, Goto
    <3> HIDE DEF c
    <3> QED BY <1>2, <2>3, <2>4, <3>1
  <2>5. CASE /\ Set(th, [call[th] EXCEPT !.pc = "pwc_refill",
                                         !.seen = SubSeq(b, 1, call[th].need)])
             /\ tokens' = tokens
    <3> DEFINE c == [call[th] EXCEPT !.pc = "pwc_refill",
                                     !.seen = SubSeq(b, 1, call[th].need)]
    <3>1. c.pc = "pwc_refill" /\ c.place = q /\ c.buf = b /\ Set(th, c)
      BY <1>1, <2>5 DEF CallType
    <3> HIDE DEF c
    <3> QED BY <1>2, <2>3, <2>5, <3>1
  <2> QED BY <1>4, <1>6, <2>2, <2>4, <2>5 DEF PwcDrain
<1> QED BY <1>5, <1>6, RefillDrawn

LEMMA CheckingPlaceOutcome ==
  ASSUME TypeOK, FiresOK, NEW th \in Thread, PlaceStep(th), fire[th].pc = "check"
  PROVE  PlaceOutcome(th)
<1> DEFINE f == fire[th]
<1>1. /\ PlaceTypeOK /\ FireOK(f, call[th]) /\ f.t \in Transition
      /\ call[th].pc \in PwcSteps \cup {"done"}
  BY Given DEF FireOK
<1>2. PwcLock(th) \/ PwcDrain(th) \/ PwcRefill(th)
  BY <1>1 DEF PlaceStep, PwcSteps, AddCheck, AddSend, AddCount, RemoveReceive,
     RemoveCount, PeekLock, PeekDrain, PeekRefill, ClearLock, ClearLen, ClearReceive
<1>3. PICK c : /\ Set(th, c) /\ c.pc \in PwcSteps \cup {"done"}
               /\ \A p \in Place : Len(tokens'[p]) + Drawn(c, p)
                                     = Len(tokens[p]) + Drawn(call[th], p)
  BY <1>1, <1>2, PwcDrawn
<1>4. /\ \A p \in Place : HeldBy(f, c, p) = 0 /\ HeldBy(f, call[th], p) = 0
      /\ FiringOf(f, c) = None /\ FiringOf(f, call[th]) = None
  BY HeldCases, FiringCases
<1>5. Quietly(th, c)
  BY <1>3, <1>4 DEF Quietly, Around
<1>6. FireOK(f, c) /\ ~Dirty(f, call[th])
  BY <1>1, <1>3 DEF FireOK, Dirty
<1> QED BY <1>3, <1>5, <1>6 DEF PlaceOutcome

(* RemoveToken, and AddToken: what one step does to channel and record.     *)
LEMMA RemoveStep ==
  ASSUME PlaceTypeOK, NEW th \in Thread, RemoveReceive(th) \/ RemoveCount(th)
  PROVE  LET q == call[th].place IN
         \E c : /\ Set(th, c) /\ \A p : Drawn(c, p) = 0 /\ Drawn(call[th], p) = 0
                /\ \/ /\ call[th].pc = "rem_recv" /\ c.pc = "rem_count"
                      /\ c.place = q /\ tokens[q] # <<>>
                      /\ tokens' = [tokens EXCEPT ![q] = Tail(@)]
                   \/ call[th].pc = "rem_recv" /\ No(c) /\ tokens' = tokens
                   \/ /\ call[th].pc = "rem_count" /\ Ok(c) /\ c.tok \in Token
                      /\ tokens' = tokens
<1> DEFINE q == call[th].place
<1>1. call[th] \in CallType /\ CallOK(call[th])
  BY DEF PlaceTypeOK
<1>2. \A p : Drawn(call[th], p) = 0
  BY DEF Drawn, DrainSteps, RemoveReceive, RemoveCount
<1>3. CASE RemoveReceive(th)
  <2>1. call[th].pc = "rem_recv"
    BY <1>3 DEF RemoveReceive
  <2>2. CASE /\ tokens[q] # <<>> /\ Receive(th, q)
             /\ Set(th, [call[th] EXCEPT !.pc = "rem_count", !.tok = Head(tokens[q])])
    <3> DEFINE c == [call[th] EXCEPT !.pc = "rem_count", !.tok = Head(tokens[q])]
    <3>1. c.pc = "rem_count" /\ c.place = q /\ Set(th, c)
      BY <1>1, <2>2 DEF CallType
    <3> HIDE DEF c
    <3>2. \A p : Drawn(c, p) = 0
      BY <3>1 DEF Drawn, DrainSteps
    <3> QED BY <1>2, <2>1, <2>2, <3>1, <3>2 DEF Receive
  <2>3. CASE Return(th, FALSE, None, <<>>) /\ tokens' = tokens
    <3> DEFINE c == Result(FALSE, None, <<>>)
    <3>1. Set(th, c) /\ No(c) /\ \A p : Drawn(c, p) = 0
      BY <2>3 DEF Return, Result, No, Drawn, DrainSteps
    <3> HIDE DEF c
    <3> QED BY <1>2, <2>1, <2>3, <3>1
  <2> QED BY <1>3, <2>2, <2>3 DEF RemoveReceive
<1>4. CASE RemoveCount(th)
  <2> DEFINE c == Result(TRUE, call[th].tok, <<>>)
  <2>1. call[th].pc = "rem_count" /\ tokens' = tokens /\ Set(th, c)
    BY <1>4 DEF RemoveCount, Return
  <2>2. Ok(c) /\ c.tok = call[th].tok /\ \A p : Drawn(c, p) = 0
    BY DEF Result, Ok, Drawn, DrainSteps
  <2> HIDE DEF c
  <2>3. call[th].tok \in Token
    BY <1>1, <2>1 DEF CallOK
  <2> QED BY <1>2, <2>1, <2>2, <2>3
<1> QED BY <1>3, <1>4

LEMMA AddStep ==
  ASSUME PlaceTypeOK, NEW th \in Thread,
         AddCheck(th) \/ AddSend(th) \/ AddCount(th)
  PROVE  LET q == call[th].place IN
         \E c : /\ Set(th, c) /\ \A p : Drawn(c, p) = 0 /\ Drawn(call[th], p) = 0
                /\ \/ /\ call[th].pc = "add_check" /\ c.pc = "add_send"
                      /\ c.place = q /\ tokens' = tokens
                   \/ /\ call[th].pc \in {"add_check", "add_send"} /\ No(c)
                      /\ RefusedAt(q) /\ tokens' = tokens
                   \/ /\ call[th].pc = "add_send" /\ c.pc = "add_count"
                      /\ c.place = q
                      /\ tokens' = [tokens EXCEPT ![q] = Append(@, call[th].tok)]
                   \/ call[th].pc = "add_count" /\ Ok(c) /\ tokens' = tokens
<1> DEFINE q == call[th].place
<1>1. call[th] \in CallType /\ CallOK(call[th])
  BY DEF PlaceTypeOK
<1>2. \A p : Drawn(call[th], p) = 0
  BY DEF Drawn, DrainSteps, AddCheck, AddSend, AddCount
<1>3. ASSUME NEW step \in {"add_send", "add_count"}, Goto(th, step)
      PROVE  \E c : /\ Set(th, c) /\ c.pc = step /\ c.place = q
                    /\ \A p : Drawn(c, p) = 0
  <2> DEFINE c == [call[th] EXCEPT !.pc = step]
  <2>1. c.pc = step /\ c.place = q /\ Set(th, c)
    BY <1>1, <1>3 DEF CallType, Goto
  <2> HIDE DEF c
  <2>2. \A p : Drawn(c, p) = 0
    BY <2>1 DEF Drawn, DrainSteps
  <2> QED BY <2>1, <2>2
<1>4. ASSUME NEW ok \in BOOLEAN, Return(th, ok, None, <<>>)
      PROVE  \E c : /\ Set(th, c) /\ \A p : Drawn(c, p) = 0
                    /\ ok => Ok(c)
                    /\ ~ok => No(c)
  <2> DEFINE c == Result(ok, None, <<>>)
  <2>1. Set(th, c) /\ (ok => Ok(c)) /\ (~ok => No(c)) /\ \A p : Drawn(c, p) = 0
    BY <1>4 DEF Return, Result, Ok, No, Drawn, DrainSteps
  <2> HIDE DEF c
  <2> QED BY <2>1
<1>5. CASE AddCheck(th)
  <2>1. call[th].pc = "add_check" /\ tokens' = tokens
    BY <1>5 DEF AddCheck
  <2>2. CASE Goto(th, "add_send")
    BY <1>2, <1>3, <2>1, <2>2
  <2>3. CASE ~CheckGlobalCapacity /\ Return(th, FALSE, None, <<>>)
    <3>1. GlobalCapacity # 0
      BY <2>3 DEF CheckGlobalCapacity
    <3> QED BY <1>2, <1>4, <2>1, <2>3, <3>1 DEF RefusedAt
  <2> QED BY <1>5, <2>2, <2>3 DEF AddCheck
<1>6. CASE AddSend(th)
  <2>1. call[th].pc = "add_send"
    BY <1>6 DEF AddSend
  <2>2. CASE Send(th, q, call[th].tok) /\ Goto(th, "add_count")
    BY <1>2, <1>3, <2>1, <2>2 DEF Send
  <2>3. CASE Full(q) /\ Return(th, FALSE, None, <<>>) /\ tokens' = tokens
    BY <1>2, <1>4, <2>1, <2>3 DEF Full, RefusedAt
  <2> QED BY <1>6, <2>2, <2>3 DEF AddSend
<1>7. CASE AddCount(th)
  <2>1. call[th].pc = "add_count" /\ tokens' = tokens /\ Return(th, TRUE, None, <<>>)
    BY <1>7 DEF AddCount
  <2> QED BY <1>2, <1>4, <2>1
<1> QED BY <1>5, <1>6, <1>7

LEMMA TailLength ==
  ASSUME PlaceTypeOK, NEW q \in Place, tokens[q] # <<>>,
         tokens' = [tokens EXCEPT ![q] = Tail(@)]
  PROVE  \A p \in Place : /\ Len(tokens[p]) \in Nat
                          /\ Len(tokens'[p]) = Len(tokens[p]) - Bit(p = q)
<1>1. tokens \in [Place -> Seq(Token)]
  BY DEF PlaceTypeOK
<1>2. Len(Tail(tokens[q])) = Len(tokens[q]) - 1
  BY <1>1, HeadTailProperties
<1>3. ASSUME NEW p \in Place
      PROVE  /\ Len(tokens[p]) \in Nat
             /\ Len(tokens'[p]) = Len(tokens[p]) - Bit(p = q)
  <2>1. Len(tokens[p]) \in Nat
    BY <1>1
  <2>2. CASE p = q
    BY <1>1, <1>2, <2>1, <2>2 DEF Bit
  <2>3. CASE p # q
    <3>1. tokens'[p] = tokens[p]
      BY <1>1, <2>3
    <3> QED BY <2>1, <2>3, <3>1 DEF Bit
  <2> QED BY <2>1, <2>2, <2>3
<1> QED BY <1>3

LEMMA AppendLength ==
  ASSUME PlaceTypeOK, NEW q \in Place, NEW t \in Token,
         tokens' = [tokens EXCEPT ![q] = Append(@, t)]
  PROVE  \A p \in Place : /\ Len(tokens[p]) \in Nat
                          /\ Len(tokens'[p]) = Len(tokens[p]) + Bit(p = q)
<1>1. tokens \in [Place -> Seq(Token)]
  BY DEF PlaceTypeOK
<1>2. Len(Append(tokens[q], t)) = Len(tokens[q]) + 1
  BY <1>1, AppendProperties
<1>3. ASSUME NEW p \in Place
      PROVE  /\ Len(tokens[p]) \in Nat
             /\ Len(tokens'[p]) = Len(tokens[p]) + Bit(p = q)
  <2>1. Len(tokens[p]) \in Nat
    BY <1>1
  <2>2. CASE p = q
    BY <1>1, <1>2, <2>1, <2>2 DEF Bit
  <2>3. CASE p # q
    <3>1. tokens'[p] = tokens[p]
      BY <1>1, <2>3
    <3> QED BY <2>1, <2>3, <3>1 DEF Bit
  <2> QED BY <2>1, <2>2, <2>3
<1> QED BY <1>3

LEMMA ConsumingPlaceOutcome ==
  ASSUME TypeOK, FiresOK, NEW th \in Thread, PlaceStep(th), fire[th].pc = "consume"
  PROVE  PlaceOutcome(th)
<1> DEFINE f == fire[th]  d == call[th]  q == d.place
<1>1. /\ PlaceTypeOK /\ FireOK(f, d) /\ f.t \in Transition
      /\ f.inputs \in InputSeq /\ Consuming(f, d)
  BY Given DEF FireOK
<1>2. RemoveReceive(th) \/ RemoveCount(th)
  <2>1. d.pc \in RemoveSteps \cup {"done"}
    BY <1>1 DEF Consuming, Calling
  <2> QED BY <2>1 DEF PlaceStep, RemoveSteps, AddCheck, AddSend, AddCount,
     PeekLock, PeekDrain, PeekRefill, PwcLock, PwcDrain, PwcRefill,
     ClearLock, ClearLen, ClearReceive
<1>3. PICK c :
        /\ Set(th, c) /\ \A p : Drawn(c, p) = 0 /\ Drawn(d, p) = 0
        /\ \/ /\ d.pc = "rem_recv" /\ c.pc = "rem_count"
              /\ c.place = q /\ tokens[q] # <<>>
              /\ tokens' = [tokens EXCEPT ![q] = Tail(@)]
           \/ d.pc = "rem_recv" /\ No(c) /\ tokens' = tokens
           \/ d.pc = "rem_count" /\ Ok(c) /\ c.tok \in Token /\ tokens' = tokens
  BY <1>1, <1>2, RemoveStep
<1>4. q = InputArcs[f.t][f.arc].place /\ q \in Place
  <2>1. d.pc \in RemoveSteps
    BY <1>3 DEF RemoveSteps
  <2> QED BY <1>1, <2>1 DEF Consuming, Calling, PlaceTypeOK, CallOK, Steps
<1>5. /\ FiringOf(f, c) = None /\ FiringOf(f, d) = None
      /\ ~Dirty(f, d)
  BY FiringCases DEF Dirty
<1>6. \A p \in Place :
        /\ HeldBy(f, c, p) = From(f.inputs, p) + Bit(Took(c) /\ q = p)
        /\ HeldBy(f, d, p) = From(f.inputs, p) + Bit(Took(d) /\ q = p)
        /\ From(f.inputs, p) \in Nat
  BY <1>1, <1>4, HeldCases, FromType
<1>7. ASSUME c.pc \in {"rem_count", "done"}, c.pc = "rem_count" => c.place = q,
             Ok(c) => c.tok \in Token
      PROVE  FireOK(f, c)
  <2>1. Consuming(f, c)
    BY <1>1, <1>4, <1>7 DEF Consuming, Calling, RemoveSteps
  <2> QED BY <1>1, <2>1 DEF FireOK
<1>8. ASSUME NEW p \in Place PROVE Len(tokens[p]) \in Nat
  BY <1>1 DEF PlaceTypeOK
<1>9. CASE /\ d.pc = "rem_recv" /\ c.pc = "rem_count"
           /\ c.place = q /\ tokens[q] # <<>>
           /\ tokens' = [tokens EXCEPT ![q] = Tail(@)]
  <2>1. Took(c) /\ ~Took(d) /\ ~Ok(c)
    BY <1>9 DEF Took, Ok
  <2>2. ASSUME NEW p \in Place
        PROVE  Around(tokens', f, c, p) = Around(tokens, f, d, p)
    <3>1. Len(tokens'[p]) = Len(tokens[p]) - Bit(p = q)
      BY <1>1, <1>4, <1>9, TailLength
    <3>2. /\ HeldBy(f, c, p) = From(f.inputs, p) + Bit(p = q)
          /\ HeldBy(f, d, p) = From(f.inputs, p)
      BY <1>6, <2>1 DEF Bit
    <3>3. Bit(p = q) \in Nat
      BY DEF Bit
    <3> QED BY <1>3, <1>6, <1>8, <3>1, <3>2, <3>3 DEF Around
  <2>3. FireOK(f, c)
    BY <1>7, <1>9, <2>1
  <2> QED BY <1>3, <1>5, <2>2, <2>3 DEF PlaceOutcome, Quietly
<1>10. CASE d.pc = "rem_recv" /\ No(c) /\ tokens' = tokens
  <2>1. ~Took(c) /\ ~Took(d) /\ ~Ok(c) /\ c.pc = "done"
    BY <1>10 DEF Took, Ok, No
  <2>2. \A p \in Place : Around(tokens', f, c, p) = Around(tokens, f, d, p)
    BY <1>3, <1>6, <1>10, <2>1 DEF Around, Bit
  <2>3. FireOK(f, c)
    BY <1>7, <2>1
  <2> QED BY <1>3, <1>5, <2>2, <2>3 DEF PlaceOutcome, Quietly
<1>11. CASE d.pc = "rem_count" /\ Ok(c) /\ c.tok \in Token /\ tokens' = tokens
  <2>1. Took(c) /\ Took(d) /\ c.pc = "done"
    BY <1>11 DEF Took, Ok
  <2>2. \A p \in Place : Around(tokens', f, c, p) = Around(tokens, f, d, p)
    BY <1>3, <1>6, <1>11, <2>1 DEF Around, Bit
  <2>3. FireOK(f, c)
    BY <1>7, <1>11, <2>1
  <2> QED BY <1>3, <1>5, <2>2, <2>3 DEF PlaceOutcome, Quietly
<1> QED BY <1>3, <1>9, <1>10, <1>11

(* The place calls of a rollback and of the production.                     *)
LEMMA AddingPlaceStep ==
  ASSUME TypeOK, NEW th \in Thread, PlaceStep(th), NEW q \in Place,
         Calling(call[th], AddSteps, q)
  PROVE  \E c : /\ Set(th, c) /\ Calling(c, AddSteps, q)
                /\ \A p : Drawn(c, p) = 0 /\ Drawn(call[th], p) = 0
                /\ \/ /\ ~Sent(call[th]) /\ ~Gave(call[th]) /\ tokens' = tokens
                      /\ ~Sent(c) /\ ~Gave(c)
                   \/ /\ ~Sent(call[th]) /\ ~Gave(call[th]) /\ tokens' = tokens
                      /\ No(c) /\ Gave(c) /\ RefusedAt(q)
                   \/ /\ ~Sent(call[th]) /\ ~Gave(call[th])
                      /\ Sent(c) /\ Gave(c)
                      /\ \A p \in Place : Len(tokens'[p]) = Len(tokens[p]) + Bit(p = q)
                   \/ /\ Sent(call[th]) /\ Gave(call[th]) /\ tokens' = tokens
                      /\ Sent(c) /\ Gave(c)
                /\ ~No(call[th])
<1> DEFINE d == call[th]
<1>1. PlaceTypeOK
  BY DEF TypeOK
<1>2. AddCheck(th) \/ AddSend(th) \/ AddCount(th)
  <2>1. d.pc \in AddSteps \cup {"done"}
    BY DEF Calling
  <2> QED BY <2>1 DEF PlaceStep, AddSteps, RemoveReceive, RemoveCount,
     PeekLock, PeekDrain, PeekRefill, PwcLock, PwcDrain, PwcRefill,
     ClearLock, ClearLen, ClearReceive
<1>3. d.pc \in AddSteps /\ d.place = q /\ d.tok \in Token /\ d.pc # "done"
  <2>1. d.pc \in AddSteps
    BY <1>2 DEF AddCheck, AddSend, AddCount, AddSteps
  <2> QED BY <1>1, <2>1 DEF Calling, PlaceTypeOK, CallOK, AddSteps
<1>4. PICK c :
        /\ Set(th, c) /\ \A p : Drawn(c, p) = 0 /\ Drawn(d, p) = 0
        /\ \/ /\ d.pc = "add_check" /\ c.pc = "add_send"
              /\ c.place = q /\ tokens' = tokens
           \/ /\ d.pc \in {"add_check", "add_send"} /\ No(c)
              /\ RefusedAt(q) /\ tokens' = tokens
           \/ /\ d.pc = "add_send" /\ c.pc = "add_count"
              /\ c.place = q
              /\ tokens' = [tokens EXCEPT ![q] = Append(@, d.tok)]
           \/ d.pc = "add_count" /\ Ok(c) /\ tokens' = tokens
  BY <1>1, <1>2, <1>3, AddStep
<1>5. ~No(d)
  BY <1>3 DEF No
<1>6. CASE d.pc = "add_check" /\ c.pc = "add_send" /\ c.place = q /\ tokens' = tokens
  BY <1>4, <1>5, <1>6 DEF Sent, Gave, Ok, Calling, AddSteps
<1>7. CASE d.pc \in {"add_check", "add_send"} /\ No(c) /\ RefusedAt(q) /\ tokens' = tokens
  BY <1>4, <1>5, <1>7 DEF Sent, Gave, Ok, No, Calling, AddSteps
<1>8. CASE /\ d.pc = "add_send" /\ c.pc = "add_count" /\ c.place = q
           /\ tokens' = [tokens EXCEPT ![q] = Append(@, d.tok)]
  <2>1. \A p \in Place : Len(tokens'[p]) = Len(tokens[p]) + Bit(p = q)
    BY <1>1, <1>3, <1>8, AppendLength
  <2>2. ~Sent(d) /\ ~Gave(d) /\ Sent(c) /\ Gave(c) /\ Calling(c, AddSteps, q)
    BY <1>8 DEF Sent, Gave, Ok, Calling, AddSteps
  <2> QED BY <1>4, <1>5, <2>1, <2>2
<1>9. CASE d.pc = "add_count" /\ Ok(c) /\ tokens' = tokens
  BY <1>4, <1>5, <1>9 DEF Sent, Gave, Ok, Calling, AddSteps
<1> QED BY <1>4, <1>6, <1>7, <1>8, <1>9

LEMMA RollingBackPlaceOutcome ==
  ASSUME TypeOK, FiresOK, NEW th \in Thread, PlaceStep(th),
         fire[th].pc = "rollback"
  PROVE  PlaceOutcome(th)
<1> DEFINE f == fire[th]  d == call[th]  q == Last(f.inputs).place
<1>1. /\ PlaceTypeOK /\ FireOK(f, d) /\ f.t \in Transition
      /\ f.inputs \in InputSeq /\ f.inputs # <<>> /\ Calling(d, AddSteps, q)
  BY Given DEF FireOK
<1>2. q \in Place /\ From(f.inputs, q) = From(Front(f.inputs), q) + Bit(q = q)
      /\ Front(f.inputs) \in InputSeq
  BY <1>1, FromFront
<1>3. PICK c :
        /\ Set(th, c) /\ Calling(c, AddSteps, q)
        /\ \A p : Drawn(c, p) = 0 /\ Drawn(d, p) = 0
        /\ \/ /\ ~Sent(d) /\ ~Gave(d) /\ tokens' = tokens
              /\ ~Sent(c) /\ ~Gave(c)
           \/ /\ ~Sent(d) /\ ~Gave(d) /\ tokens' = tokens
              /\ No(c) /\ Gave(c) /\ RefusedAt(q)
           \/ /\ ~Sent(d) /\ ~Gave(d) /\ Sent(c) /\ Gave(c)
              /\ \A p \in Place : Len(tokens'[p]) = Len(tokens[p]) + Bit(p = q)
           \/ /\ Sent(d) /\ Gave(d) /\ tokens' = tokens
              /\ Sent(c) /\ Gave(c)
        /\ ~No(d)
  BY <1>1, <1>2, AddingPlaceStep
<1>4. FireOK(f, c) /\ ~Dirty(f, d)
  BY <1>1, <1>3 DEF FireOK, Dirty
<1>5. FiringOf(f, c) = None /\ FiringOf(f, d) = None
  BY FiringCases
<1>6. \A p \in Place :
        /\ HeldBy(f, c, p) = From(f.inputs, p) - Bit(Gave(c) /\ q = p)
        /\ HeldBy(f, d, p) = From(f.inputs, p) - Bit(Gave(d) /\ q = p)
        /\ From(f.inputs, p) \in Nat /\ Len(tokens[p]) \in Nat
  BY <1>1, HeldCases, FromType DEF PlaceTypeOK
<1>7. \A p \in Place : Bit(p = q) \in Nat
  BY DEF Bit
<1>8. CASE tokens' = tokens /\ (Gave(c) <=> Gave(d))
  <2>1. \A p \in Place : Around(tokens', f, c, p) = Around(tokens, f, d, p)
    BY <1>3, <1>6, <1>8 DEF Around, Bit
  <2> QED BY <1>3, <1>4, <1>5, <2>1 DEF PlaceOutcome, Quietly
<1>9. CASE /\ ~Gave(d) /\ Gave(c)
           /\ \A p \in Place : Len(tokens'[p]) = Len(tokens[p]) + Bit(p = q)
  <2>1. ASSUME NEW p \in Place
        PROVE  Around(tokens', f, c, p) = Around(tokens, f, d, p)
    <3>1. /\ HeldBy(f, c, p) = From(f.inputs, p) - Bit(p = q)
          /\ HeldBy(f, d, p) = From(f.inputs, p)
      BY <1>6, <1>9 DEF Bit
    <3>2. Len(tokens'[p]) = Len(tokens[p]) + Bit(p = q)
      BY <1>9
    <3> QED BY <1>3, <1>6, <1>7, <3>1, <3>2 DEF Around
  <2> QED BY <1>3, <1>4, <1>5, <2>1 DEF PlaceOutcome, Quietly
<1>10. CASE ~Gave(d) /\ Gave(c) /\ tokens' = tokens /\ No(c) /\ RefusedAt(q)
  <2>1. ASSUME NEW p \in Place
        PROVE  Around(tokens', f, c, p) = Around(tokens, f, d, p) - Bit(p = q)
    <3>1. /\ HeldBy(f, c, p) = From(f.inputs, p) - Bit(p = q)
          /\ HeldBy(f, d, p) = From(f.inputs, p)
      BY <1>6, <1>10 DEF Bit
    <3> QED BY <1>3, <1>6, <1>7, <1>10, <3>1 DEF Around
  <2>2. HeldBy(f, d, q) >= 1
    <3>1. HeldBy(f, d, q) = From(f.inputs, q)
      BY <1>2, <1>6, <1>10 DEF Bit
    <3>2. From(Front(f.inputs), q) \in Nat
      BY <1>2, FromType
    <3> QED BY <1>2, <3>1, <3>2 DEF Bit
  <2>3. Dirty(f, c)
    BY <1>10 DEF Dirty
  <2>4. Loses(th, c)
    BY <1>2, <1>5, <1>10, <2>1, <2>2, <2>3 DEF Loses
  <2> QED BY <1>3, <1>4, <2>4 DEF PlaceOutcome
<1> QED BY <1>3, <1>8, <1>9, <1>10

LEMMA ProducingPlaceOutcome ==
  ASSUME TypeOK, FiresOK, NEW th \in Thread, PlaceStep(th), fire[th].pc = "produce"
  PROVE  PlaceOutcome(th)
<1> DEFINE f == fire[th]  d == call[th]  arcs == OutputArcs[f.t]
           q == arcs[f.arc].place  m == MadeBy(f, d)
<1>1. /\ PlaceTypeOK /\ FireOK(f, d) /\ f.t \in Transition /\ IsArcs(arcs)
      /\ Producing(f, d) /\ f.arc \in Nat /\ f.n \in Nat
  BY Given, TheArcs DEF FireOK, FireType
<1>2. /\ f.arc \in DOMAIN arcs /\ f.n < arcs[f.arc].weight
      /\ q \in Place /\ Calling(d, AddSteps, q)
  BY <1>1, ArcsShape DEF Producing
<1>3. PICK c :
        /\ Set(th, c) /\ Calling(c, AddSteps, q)
        /\ \A p : Drawn(c, p) = 0 /\ Drawn(d, p) = 0
        /\ \/ /\ ~Sent(d) /\ ~Gave(d) /\ tokens' = tokens
              /\ ~Sent(c) /\ ~Gave(c)
           \/ /\ ~Sent(d) /\ ~Gave(d) /\ tokens' = tokens
              /\ No(c) /\ Gave(c) /\ RefusedAt(q)
           \/ /\ ~Sent(d) /\ ~Gave(d) /\ Sent(c) /\ Gave(c)
              /\ \A p \in Place : Len(tokens'[p]) = Len(tokens[p]) + Bit(p = q)
           \/ /\ Sent(d) /\ Gave(d) /\ tokens' = tokens
              /\ Sent(c) /\ Gave(c)
        /\ ~No(d)
  BY <1>2, AddingPlaceStep
<1>4. FireOK(f, c) /\ ~Dirty(f, d)
  <2>1. Producing(f, c)
    BY <1>2, <1>3 DEF Producing
  <2> QED BY <1>1, <1>3, <2>1 DEF FireOK, Dirty
<1>5. \A p \in Place : HeldBy(f, c, p) = 0 /\ HeldBy(f, d, p) = 0
                       /\ Len(tokens[p]) \in Nat
  <2>1. \A p \in Place : Len(tokens[p]) \in Nat
    BY <1>1 DEF PlaceTypeOK
  <2>2. \A p \in Place : HeldBy(f, c, p) = 0 /\ HeldBy(f, d, p) = 0
    BY HeldCases
  <2> QED BY <2>1, <2>2
<1>6. FiringOf(f, d) = Fired(f.t, m)
  BY <1>3, FiringCases
<1>7. ASSUME NEW b \in {c, d}
      PROVE  \A p \in Place : MadeBy(f, b)[p] = Partial(arcs, f.arc, f.n + Bit(Sent(b)), p)
  BY DEF MadeBy
<1>8. m \in [Place -> Nat]
  <2>1. f.n + Bit(Sent(d)) \in Nat
    BY <1>1 DEF Bit
  <2>2. \A p \in Place : Partial(arcs, f.arc, f.n + Bit(Sent(d)), p) \in Nat
    BY <1>1, <2>1, PartialType
  <2> QED BY <2>2 DEF MadeBy
<1>9. ~Sent(d) => m[q] < Post[f.t][q]
  <2>1. ASSUME ~Sent(d) PROVE m[q] = Partial(arcs, f.arc, f.n, q)
    <3>1. f.n + Bit(Sent(d)) = f.n
      BY <1>1, <2>1 DEF Bit
    <3> QED BY <1>2, <1>7, <3>1
  <2>2. Partial(arcs, f.arc, f.n, q) < Weight(arcs, q)
    BY <1>1, <1>2, PartialBelow
  <2>3. Post[f.t][q] = Weight(arcs, q)
    BY <1>1, <1>2, PreIs
  <2> QED BY <2>1, <2>2, <2>3
<1>10. CASE tokens' = tokens /\ (Sent(c) <=> Sent(d)) /\ ~No(c)
  <2>1. MadeBy(f, c) = m
    BY <1>10 DEF MadeBy, Bit
  <2>2. FiringOf(f, c) = FiringOf(f, d)
    BY <1>6, <1>10, <2>1, FiringCases
  <2>3. \A p \in Place : Around(tokens', f, c, p) = Around(tokens, f, d, p)
    BY <1>3, <1>5, <1>10 DEF Around
  <2> QED BY <1>3, <1>4, <2>2, <2>3 DEF PlaceOutcome, Quietly
<1>11. CASE ~Sent(d) /\ tokens' = tokens /\ No(c) /\ RefusedAt(q)
  <2>1. FiringOf(f, c) = None
    BY <1>11, FiringCases
  <2>2. \A p \in Place : Around(tokens', f, c, p) = Around(tokens, f, d, p)
    BY <1>3, <1>5, <1>11 DEF Around
  <2>3. Dirty(f, c)
    BY <1>11 DEF Dirty
  <2>4. Fails(th, c)
    BY <1>2, <1>6, <1>8, <1>9, <1>11, <2>1, <2>2, <2>3 DEF Fails
  <2> QED BY <1>3, <1>4, <2>4 DEF PlaceOutcome
<1>12. CASE /\ ~Sent(d) /\ Sent(c) /\ ~No(c)
            /\ \A p \in Place : Len(tokens'[p]) = Len(tokens[p]) + Bit(p = q)
  <2>1. MadeBy(f, c) = [m EXCEPT ![q] = @ + 1]
    <3>1. f.n + Bit(Sent(c)) = f.n + 1 /\ f.n + Bit(Sent(d)) = f.n
      BY <1>1, <1>12 DEF Bit
    <3>2. ASSUME NEW p \in Place
          PROVE  Partial(arcs, f.arc, f.n + 1, p)
                   = IF p = q THEN Partial(arcs, f.arc, f.n, p) + 1
                     ELSE Partial(arcs, f.arc, f.n, p)
      <4>1. Upto(arcs, f.arc - 1, p) \in Nat
        BY <1>1, UptoType
      <4>2. Partial(arcs, f.arc, f.n + 1, p)
              = Upto(arcs, f.arc - 1, p) + (IF q = p THEN f.n + 1 ELSE 0)
        BY ONLY <1>2 DEF Partial
      <4>3. Partial(arcs, f.arc, f.n, p)
              = Upto(arcs, f.arc - 1, p) + (IF q = p THEN f.n ELSE 0)
        BY ONLY <1>2 DEF Partial
      <4> QED BY ONLY <1>1, <4>1, <4>2, <4>3
    <3> QED BY <1>2, <3>1, <3>2 DEF MadeBy
  <2>2. FiringOf(f, c) = Fired(f.t, [m EXCEPT ![q] = @ + 1])
    <3>1. f.pc = "produce"
      BY <1>1 DEF Producing
    <3>2. FiringOf(f, c) = Fired(f.t, MadeBy(f, c))
      BY ONLY <1>12, <3>1, FiringCases
    <3> QED BY ONLY <2>1, <3>2
  <2>3. ASSUME NEW p \in Place
        PROVE  Around(tokens', f, c, p) = Around(tokens, f, d, p) + Bit(p = q)
    <3>1. Len(tokens'[p]) = Len(tokens[p]) + Bit(p = q) /\ Bit(p = q) \in Nat
      BY <1>12 DEF Bit
    <3>2. /\ Drawn(c, p) = 0 /\ Drawn(d, p) = 0
          /\ HeldBy(f, c, p) = 0 /\ HeldBy(f, d, p) = 0 /\ Len(tokens[p]) \in Nat
      BY <1>3, <1>5
    <3> QED BY ONLY <3>1, <3>2 DEF Around
  <2>4. Puts(th, c)
    BY <1>2, <1>6, <1>8, <1>9, <1>12, <2>2, <2>3 DEF Puts
  <2> QED BY <1>3, <1>4, <2>4 DEF PlaceOutcome
<1>13. (~Gave(c) \/ Sent(c)) => ~No(c)
  BY DEF Gave, Sent, No, Ok
<1> QED BY <1>3, <1>10, <1>11, <1>12, <1>13

LEMMA PlaceStepOutcome ==
  ASSUME TypeOK, FiresOK, NEW th \in Thread, PlaceStep(th)
  PROVE  PlaceOutcome(th)
<1>1. CASE fire[th].pc \in {"idle", "lock", "guard", "task"}
  <2>1. call[th].pc \in {"idle", "done"}
    BY <1>1, Given DEF FireOK
  <2> QED BY <2>1 DEF PlaceStep, AddCheck, AddSend, AddCount, RemoveReceive,
     RemoveCount, PeekLock, PeekDrain, PeekRefill, PwcLock, PwcDrain, PwcRefill,
     ClearLock, ClearLen, ClearReceive
<1>2. fire[th].pc \in Phases
  BY Given DEF FireType
<1> QED BY <1>1, <1>2, CheckingPlaceOutcome, ConsumingPlaceOutcome,
     RollingBackPlaceOutcome, ProducingPlaceOutcome DEF Phases

-----------------------------------------------------------------------------
(* The types, the records and the firing locks are invariant.               *)
MuInv ==
  \A th \in Thread : HoldsMu(fire[th]) => fireMu[fire[th].t] = th

ExecInv == TypeOK /\ FiresOK /\ MuInv

LEMMA SetOne ==
  ASSUME TypeOK, NEW th \in Thread, NEW f, NEW c, SetFire(th, f), Set(th, c)
  PROVE  /\ \A u \in Thread : fire'[u] = IF u = th THEN f ELSE fire[u]
         /\ \A u \in Thread : call'[u] = IF u = th THEN c ELSE call[u]
BY DEF TypeOK, PlaceTypeOK, SetFire, Set

LEMMA SetOneCall ==
  ASSUME TypeOK, NEW th \in Thread, NEW c, Set(th, c)
  PROVE  \A u \in Thread : call'[u] = IF u = th THEN c ELSE call[u]
BY DEF TypeOK, PlaceTypeOK, Set

LEMMA FireStepType ==
  ASSUME ExecInv, NEW th \in Thread, FireStep(th), Interfere(th)
  PROVE  TypeOK'
<1>1. TypeOK /\ PlaceTypeOK /\ FiresOK
  BY DEF ExecInv, TypeOK
<1>2. UNCHANGED <<tokens, totalTokens, peekMu, before, disturbed, uncounted, lost>>
  BY <1>1, FireStepOutcome DEF history
<1>3. PICK g, c : /\ Becomes(th, g, c)
                  /\ KeepsMu(th, g) \/ TakesMu(th, g) \/ ReleasesMu(th, g)
                  /\ Moves(th, g, c)
  BY <1>1, FireStepOutcome DEF Outcome
<1>4. PlaceTypeOK'
  <2>1. CallsOK'
    BY <1>1, <1>3, SetType DEF Becomes, CallsOK, PlaceTypeOK
  <2> QED BY <1>1, <1>2, <2>1 DEF PlaceTypeOK, CallsOK
<1>5. fire' \in [Thread -> FireType]
  BY <1>1, <1>3 DEF Becomes, SetFire, TypeOK
<1>6. fireMu' \in [Transition -> Thread \cup {None}]
  <2>1. fireMu \in [Transition -> Thread \cup {None}]
    BY <1>1 DEF TypeOK
  <2> QED BY <1>3, <2>1 DEF KeepsMu, TakesMu, ReleasesMu, Unlock
<1>7. committed' \in [Transition -> Nat]
  <2>1. committed \in [Transition -> Nat]
    BY <1>1 DEF TypeOK
  <2>2. \/ committed' = committed
        \/ committed' = [committed EXCEPT ![fire[th].t] = @ + 1]
    BY <1>3 DEF Moves, Stays, Starts, Commits, Aborts
  <2> QED BY <2>1, <2>2
<1>8. calls' \in 0 .. MaxCalls
  <2>1. calls \in 0 .. MaxCalls /\ MaxCalls \in Nat
    BY <1>1, ExecutorAssumption DEF TypeOK
  <2>2. calls' = calls \/ (calls < MaxCalls /\ calls' = calls + 1)
    BY DEF FireStep, Call, Lock, Checked, Guard, Consumed, Task, RolledBack, Produced
  <2> QED BY <2>1, <2>2
<1>9. leaked' \in BOOLEAN
  <2>1. leaked \in BOOLEAN
    BY <1>1 DEF TypeOK
  <2>2. \/ leaked' = leaked \/ leaked' = TRUE
        \/ leaked' = (leaked \/ ~call[th].ok)
    BY DEF FireStep, Call, Lock, Checked, Guard, Consumed, Task, RolledBack, Produced
  <2> QED BY <2>1, <2>2
<1>10. interfered' \subseteq Thread
  BY <1>1 DEF Interfere, TypeOK
<1> QED BY <1>4, <1>5, <1>6, <1>7, <1>8, <1>9, <1>10 DEF TypeOK

LEMMA PlaceStepType ==
  ASSUME TypeOK, NEW th \in Thread, PlaceStep(th), UNCHANGED fireVars, Interfere(th)
  PROVE  TypeOK'
<1>1. PlaceTypeOK'
  BY AddType, RemoveType, PeekType, PwcType, ClearType DEF PlaceStep, TypeOK
<1>2. interfered' \subseteq Thread
  BY DEF Interfere, TypeOK
<1> QED BY <1>1, <1>2 DEF TypeOK, fireVars

LEMMA KeepsFires ==
  ASSUME ExecInv, NEW th \in Thread, Step(th)
  PROVE  FiresOK'
<1>1. TypeOK /\ FiresOK
  BY DEF ExecInv
<1>2. CASE FireStep(th)
  <2>1. PICK g, c : Becomes(th, g, c)
    BY <1>1, <1>2, FireStepOutcome DEF Outcome
  <2> QED BY <1>1, <2>1, SetOne DEF FiresOK, Becomes
<1>3. CASE PlaceStep(th) /\ UNCHANGED fireVars
  <2>1. PICK c : Set(th, c) /\ FireOK(fire[th], c)
    BY <1>1, <1>3, PlaceStepOutcome DEF PlaceOutcome
  <2>2. \A u \in Thread : call'[u] = IF u = th THEN c ELSE call[u]
    BY <1>1, <2>1, SetOneCall
  <2> QED BY <1>1, <1>3, <2>1, <2>2 DEF FiresOK, fireVars
<1> QED BY <1>2, <1>3 DEF Step

(* The lock of a transition has one holder, and no one else takes it away.  *)
LEMMA KeepsLocks ==
  ASSUME ExecInv, NEW th \in Thread, Step(th)
  PROVE  MuInv'
<1>1. TypeOK /\ FiresOK /\ MuInv
  BY DEF ExecInv
<1>2. \A u \in Thread : HoldsMu(fire[u]) => fire[u].t \in Transition
  BY <1>1, Given DEF HoldsMu
<1>3. fireMu \in [Transition -> Thread \cup {None}] /\ None \notin Thread
  BY <1>1, PlaceAssumption DEF TypeOK
<1>4. CASE FireStep(th)
  <2>1. PICK g, c : /\ Becomes(th, g, c)
                    /\ KeepsMu(th, g) \/ TakesMu(th, g) \/ ReleasesMu(th, g)
    BY <1>1, <1>4, FireStepOutcome DEF Outcome
  <2>2. \A u \in Thread : fire'[u] = IF u = th THEN g ELSE fire[u]
    BY <1>1, <2>1, SetOne DEF Becomes
  <2>3. CASE KeepsMu(th, g)
    BY <1>1, <2>2, <2>3 DEF KeepsMu, MuInv
  <2>4. CASE TakesMu(th, g)
    <3>1. ASSUME NEW u \in Thread, u # th, HoldsMu(fire[u])
          PROVE  fireMu'[fire[u].t] = u
      <4>1. fireMu[fire[u].t] = u /\ fire[u].t \in Transition
        BY <1>1, <1>2, <3>1 DEF MuInv
      <4> QED BY <1>3, <2>4, <4>1 DEF TakesMu
    <3>2. fireMu'[g.t] = th
      BY <1>3, <2>4 DEF TakesMu
    <3> QED BY <2>2, <3>1, <3>2 DEF MuInv
  <2>5. CASE ReleasesMu(th, g)
    <3>1. fireMu[fire[th].t] = th
      BY <1>1, <2>5 DEF ReleasesMu, MuInv
    <3>2. ASSUME NEW u \in Thread, u # th, HoldsMu(fire[u])
          PROVE  fireMu'[fire[u].t] = u
      <4>1. fireMu[fire[u].t] = u /\ fire[u].t \in Transition
        BY <1>1, <1>2, <3>2 DEF MuInv
      <4> QED BY <1>3, <2>5, <3>1, <3>2, <4>1 DEF ReleasesMu, Unlock
    <3> QED BY <2>2, <2>5, <3>2 DEF ReleasesMu, MuInv
  <2> QED BY <2>1, <2>3, <2>4, <2>5
<1>5. CASE PlaceStep(th) /\ UNCHANGED fireVars
  BY <1>1, <1>5 DEF MuInv, fireVars
<1> QED BY <1>4, <1>5 DEF Step

LEMMA ExecStep == ASSUME ExecInv, [Next]_vars PROVE ExecInv'
<1>1. CASE UNCHANGED vars
  <2>1. TypeOK'
    BY <1>1 DEF ExecInv, vars, fireVars, placeVars, TypeOK, PlaceTypeOK
  <2>2. FiresOK' /\ MuInv'
    BY <1>1 DEF ExecInv, vars, fireVars, placeVars, FiresOK, MuInv
  <2> QED BY <2>1, <2>2 DEF ExecInv
<1>2. ASSUME NEW th \in Thread, Step(th) PROVE ExecInv'
  <2>1. TypeOK'
    BY <1>2, FireStepType, PlaceStepType DEF Step, ExecInv
  <2> QED BY <1>2, <2>1, KeepsFires, KeepsLocks DEF ExecInv
<1> QED BY <1>1, <1>2 DEF Next

LEMMA ExecInit == ASSUME Init PROVE ExecInv
<1>1. PlaceTypeOK
  <2>1. NoCall \in CallType /\ CallOK(NoCall)
    BY DEF NoCall, Request, CallType, CallOK, Steps, AddSteps, RemoveSteps,
           LockSteps, DrainSteps
  <2>2. totalTokens \in Int
    <3> DEFINE n == [p \in Place |-> Len(tokens[p])]
    <3>1. n \in [Place -> Nat]
      BY ExecutorAssumption DEF Init, PlaceInit
    <3>2. QueueSlots = SlotSet(Place, n)
      BY DEF QueueSlots, SlotSet
    <3> HIDE DEF n
    <3>3. IsFiniteSet(QueueSlots)
      BY <3>1, <3>2, PlaceAssumption, SlotSetFinite
    <3> QED BY <3>3, FS_CardinalityType DEF Init, PlaceInit
  <2>3. /\ tokens \in [Place -> Seq(Token)]
        /\ \A p \in Place : Len(tokens[p]) <= Capacity[p]
    BY ExecutorAssumption DEF Init, PlaceInit
  <2>4. /\ peekMu \in [Place -> Thread \cup {None}]
        /\ call \in [Thread -> CallType] /\ \A th \in Thread : CallOK(call[th])
        /\ before \in [Thread -> Seq(Token)] /\ disturbed \subseteq Thread
        /\ uncounted \in Nat /\ lost \subseteq Token
    BY <2>1 DEF Init, PlaceInit
  <2> QED BY <2>2, <2>3, <2>4 DEF PlaceTypeOK
<1>2. Idle \in FireType /\ Idle.pc = "idle"
  BY DEF Idle, NewFire, FireType, Phases
<1>3. TypeOK
  <2>1. fire \in [Thread -> FireType]
    BY <1>2 DEF Init
  <2>2. fireMu \in [Transition -> Thread \cup {None}]
    BY DEF Init
  <2>3. calls \in 0 .. MaxCalls
    BY ExecutorAssumption DEF Init
  <2>4. committed \in [Transition -> Nat]
    BY DEF Init
  <2>5. leaked \in BOOLEAN /\ interfered \subseteq Thread
    BY DEF Init
  <2> QED BY <1>1, <2>1, <2>2, <2>3, <2>4, <2>5 DEF TypeOK
<1>4. \A th \in Thread : fire[th] = Idle /\ call[th] = NoCall
  BY DEF Init, PlaceInit
<1>5. NoCall.pc = "idle"
  BY DEF NoCall, Request
<1>6. FiresOK
  BY <1>2, <1>4, <1>5 DEF FiresOK, FireOK
<1>7. MuInv
  BY <1>2, <1>4 DEF MuInv, HoldsMu
<1> QED BY <1>3, <1>6, <1>7 DEF ExecInv

LEMMA ExecAlways == Spec => []ExecInv
<1>1. Init => ExecInv
  BY ExecInit
<1>2. ExecInv /\ [Next]_vars => ExecInv'
  BY ExecStep
<1> QED BY <1>1, <1>2, PTL DEF Spec

(* However firings, checks, rollbacks and peeks of all threads overlap      *)
(* (petri/executor.go, petri/place.go), every record, lock, channel and     *)
(* counter keeps its type, and no channel is over its capacity.             *)
THEOREM FiringTypeCorrect == Spec => []TypeOK
<1>1. ExecInv => TypeOK
  BY DEF ExecInv
<1> QED BY <1>1, ExecAlways, PTL

-----------------------------------------------------------------------------
(* The marking and the firings that the token game sees, as functions of    *)
(* the records of all threads.                                              *)
Share(f, c, p) == Drawn(c, p) + HeldBy(f, c, p)
Shares(f, c, p) == [th \in Thread |-> Share(f[th], c[th], p)]

MarkOf(tk, f, c) ==
  [p \in Place |-> Len(tk[p]) + Cardinality(SlotSet(Thread, Shares(f, c, p)))]

FiringsOf(f, c) == [th \in Thread |-> FiringOf(f[th], c[th])]

MarkingRight == Marking = MarkOf(tokens, fire, call)
FiringRight == Firing = FiringsOf(fire, call)

(* No thread holds less than nothing.                                       *)
LEMMA ShareNat ==
  ASSUME TypeOK, FiresOK, NEW th \in Thread, NEW p \in Place
  PROVE  /\ HeldBy(fire[th], call[th], p) \in Nat
         /\ Drawn(call[th], p) \in Nat
         /\ Share(fire[th], call[th], p) \in Nat
<1> DEFINE f == fire[th]  c == call[th]
<1>1. /\ f \in FireType /\ c \in CallType /\ FireOK(f, c)
      /\ f.inputs \in InputSeq /\ PlaceTypeOK
  BY Given
<1>2. Drawn(c, p) \in Nat
  <2>1. c.buf \in Seq(Token)
    BY <1>1 DEF CallType
  <2> QED BY <2>1 DEF Drawn
<1>3. From(f.inputs, p) \in Nat
  BY <1>1, FromType
<1>4. HeldBy(f, c, p) \in Nat
  <2>1. CASE f.pc = "rollback"
    <3>1. f.inputs # <<>>
      BY <1>1, <2>1 DEF FireOK
    <3>2. /\ From(f.inputs, p) = From(Front(f.inputs), p) + Bit(Last(f.inputs).place = p)
          /\ Front(f.inputs) \in InputSeq
      BY <1>1, <3>1, FromFront
    <3>3. From(Front(f.inputs), p) \in Nat
      BY <3>2, FromType
    <3>4. HeldBy(f, c, p) = From(f.inputs, p) - Bit(Gave(c) /\ Last(f.inputs).place = p)
      BY <2>1, HeldCases
    <3> QED BY <1>3, <3>2, <3>3, <3>4 DEF Bit
  <2>2. CASE f.pc = "consume"
    <3>1. HeldBy(f, c, p) = From(f.inputs, p)
                              + Bit(Took(c) /\ InputArcs[f.t][f.arc].place = p)
      BY <2>2, HeldCases
    <3> QED BY <1>3, <3>1 DEF Bit
  <2>3. CASE f.pc \notin {"consume", "rollback"}
    BY <2>3, HeldCases
  <2> QED BY <2>1, <2>2, <2>3
<1> QED BY <1>2, <1>4 DEF Share

LEMMA TotalIs ==
  ASSUME NEW S, NEW n, DOMAIN n = S
  PROVE  Total(n) = Cardinality(SlotSet(S, n))
BY DEF Total, SlotSet

LEMMA RightMarking == TypeOK => MarkingRight
<1> SUFFICES ASSUME TypeOK PROVE MarkingRight
  OBVIOUS
<1>1. ASSUME NEW p \in Place
      PROVE  Total([th \in Thread |-> Peeked(th, p) + Held(th, p)])
               = Cardinality(SlotSet(Thread, Shares(fire, call, p)))
  <2>1. ASSUME NEW th \in Thread
        PROVE  Peeked(th, p) + Held(th, p) = Share(fire[th], call[th], p)
    <3>1. Peeked(th, p) = Drawn(call[th], p)
      BY DEF Peeked, Drawn
    <3>2. Held(th, p) = HeldBy(fire[th], call[th], p)
      BY DEF Held, HeldBy, Removed, Added, Refused, Took, Gave, Ok, Bit
    <3> QED BY <3>1, <3>2 DEF Share
  <2>2. [th \in Thread |-> Peeked(th, p) + Held(th, p)] = Shares(fire, call, p)
    BY <2>1 DEF Shares
  <2>3. DOMAIN Shares(fire, call, p) = Thread
    BY DEF Shares
  <2>4. Total(Shares(fire, call, p)) = Cardinality(SlotSet(Thread, Shares(fire, call, p)))
    BY <2>3, TotalIs
  <2> QED BY <2>2, <2>4
<1> QED BY <1>1 DEF MarkingRight, Marking, MarkOf

LEMMA RightFiring == TypeOK /\ FiresOK => FiringRight
<1> SUFFICES ASSUME TypeOK, FiresOK PROVE FiringRight
  OBVIOUS
<1>1. ASSUME NEW th \in Thread
      PROVE  Firing[th] = FiringOf(fire[th], call[th])
  <2> DEFINE f == fire[th]  c == call[th]
  <2>1. f \in FireType /\ FireOK(f, c)
    BY Given
  <2>2. Refused(th) <=> No(c)
    BY DEF Refused, No
  <2>3. ASSUME f.pc = "produce"
        PROVE  \A p \in Place : Made(th, p) = MadeBy(f, c)[p]
    <3> DEFINE arcs == OutputArcs[f.t]
    <3>1. f.t \in Transition /\ f.arc \in DOMAIN arcs /\ f.n \in Nat /\ f.arc \in Nat
      BY <2>1, <2>3 DEF FireOK, Producing, FireType
    <3>2. IsArcs(arcs)
      BY <3>1, TheArcs
    <3>3. f.arc - 1 \in 0 .. Len(arcs)
      BY <3>1, <3>2, ArcsShape
    <3>4. ASSUME NEW p \in Place PROVE Made(th, p) = MadeBy(f, c)[p]
      <4>1. Weight(SubSeq(arcs, 1, f.arc - 1), p) = Upto(arcs, f.arc - 1, p)
        BY <3>2, <3>3, UptoPrefix
      <4>2. (IF Added(th) THEN 1 ELSE 0) = Bit(Sent(c))
        BY DEF Added, Sent, Ok, Bit
      <4>3. Made(th, p) = Upto(arcs, f.arc - 1, p)
              + (IF arcs[f.arc].place = p THEN f.n + Bit(Sent(c)) ELSE 0)
        BY <4>1, <4>2 DEF Made
      <4>4. MadeBy(f, c)[p] = Partial(arcs, f.arc, f.n + Bit(Sent(c)), p)
        BY DEF MadeBy
      <4> QED BY <3>1, <4>3, <4>4 DEF Partial
    <3> QED BY <3>4
  <2>4. CASE f.pc = "task"
    BY <2>4, FiringCases DEF Firing, Fresh, Fired
  <2>5. CASE f.pc = "produce" /\ ~No(c)
    <3>1. [p \in Place |-> Made(th, p)] = MadeBy(f, c)
      BY <2>3, <2>5 DEF MadeBy
    <3>2. Firing[th] = [trans |-> f.t, made |-> [p \in Place |-> Made(th, p)]]
      BY <2>2, <2>5 DEF Firing
    <3> QED BY <2>5, <3>1, <3>2, FiringCases DEF Fired
  <2>6. CASE f.pc = "produce" /\ No(c)
    BY <2>2, <2>6, FiringCases DEF Firing
  <2>7. CASE f.pc \notin {"task", "produce"}
    BY <2>7, FiringCases DEF Firing
  <2> QED BY <2>4, <2>5, <2>6, <2>7
<1> QED BY <1>1 DEF FiringRight, Firing, FiringsOf

LEMMA Right == ExecInv => MarkingRight /\ FiringRight
  BY RightMarking, RightFiring DEF ExecInv

LEMMA RightNext == ExecInv' => MarkingRight' /\ FiringRight'
  BY Right, PTL

ShareOK(th) ==
  \A p \in Place : /\ HeldBy(fire[th], call[th], p) \in Nat
                   /\ Drawn(call[th], p) \in Nat
                   /\ Share(fire[th], call[th], p) \in Nat

LEMMA SharesNat == ExecInv => \A th \in Thread : ShareOK(th)
  BY ShareNat DEF ExecInv, ShareOK

LEMMA SharesNatNext == ExecInv' => (\A th \in Thread : ShareOK(th))'
  BY SharesNat, PTL

(* When one thread moves, the marking changes by what it had and has.       *)
OneChanges(tk, tk2, f, f2, c, c2, th, p) ==
  /\ Len(tk[p]) \in Nat /\ Len(tk2[p]) \in Nat
  /\ \A u \in Thread : Share(f[u], c[u], p) \in Nat
  /\ Share(f2[th], c2[th], p) \in Nat
  /\ \A u \in Thread : u # th => f2[u] = f[u] /\ c2[u] = c[u]

LEMMA MarkingStep ==
  ASSUME NEW tk, NEW tk2, NEW f, NEW f2, NEW c, NEW c2, NEW th \in Thread,
         NEW p \in Place, OneChanges(tk, tk2, f, f2, c, c2, th, p)
  PROVE  LET old == Len(tk[p]) + Share(f[th], c[th], p)
             new == Len(tk2[p]) + Share(f2[th], c2[th], p) IN
         /\ MarkOf(tk, f, c)[p] \in Nat /\ old \in Nat /\ new \in Nat
         /\ MarkOf(tk, f, c)[p] >= old
         /\ MarkOf(tk2, f2, c2)[p] = MarkOf(tk, f, c)[p] - old + new
<1> DEFINE n == Shares(f, c, p)  m == Shares(f2, c2, p)
           z == [n EXCEPT ![th] = 0]
<1>1. IsFiniteSet(Thread)
  BY PlaceAssumption
<1>2. /\ n \in [Thread -> Nat] /\ m \in [Thread -> Nat]
      /\ \A u \in Thread : u # th => m[u] = n[u]
      /\ n[th] = Share(f[th], c[th], p) /\ m[th] = Share(f2[th], c2[th], p)
  BY DEF Shares, OneChanges
<1> HIDE DEF n, m
<1>3. /\ z \in [Thread -> Nat] /\ z[th] = 0
      /\ \A u \in Thread : u # th => z[u] = n[u]
  BY <1>2
<1> HIDE DEF z
<1>4. /\ Cardinality(SlotSet(Thread, n)) \in Nat
      /\ Cardinality(SlotSet(Thread, m))
           = Cardinality(SlotSet(Thread, n)) - n[th] + m[th]
  BY <1>1, <1>2, SlotReplace
<1>5. /\ Cardinality(SlotSet(Thread, z)) \in Nat
      /\ Cardinality(SlotSet(Thread, z))
           = Cardinality(SlotSet(Thread, n)) - n[th] + 0
  <2>1. IsFiniteSet(SlotSet(Thread, z))
    BY <1>1, <1>3, SlotSetFinite
  <2>2. Cardinality(SlotSet(Thread, z)) = Cardinality(SlotSet(Thread, n)) - n[th] + z[th]
    <3>1. n \in [Thread -> Nat]
      BY <1>2
    <3> QED BY ONLY <1>1, <1>3, <3>1, th \in Thread, SlotReplace
  <2> QED BY <1>3, <2>1, <2>2, FS_CardinalityType
<1>6. Cardinality(SlotSet(Thread, n)) >= n[th]
  BY <1>2, <1>4, <1>5
<1>7. /\ MarkOf(tk, f, c)[p] = Len(tk[p]) + Cardinality(SlotSet(Thread, n))
      /\ MarkOf(tk2, f2, c2)[p] = Len(tk2[p]) + Cardinality(SlotSet(Thread, m))
  BY DEF MarkOf, n, m
<1>8. n[th] \in Nat /\ m[th] \in Nat
  BY <1>2
<1>9. /\ MarkOf(tk, f, c)[p] \in Nat
      /\ MarkOf(tk, f, c)[p] >= Len(tk[p]) + n[th]
      /\ MarkOf(tk2, f2, c2)[p]
           = MarkOf(tk, f, c)[p] - (Len(tk[p]) + n[th]) + (Len(tk2[p]) + m[th])
  <2> DEFINE a == Cardinality(SlotSet(Thread, n))  b == Cardinality(SlotSet(Thread, m))
             M == MarkOf(tk, f, c)[p]  M2 == MarkOf(tk2, f2, c2)[p]
             x == n[th]  y == m[th]  k == Len(tk[p])  k2 == Len(tk2[p])
  <2>1. /\ a \in Nat /\ x \in Nat /\ y \in Nat /\ k \in Nat /\ k2 \in Nat
        /\ b = a - x + y /\ a >= x /\ M = k + a /\ M2 = k2 + b
  BY <1>4, <1>6, <1>7, <1>8
  <2> HIDE DEF a, b, M, M2, x, y, k, k2
  <2>2. M \in Nat /\ M >= k + x /\ M2 = M - (k + x) + (k2 + y)
    BY ONLY <2>1
  <2> QED BY <2>2 DEF M, M2, x, y, k, k2
<1> QED BY <1>2, <1>8, <1>9

LEMMA FireStepFree ==
  ASSUME TypeOK, FiresOK, NEW th \in Thread, FireStep(th)
  PROVE  Free(th) /\ \A p \in Place : Drawn(call[th], p) = 0
<1>1. \/ fire[th].pc \in {"idle", "lock", "guard", "task"}
      \/ call[th].pc = "done"
  BY DEF FireStep, Call, Lock, Checked, Guard, Consumed, Task, RolledBack,
         Produced, Returned
<1>2. Free(th)
  BY <1>1, Given
<1> QED BY <1>2 DEF Free, Drawn, DrainSteps

OnlyMoves(th) ==
  \A u \in Thread : u # th => fire'[u] = fire[u] /\ call'[u] = call[u]

Mine(p, th) == Around(tokens, fire[th], call[th], p)
MineNext(p, th) == Around(tokens', fire'[th], call'[th], p)

(* The marking and the firings after a step of one thread.                  *)
LEMMA OneMoves ==
  ASSUME ExecInv, ExecInv', NEW th \in Thread, OnlyMoves(th)
  PROVE  /\ \A p \in Place :
              /\ Marking[p] \in Nat /\ Mine(p, th) \in Nat /\ MineNext(p, th) \in Nat
              /\ Marking[p] >= Mine(p, th) /\ Mine(p, th) >= Len(tokens[p])
              /\ Mine(p, th) >= HeldBy(fire[th], call[th], p)
              /\ Marking'[p] = Marking[p] - Mine(p, th) + MineNext(p, th)
         /\ Marking = [p \in Place |-> Marking[p]]
         /\ Marking' = [p \in Place |-> Marking'[p]]
         /\ Firing[th] = FiringOf(fire[th], call[th])
         /\ Firing = [u \in Thread |-> Firing[u]]
         /\ \A u \in Thread : Firing[u] = FiringOf(fire[u], call[u])
         /\ Firing' = [Firing EXCEPT ![th] = FiringOf(fire'[th], call'[th])]
<1>1. Marking = MarkOf(tokens, fire, call) /\ Firing = FiringsOf(fire, call)
  BY Right DEF MarkingRight, FiringRight
<1>2. Marking' = MarkOf(tokens', fire', call') /\ Firing' = FiringsOf(fire', call')
  BY RightNext DEF MarkingRight, FiringRight
<1>3. \A u \in Thread : \A p \in Place :
        /\ HeldBy(fire[u], call[u], p) \in Nat
        /\ Drawn(call[u], p) \in Nat
        /\ Share(fire[u], call[u], p) \in Nat
  BY SharesNat DEF ShareOK
<1>4. \A p \in Place :
        /\ HeldBy(fire'[th], call'[th], p) \in Nat
        /\ Drawn(call'[th], p) \in Nat
        /\ Share(fire'[th], call'[th], p) \in Nat
  BY SharesNatNext DEF ShareOK
<1>5. \A p \in Place : Len(tokens[p]) \in Nat /\ Len(tokens'[p]) \in Nat
  <2>1. tokens \in [Place -> Seq(Token)] /\ tokens' \in [Place -> Seq(Token)]
    BY DEF ExecInv, TypeOK, PlaceTypeOK
  <2> QED BY <2>1
<1>6. ASSUME NEW p \in Place
      PROVE  /\ Marking[p] \in Nat /\ Mine(p, th) \in Nat /\ MineNext(p, th) \in Nat
             /\ Marking[p] >= Mine(p, th) /\ Mine(p, th) >= Len(tokens[p])
             /\ Mine(p, th) >= HeldBy(fire[th], call[th], p)
             /\ Marking'[p] = Marking[p] - Mine(p, th) + MineNext(p, th)
  <2> DEFINE old == Len(tokens[p]) + Share(fire[th], call[th], p)
             new == Len(tokens'[p]) + Share(fire'[th], call'[th], p)
  <2>1. Mine(p, th) = old
    BY <1>3, <1>5 DEF Mine, Around, Share
  <2>2. MineNext(p, th) = new
    BY <1>4, <1>5 DEF MineNext, Around, Share
  <2>3. old >= Len(tokens[p]) /\ old >= HeldBy(fire[th], call[th], p)
    BY <1>3, <1>5 DEF Share
  <2>4. /\ MarkOf(tokens, fire, call)[p] \in Nat /\ old \in Nat /\ new \in Nat
        /\ MarkOf(tokens, fire, call)[p] >= old
        /\ MarkOf(tokens', fire', call')[p]
             = MarkOf(tokens, fire, call)[p] - old + new
    <3>1. /\ \A u \in Thread : Share(fire[u], call[u], p) \in Nat
          /\ Share(fire'[th], call'[th], p) \in Nat
          /\ \A u \in Thread : u # th => fire'[u] = fire[u] /\ call'[u] = call[u]
      BY <1>3, <1>4 DEF OnlyMoves
    <3> DEFINE t == tokens  f == fire  c == call
               t2 == tokens'  f2 == fire'  c2 == call'
    <3>2. Len(t[p]) \in Nat /\ Len(t2[p]) \in Nat
      BY <1>5
    <3>3. \A u \in Thread : Share(f[u], c[u], p) \in Nat
      BY <3>1
    <3>4. Share(f2[th], c2[th], p) \in Nat
      BY <3>1
    <3>5. \A u \in Thread : u # th => f2[u] = f[u] /\ c2[u] = c[u]
      BY <3>1
    <3> HIDE DEF t, f, c, t2, f2, c2
    <3>6. LET o == Len(t[p]) + Share(f[th], c[th], p)
              n == Len(t2[p]) + Share(f2[th], c2[th], p) IN
          /\ MarkOf(t, f, c)[p] \in Nat /\ o \in Nat /\ n \in Nat
          /\ MarkOf(t, f, c)[p] >= o
          /\ MarkOf(t2, f2, c2)[p] = MarkOf(t, f, c)[p] - o + n
      <4>1. OneChanges(t, t2, f, f2, c, c2, th, p)
        BY <3>2, <3>3, <3>4, <3>5 DEF OneChanges
      <4> QED BY <4>1, MarkingStep
    <3> QED BY <3>6 DEF t, f, c, t2, f2, c2
  <2> QED BY <1>1, <1>2, <2>1, <2>2, <2>3, <2>4
<1>7. /\ Marking = [p \in Place |-> Marking[p]]
      /\ Marking' = [p \in Place |-> Marking'[p]]
  BY <1>1, <1>2 DEF MarkOf
<1>8. /\ Firing = [u \in Thread |-> Firing[u]]
      /\ \A u \in Thread : Firing[u] = FiringOf(fire[u], call[u])
  BY <1>1 DEF FiringsOf
<1>9. Firing' = [Firing EXCEPT ![th] = FiringOf(fire'[th], call'[th])]
  BY <1>1, <1>2 DEF FiringsOf, OnlyMoves
<1> QED BY <1>6, <1>7, <1>8, <1>9

-----------------------------------------------------------------------------
(* Every step of the threads is a step of the token game, and committed     *)
(* counts the commits.  A token is refused only where Clean turns false.    *)
Clean == ~leaked /\ \A u \in Thread : ~Dirty(fire[u], call[u])

GameStep(th) ==
  \/ UNCHANGED <<Marking, Firing, committed>>
  \/ \E t \in Transition : Game!Start(th, t) /\ UNCHANGED committed
  \/ \E p \in Place : Game!Put(th, p) /\ UNCHANGED committed
  \/ /\ Game!Commit(th)
     /\ committed' = [committed EXCEPT ![Firing[th].trans] = @ + 1]
  \/ Game!Abort(th) /\ UNCHANGED committed
  \/ /\ Game!Fail(th) \/ \E p \in Place : Game!Lose(p)
     /\ UNCHANGED committed /\ ~Clean'

LEMMA FiredNotNone ==
  ASSUME NEW t \in Transition, NEW m \in [Place -> Nat]
  PROVE  /\ Fired(t, m) # None /\ Fired(t, m).trans = t /\ Fired(t, m).made = m
<1>1. Fired(t, m) \in [trans : Transition, made : [Place -> Nat]]
  BY DEF Fired
<1>2. None \notin [trans : Transition, made : [Place -> Nat]]
  BY ExecutorAssumption
<1>3. Fired(t, m).trans = t /\ Fired(t, m).made = m
  BY DEF Fired
<1> QED BY <1>1, <1>2, <1>3

LEMMA NothingMade == [p \in Place |-> 0] \in [Place -> Nat]
  OBVIOUS

LEMMA PreType ==
  ASSUME NEW t \in Transition
  PROVE  /\ Pre[t] \in [Place -> Nat] /\ Post[t] \in [Place -> Nat]
<1>1. \A p \in Place : /\ Weight(InputArcs[t], p) \in Nat
                       /\ Weight(OutputArcs[t], p) \in Nat
  BY TheArcs, WeightType
<1> QED BY <1>1 DEF Pre, Post

(* A transition that has started has its lock.                              *)
LEMMA OneFiring ==
  ASSUME ExecInv, ExecInv', NEW th \in Thread, OnlyMoves(th), HoldsMu(fire'[th]),
         NEW u \in Thread, u # th, FiringOf(fire[u], call[u]) # None
  PROVE  FiringOf(fire[u], call[u]).trans # fire'[th].t
<1>1. /\ fire[u].pc \in {"task", "produce"}
      /\ FiringOf(fire[u], call[u]).trans = fire[u].t
  <2>1. fire[u].pc \in {"task", "produce"}
    BY FiringCases
  <2>2. CASE fire[u].pc = "task"
    BY <2>2, FiringCases DEF Fresh, Fired
  <2>3. CASE fire[u].pc = "produce"
    BY <2>3, FiringCases DEF Fired
  <2> QED BY <2>1, <2>2, <2>3
<1>2. fire'[u] = fire[u] /\ HoldsMu(fire[u])
  BY <1>1 DEF OnlyMoves, HoldsMu
<1>3. \A v \in Thread : HoldsMu(fire'[v]) => fireMu'[fire'[v].t] = v
  BY DEF ExecInv, MuInv
<1>4. fireMu'[fire[u].t] = u /\ fireMu'[fire'[th].t] = th
  BY <1>2, <1>3
<1> QED BY <1>1, <1>4

(* A client step plays a move of the game, or nothing the game sees.        *)
LEMMA FireStepGame ==
  ASSUME ExecInv, ExecInv', NEW th \in Thread, FireStep(th)
  PROVE  GameStep(th) /\ (Clean' => Clean)
<1>1. TypeOK /\ FiresOK
  BY DEF ExecInv
<1>2. PICK g, c : /\ Becomes(th, g, c) /\ Moves(th, g, c)
                  /\ leaked \/ Dirty(fire[th], call[th]) => leaked'
  BY <1>1, FireStepOutcome DEF Outcome
<1>3. tokens' = tokens
  BY <1>1, FireStepOutcome
<1>4. /\ fire'[th] = g /\ call'[th] = c /\ OnlyMoves(th)
  BY <1>1, <1>2, SetOne DEF Becomes, OnlyMoves
<1>5. \A p \in Place : Drawn(call[th], p) = 0 /\ Drawn(c, p) = 0
  BY <1>1, <1>2, FireStepFree DEF Becomes, Drawn
<1>6. \A p \in Place : /\ HeldBy(fire[th], call[th], p) \in Nat
                       /\ HeldBy(g, c, p) \in Nat
                       /\ Len(tokens[p]) \in Nat
  <2>1. \A p \in Place : HeldBy(fire[th], call[th], p) \in Nat
    BY SharesNat DEF ShareOK
  <2>2. \A p \in Place : HeldBy(g, c, p) \in Nat
    BY <1>4, SharesNatNext DEF ShareOK
  <2>3. tokens \in [Place -> Seq(Token)]
    BY <1>1 DEF TypeOK, PlaceTypeOK
  <2> QED BY <2>1, <2>2, <2>3
<1>7. ASSUME NEW p \in Place
      PROVE  /\ Mine(p, th) = Len(tokens[p]) + HeldBy(fire[th], call[th], p)
             /\ MineNext(p, th) = Len(tokens[p]) + HeldBy(g, c, p)
  <2>1. MineNext(p, th) = Around(tokens, g, c, p)
    BY <1>3, <1>4 DEF MineNext
  <2> QED BY <1>5, <1>6, <2>1 DEF Mine, Around
<1>8. \A p \in Place :
        /\ Marking[p] \in Nat /\ Marking[p] >= HeldBy(fire[th], call[th], p)
        /\ Marking'[p] = Marking[p] - HeldBy(fire[th], call[th], p) + HeldBy(g, c, p)
  <2>1. ASSUME NEW p \in Place
        PROVE  /\ Marking[p] \in Nat /\ Marking[p] >= HeldBy(fire[th], call[th], p)
               /\ Marking'[p] = Marking[p] - HeldBy(fire[th], call[th], p) + HeldBy(g, c, p)
    <3>1. /\ Marking[p] \in Nat /\ Mine(p, th) \in Nat
          /\ Marking[p] >= Mine(p, th) /\ Mine(p, th) >= HeldBy(fire[th], call[th], p)
          /\ Marking'[p] = Marking[p] - Mine(p, th) + MineNext(p, th)
      BY <1>4, OneMoves
    <3>2. /\ Len(tokens[p]) \in Nat /\ HeldBy(g, c, p) \in Nat
          /\ HeldBy(fire[th], call[th], p) \in Nat
          /\ Mine(p, th) = Len(tokens[p]) + HeldBy(fire[th], call[th], p)
          /\ MineNext(p, th) = Len(tokens[p]) + HeldBy(g, c, p)
      BY <1>6, <1>7
    <3> QED BY ONLY <3>1, <3>2
  <2> QED BY <2>1
<1>9. /\ Marking = [p \in Place |-> Marking[p]]
      /\ Marking' = [p \in Place |-> Marking'[p]]
      /\ Firing[th] = FiringOf(fire[th], call[th])
      /\ Firing = [u \in Thread |-> Firing[u]]
      /\ \A u \in Thread : Firing[u] = FiringOf(fire[u], call[u])
      /\ Firing' = [Firing EXCEPT ![th] = FiringOf(g, c)]
  BY <1>4, OneMoves
<1>10. Clean' => Clean
  <2>1. ASSUME Clean', ~Clean PROVE FALSE
    <3>1. ~leaked' /\ \A u \in Thread : ~Dirty(fire'[u], call'[u])
      BY <2>1 DEF Clean
    <3>2. ~leaked /\ ~Dirty(fire[th], call[th])
      BY <1>2, <3>1
    <3>3. PICK u \in Thread : Dirty(fire[u], call[u])
      BY <2>1, <3>2 DEF Clean
    <3>4. fire'[u] = fire[u] /\ call'[u] = call[u]
      BY <1>4, <3>2, <3>3 DEF OnlyMoves
    <3> QED BY <3>1, <3>3, <3>4
  <2> QED BY <2>1
<1>11. CASE Stays(th, g, c)
  <2>1. Marking' = Marking
    <3>1. \A p \in Place : Marking'[p] = Marking[p]
      BY <1>6, <1>8, <1>11 DEF Stays
    <3> QED BY <1>9, <3>1
  <2>2. Firing' = Firing
    BY <1>9, <1>11 DEF Stays
  <2> QED BY <1>10, <1>11, <2>1, <2>2 DEF GameStep, Stays
<1>12. CASE Starts(th, g, c)
  <2> DEFINE t == g.t
  <2>1. /\ t \in Transition /\ HoldsMu(g) /\ Firing[th] = None
        /\ FiringOf(g, c) = Fresh(t)
        /\ \A p \in Place : HeldBy(fire[th], call[th], p) = Pre[t][p]
                            /\ HeldBy(g, c, p) = 0
        /\ UNCHANGED committed
    BY <1>9, <1>12 DEF Starts
  <2>2. \A u \in Thread : Firing[u] # None => Firing[u].trans # t
    BY <1>4, <1>9, <2>1, OneFiring
  <2>3. \A p \in Place : Marking[p] >= Pre[t][p] /\ Marking'[p] = Marking[p] - Pre[t][p]
    <3>1. ASSUME NEW p \in Place
          PROVE  Marking[p] >= Pre[t][p] /\ Marking'[p] = Marking[p] - Pre[t][p]
      <4>1. /\ HeldBy(fire[th], call[th], p) = Pre[t][p]
            /\ HeldBy(g, c, p) = 0 /\ HeldBy(fire[th], call[th], p) \in Nat
        BY <1>6, <2>1
      <4> QED BY <1>8, <4>1
    <3> QED BY <3>1
  <2>4. Marking' = [p \in Place |-> Marking[p] - Pre[t][p]]
    BY <1>9, <2>3
  <2>5. Firing' = [Firing EXCEPT ![th] = [trans |-> t, made |-> [p \in Place |-> 0]]]
    BY <1>9, <2>1 DEF Fresh, Fired
  <2> HIDE DEF t
  <2>6. Game!Start(th, t)
    BY <2>1, <2>2, <2>3, <2>4, <2>5 DEF Game!Start
  <2> QED BY <1>10, <2>1, <2>6 DEF GameStep
<1>13. CASE Commits(th, g, c)
  <2> DEFINE t == fire[th].t
  <2>1. /\ t \in Transition /\ Firing[th] = Fired(t, Post[t])
        /\ FiringOf(g, c) = None
        /\ \A p \in Place : HeldBy(g, c, p) = HeldBy(fire[th], call[th], p)
        /\ committed' = [committed EXCEPT ![t] = @ + 1]
    BY <1>9, <1>13 DEF Commits
  <2>2. Firing[th] # None /\ Firing[th].trans = t /\ Firing[th].made = Post[t]
    BY <2>1, PreType, FiredNotNone
  <2>3. Marking' = Marking
    <3>1. \A p \in Place : Marking'[p] = Marking[p]
      BY <1>6, <1>8, <2>1
    <3> QED BY <1>9, <3>1
  <2>4. Firing' = [Firing EXCEPT ![th] = None]
    BY <1>9, <2>1
  <2>5. Game!Commit(th)
    BY <2>2, <2>3, <2>4 DEF Game!Commit
  <2> QED BY <1>10, <2>1, <2>2, <2>5 DEF GameStep
<1>14. CASE Aborts(th, g, c)
  <2> DEFINE t == fire[th].t
  <2>1. /\ t \in Transition /\ Firing[th] = Fresh(t) /\ FiringOf(g, c) = None
        /\ \A p \in Place : HeldBy(fire[th], call[th], p) = 0
                            /\ HeldBy(g, c, p) = Pre[t][p]
        /\ UNCHANGED committed
    BY <1>9, <1>14 DEF Aborts
  <2>2. /\ Firing[th] # None /\ Firing[th].trans = t
        /\ Firing[th].made = [p \in Place |-> 0]
    BY <2>1, NothingMade, FiredNotNone DEF Fresh
  <2>3. ASSUME NEW p \in Place PROVE Marking'[p] = Marking[p] + Pre[t][p]
    <3>1. /\ HeldBy(fire[th], call[th], p) = 0 /\ HeldBy(g, c, p) = Pre[t][p]
          /\ HeldBy(g, c, p) \in Nat
      BY <1>6, <2>1
    <3> QED BY <1>8, <3>1
  <2>4. Marking' = [p \in Place |-> Marking[p] + Pre[t][p]]
    BY <1>9, <2>3
  <2>5. Firing' = [Firing EXCEPT ![th] = None]
    BY <1>9, <2>1
  <2>6. Game!Abort(th)
    BY <2>2, <2>4, <2>5 DEF Game!Abort
  <2> QED BY <1>10, <2>1, <2>6 DEF GameStep
<1> QED BY <1>2, <1>11, <1>12, <1>13, <1>14 DEF Moves

LEMMA PlaceStepGame ==
  ASSUME ExecInv, ExecInv', NEW th \in Thread, PlaceStep(th), UNCHANGED fireVars
  PROVE  GameStep(th) /\ (Clean' => Clean)
<1> DEFINE f == fire[th]
<1>1. TypeOK /\ FiresOK
  BY DEF ExecInv
<1>2. PICK c :
        /\ Set(th, c) /\ ~Dirty(f, call[th])
        /\ Quietly(th, c) \/ Puts(th, c) \/ Fails(th, c) \/ Loses(th, c)
  BY <1>1, PlaceStepOutcome DEF PlaceOutcome
<1>3. /\ fire' = fire /\ call'[th] = c /\ OnlyMoves(th)
      /\ UNCHANGED <<committed, leaked>>
  BY <1>1, <1>2, SetOneCall DEF OnlyMoves, fireVars
<1>4. \A p \in Place :
        /\ Marking[p] \in Nat
        /\ Around(tokens, f, call[th], p) \in Nat /\ Around(tokens', f, c, p) \in Nat
        /\ Marking[p] >= Around(tokens, f, call[th], p)
        /\ Around(tokens, f, call[th], p) >= Len(tokens[p])
        /\ Around(tokens, f, call[th], p) >= HeldBy(f, call[th], p)
        /\ Marking'[p] = Marking[p] - Around(tokens, f, call[th], p)
                           + Around(tokens', f, c, p)
  BY <1>3, OneMoves DEF Mine, MineNext
<1>5. /\ Marking = [p \in Place |-> Marking[p]]
      /\ Marking' = [p \in Place |-> Marking'[p]]
      /\ Firing[th] = FiringOf(f, call[th])
      /\ Firing = [u \in Thread |-> Firing[u]]
      /\ Firing' = [Firing EXCEPT ![th] = FiringOf(f, c)]
  BY <1>3, OneMoves
<1>6. Clean' => Clean
  <2>1. ASSUME Clean', ~Clean PROVE FALSE
    <3>1. ~leaked' /\ \A u \in Thread : ~Dirty(fire'[u], call'[u])
      BY <2>1 DEF Clean
    <3>2. PICK u \in Thread : Dirty(fire[u], call[u])
      BY <1>3, <2>1, <3>1 DEF Clean
    <3>3. fire'[u] = fire[u] /\ call'[u] = call[u]
      BY <1>2, <1>3, <3>2 DEF OnlyMoves
    <3> QED BY <3>1, <3>2, <3>3
  <2> QED BY <2>1
<1>7. Dirty(f, c) => ~Clean'
  BY <1>3 DEF Clean
<1>8. CASE Quietly(th, c)
  <2>1. Marking' = Marking
    <3>1. \A p \in Place : Marking'[p] = Marking[p]
      BY <1>4, <1>8 DEF Quietly
    <3> QED BY <1>5, <3>1
  <2>2. Firing' = Firing
    BY <1>5, <1>8 DEF Quietly
  <2> QED BY <1>3, <1>6, <2>1, <2>2 DEF GameStep
<1>9. CASE Puts(th, c)
  <2>1. PICK q \in Place, m \in [Place -> Nat] :
          /\ FiringOf(f, call[th]) = Fired(f.t, m) /\ m[q] < Post[f.t][q]
          /\ FiringOf(f, c) = Fired(f.t, [m EXCEPT ![q] = @ + 1])
          /\ \A p \in Place : Around(tokens', f, c, p)
                                = Around(tokens, f, call[th], p) + Bit(p = q)
    BY <1>9 DEF Puts
  <2>2. f.t \in Transition
    <3>1. ~Free(th)
      BY DEF Free, PlaceStep, AddCheck, AddSend, AddCount, RemoveReceive,
         RemoveCount, PeekLock, PeekDrain, PeekRefill, PwcLock, PwcDrain,
         PwcRefill, ClearLock, ClearLen, ClearReceive
    <3> QED BY <1>1, <3>1, Given
  <2>3. Firing[th] # None /\ Firing[th].trans = f.t /\ Firing[th].made = m
    BY <1>5, <2>1, <2>2, FiredNotNone
  <2>4. Marking' = [Marking EXCEPT ![q] = @ + 1]
    <3>1. ASSUME NEW p \in Place PROVE Marking'[p] = Marking[p] + Bit(p = q)
      <4>1. Bit(p = q) \in Nat
        BY DEF Bit
      <4> QED BY <1>4, <2>1, <4>1
    <3>2. \A p \in Place : Marking'[p] = IF p = q THEN Marking[p] + 1 ELSE Marking[p]
      BY <1>4, <3>1 DEF Bit
    <3> QED BY <1>5, <3>2
  <2>5. Fired(f.t, [m EXCEPT ![q] = @ + 1])
          = [Fired(f.t, m) EXCEPT !.made = [m EXCEPT ![q] = @ + 1]]
    BY DEF Fired
  <2>6. Firing' = [Firing EXCEPT ![th].made[q] = @ + 1]
    BY <1>5, <2>1, <2>3, <2>5
  <2>7. Game!Put(th, q)
    BY <2>1, <2>3, <2>4, <2>6 DEF Game!Put
  <2> QED BY <1>3, <1>6, <2>7 DEF GameStep
<1>10. CASE Fails(th, c)
  <2>1. PICK q \in Place, m \in [Place -> Nat] :
          /\ FiringOf(f, call[th]) = Fired(f.t, m) /\ m[q] < Post[f.t][q]
          /\ FiringOf(f, c) = None /\ RefusedAt(q) /\ Dirty(f, c)
          /\ \A p \in Place : Around(tokens', f, c, p) = Around(tokens, f, call[th], p)
    BY <1>10 DEF Fails
  <2>2. f.t \in Transition
    <3>1. f.pc \in {"rollback", "produce"}
      BY <2>1 DEF Dirty
    <3> QED BY <1>1, <3>1, Given
  <2>3. Firing[th] # None /\ Firing[th].trans = f.t /\ Firing[th].made = m
    BY <1>5, <2>1, <2>2, FiredNotNone
  <2>4. Marking' = Marking
    <3>1. \A p \in Place : Marking'[p] = Marking[p]
      BY <1>4, <2>1
    <3> QED BY <1>5, <3>1
  <2>5. Game!Refuses(q)
    <3>1. Marking[q] >= Len(tokens[q]) /\ Len(tokens[q]) \in Nat /\ Capacity[q] \in Nat
      <4>1. tokens \in [Place -> Seq(Token)] /\ Capacity[q] \in Nat
        BY <1>1, PlaceAssumption DEF TypeOK, PlaceTypeOK
      <4>2. Len(tokens[q]) \in Nat
        BY <4>1
      <4> QED BY <1>4, <4>1, <4>2
    <3> QED BY <1>4, <2>1, <3>1 DEF Game!Refuses, RefusedAt
  <2>6. Firing' = [Firing EXCEPT ![th] = None]
    BY <1>5, <2>1
  <2>7. Game!Fail(th)
    BY <2>1, <2>3, <2>4, <2>5, <2>6 DEF Game!Fail
  <2> QED BY <1>3, <1>6, <1>7, <2>1, <2>7 DEF GameStep
<1>11. CASE Loses(th, c)
  <2>1. PICK q \in Place :
          /\ FiringOf(f, call[th]) = None /\ FiringOf(f, c) = None
          /\ RefusedAt(q) /\ Dirty(f, c) /\ HeldBy(f, call[th], q) >= 1
          /\ \A p \in Place : Around(tokens', f, c, p)
                                = Around(tokens, f, call[th], p) - Bit(p = q)
    BY <1>11 DEF Loses
  <2>2. Firing' = Firing
    BY <1>5, <2>1
  <2>3. Marking' = [Marking EXCEPT ![q] = @ - 1]
    <3>1. ASSUME NEW p \in Place PROVE Marking'[p] = Marking[p] - Bit(p = q)
      <4>1. Bit(p = q) \in Nat
        BY DEF Bit
      <4> QED BY <1>4, <2>1, <4>1
    <3>2. \A p \in Place : Marking'[p] = IF p = q THEN Marking[p] - 1 ELSE Marking[p]
      BY <1>4, <3>1 DEF Bit
    <3> QED BY <1>5, <3>2
  <2>4. HeldBy(f, call[th], q) \in Nat
    BY SharesNat DEF ShareOK
  <2>5. Marking[q] > 0
    BY <1>4, <2>1, <2>4
  <2>6. Game!Refuses(q)
    <3>1. tokens \in [Place -> Seq(Token)] /\ Capacity[q] \in Nat
      BY <1>1, PlaceAssumption DEF TypeOK, PlaceTypeOK
    <3>2. Len(tokens[q]) \in Nat
      BY <3>1
    <3>3. Marking[q] >= Len(tokens[q])
      BY <1>4, <3>2
    <3> QED BY <1>4, <2>1, <3>1, <3>2, <3>3 DEF Game!Refuses, RefusedAt
  <2>7. Game!Lose(q)
    BY <2>2, <2>3, <2>5, <2>6 DEF Game!Lose
  <2> QED BY <1>3, <1>6, <1>7, <2>1, <2>7 DEF GameStep
<1> QED BY <1>2, <1>8, <1>9, <1>10, <1>11

LEMMA StepGame ==
  ASSUME ExecInv, ExecInv', NEW th \in Thread, Step(th)
  PROVE  GameStep(th) /\ (Clean' => Clean)
BY FireStepGame, PlaceStepGame DEF Step

-----------------------------------------------------------------------------
(* The refinement.                                                          *)
LEMMA AllIdle ==
  ASSUME \A th \in Thread : fire[th].pc = "idle" /\ call[th].pc \in {"idle", "done"}
  PROVE  /\ \A p \in Place : MarkOf(tokens, fire, call)[p] = Len(tokens[p]) + 0
         /\ FiringsOf(fire, call) = [th \in Thread |-> None]
<1>1. ASSUME NEW p \in Place
      PROVE  Cardinality(SlotSet(Thread, Shares(fire, call, p))) = 0
  <2>1. ASSUME NEW th \in Thread PROVE Shares(fire, call, p)[th] = 0
    <3>1. Drawn(call[th], p) = 0
      BY DEF Drawn, DrainSteps
    <3>2. HeldBy(fire[th], call[th], p) = 0
      BY HeldCases
    <3> QED BY <3>1, <3>2 DEF Shares, Share
  <2> QED BY <2>1, SlotZero
<1>2. \A th \in Thread : FiringOf(fire[th], call[th]) = None
  BY FiringCases
<1> QED BY <1>1, <1>2 DEF MarkOf, FiringsOf

LEMMA InitIdle ==
  ASSUME Init
  PROVE  /\ \A th \in Thread : fire[th].pc = "idle" /\ call[th].pc = "idle"
         /\ tokens = InitialTokens
BY DEF Init, PlaceInit, Idle, NewFire, NoCall, Request

LEMMA InitGame == ASSUME Init PROVE Game!GameInit
<1>1. Marking = MarkOf(tokens, fire, call) /\ Firing = FiringsOf(fire, call)
  BY ExecInit, Right DEF MarkingRight, FiringRight
<1>2. /\ \A p \in Place : MarkOf(tokens, fire, call)[p] = Len(tokens[p]) + 0
      /\ FiringsOf(fire, call) = [th \in Thread |-> None]
  BY InitIdle, AllIdle
<1>3. \A p \in Place : Len(InitialTokens[p]) \in Nat
  BY ExecutorAssumption
<1>4. \A p \in Place : Marking[p] = Len(InitialTokens[p])
  BY <1>1, <1>2, <1>3, InitIdle
<1>5. Marking = [p \in Place |-> Len(InitialTokens[p])]
  BY <1>1, <1>4 DEF MarkOf
<1> QED BY <1>1, <1>2, <1>5 DEF Game!GameInit

LEMMA KeepsGame ==
  ASSUME ExecInv, ExecInv', UNCHANGED vars
  PROVE  UNCHANGED <<Marking, Firing, committed>> /\ (Clean' => Clean)
<1>1. UNCHANGED <<tokens, fire, call, committed, leaked>>
  BY DEF vars, placeVars, fireVars
<1>2. Marking = MarkOf(tokens, fire, call) /\ Firing = FiringsOf(fire, call)
  BY Right DEF MarkingRight, FiringRight
<1>3. Marking' = MarkOf(tokens', fire', call') /\ Firing' = FiringsOf(fire', call')
  BY RightNext DEF MarkingRight, FiringRight
<1>4. Clean' => Clean
  BY <1>1 DEF Clean
<1> QED BY <1>1, <1>2, <1>3, <1>4

LEMMA NextGame ==
  ASSUME ExecInv, ExecInv', [Next]_vars
  PROVE  [Game!GameNext]_(Game!gameVars)
<1>1. CASE UNCHANGED vars
  BY <1>1, KeepsGame DEF Game!gameVars
<1>2. ASSUME NEW th \in Thread, Step(th) PROVE [Game!GameNext]_(Game!gameVars)
  <2>1. GameStep(th)
    BY <1>2, StepGame
  <2> QED BY <1>2, <2>1 DEF GameStep, Game!GameNext, Game!gameVars
<1> QED BY <1>1, <1>2 DEF Next

(* Whatever firings, guards, tasks, failures, rollbacks and peeks of all    *)
(* threads overlap (petri/executor.go, petri/place.go), the net plays the   *)
(* token game: a firing takes the inputs of its transition at once or not   *)
(* at all, puts out what its output arcs say, or gives everything back, and *)
(* only a place that refuses a token makes one disappear.                   *)
THEOREM FiringPlaysTokenGame == Spec => RefinesTokenGame
<1>1. Init => Game!GameInit
  BY InitGame
<1>2. ExecInv /\ ExecInv' /\ [Next]_vars => [Game!GameNext]_(Game!gameVars)
  BY NextGame
<1> QED BY <1>1, <1>2, ExecAlways, PTL DEF Spec, RefinesTokenGame, Game!GameSpec

-----------------------------------------------------------------------------
(* The state equation: a ledger of the game, kept by every step but those   *)
(* in which a place refuses a token.                                        *)
FiringRecord == [trans : Transition, made : [Place -> Nat]]

Taken(r, p) == IF r = None THEN 0 ELSE Pre[r.trans][p]
PutIn(r, p) == IF r = None THEN 0 ELSE r.made[p]

TakenBy(fr, p) == [th \in Thread |-> Taken(fr[th], p)]
PutBy(fr, p) == [th \in Thread |-> PutIn(fr[th], p)]
Spent(cm, p) == [t \in Transition |-> cm[t] * Pre[t][p]]
Gained(cm, p) == [t \in Transition |-> cm[t] * Post[t][p]]

Balanced(mk, fr, cm, p) ==
  mk[p] + Cardinality(SlotSet(Thread, TakenBy(fr, p)))
        + Cardinality(SlotSet(Transition, Spent(cm, p)))
    = Len(InitialTokens[p])
        + Cardinality(SlotSet(Thread, PutBy(fr, p)))
        + Cardinality(SlotSet(Transition, Gained(cm, p)))

Ledger == Clean => \A p \in Place : Balanced(Marking, Firing, committed, p)

FiringTypeOK == Firing \in [Thread -> {None} \cup FiringRecord]

LEMMA FiringTyped == ExecInv => FiringTypeOK
<1> SUFFICES ASSUME ExecInv PROVE FiringTypeOK
  OBVIOUS
<1>1. ASSUME NEW th \in Thread
      PROVE  FiringOf(fire[th], call[th]) \in {None} \cup FiringRecord
  <2> DEFINE f == fire[th]  c == call[th]
  <2>1. f \in FireType /\ (f.pc # "idle" => f.t \in Transition)
    BY Given DEF ExecInv
  <2>2. CASE f.pc = "task"
    BY <2>1, <2>2, FiringCases DEF Fresh, Fired, FiringRecord
  <2>3. CASE f.pc = "produce" /\ ~No(c)
    <3>1. IsArcs(OutputArcs[f.t])
      BY <2>1, <2>3, TheArcs
    <3>2. f.arc \in Nat /\ f.n + Bit(Sent(c)) \in Nat
      BY <2>1 DEF FireType, Bit
    <3>3. MadeBy(f, c) \in [Place -> Nat]
      BY <3>1, <3>2, PartialType DEF MadeBy
    <3> QED BY <2>1, <2>3, <3>3, FiringCases DEF Fired, FiringRecord
  <2> QED BY <2>2, <2>3, FiringCases
<1>2. Firing = FiringsOf(fire, call)
  BY Right DEF FiringRight
<1> QED BY <1>1, <1>2 DEF FiringsOf, FiringTypeOK

LEMMA TakenType ==
  ASSUME NEW r \in {None} \cup FiringRecord, NEW p \in Place
  PROVE  Taken(r, p) \in Nat /\ PutIn(r, p) \in Nat
<1>1. CASE r = None
  BY <1>1 DEF Taken, PutIn
<1>2. CASE r # None
  <2>1. r.trans \in Transition /\ r.made \in [Place -> Nat]
    BY <1>2 DEF FiringRecord
  <2>2. Pre[r.trans][p] \in Nat
    BY <2>1, PreType
  <2> QED BY <1>2, <2>1, <2>2 DEF Taken, PutIn
<1> QED BY <1>1, <1>2

SetFiring(fr, th, r) == [fr EXCEPT ![th] = r]

(* The sums over the threads after the firing of one of them changes.       *)
LEMMA FiringSums ==
  ASSUME NEW fr \in [Thread -> {None} \cup FiringRecord], NEW th \in Thread,
         NEW r \in {None} \cup FiringRecord, NEW p \in Place
  PROVE  /\ Cardinality(SlotSet(Thread, TakenBy(fr, p))) \in Nat
         /\ Cardinality(SlotSet(Thread, TakenBy(SetFiring(fr, th, r), p)))
              = Cardinality(SlotSet(Thread, TakenBy(fr, p)))
                  - Taken(fr[th], p) + Taken(r, p)
         /\ Cardinality(SlotSet(Thread, PutBy(fr, p))) \in Nat
         /\ Cardinality(SlotSet(Thread, PutBy(SetFiring(fr, th, r), p)))
              = Cardinality(SlotSet(Thread, PutBy(fr, p)))
                  - PutIn(fr[th], p) + PutIn(r, p)
<1> DEFINE fr2 == SetFiring(fr, th, r)
           n == TakenBy(fr, p)  m == TakenBy(fr2, p)
           k == PutBy(fr, p)  l == PutBy(fr2, p)
<1>1. IsFiniteSet(Thread)
  BY PlaceAssumption
<1>2. /\ fr2 \in [Thread -> {None} \cup FiringRecord] /\ fr2[th] = r
      /\ \A u \in Thread : u # th => fr2[u] = fr[u]
  BY DEF SetFiring
<1> HIDE DEF fr2
<1>3. /\ n \in [Thread -> Nat] /\ m \in [Thread -> Nat]
      /\ n[th] = Taken(fr[th], p) /\ m[th] = Taken(r, p)
      /\ \A u \in Thread : u # th => m[u] = n[u]
  BY <1>2, TakenType DEF TakenBy
<1>4. /\ k \in [Thread -> Nat] /\ l \in [Thread -> Nat]
      /\ k[th] = PutIn(fr[th], p) /\ l[th] = PutIn(r, p)
      /\ \A u \in Thread : u # th => l[u] = k[u]
  BY <1>2, TakenType DEF PutBy
<1> HIDE DEF n, m, k, l
<1>5. /\ Cardinality(SlotSet(Thread, n)) \in Nat
      /\ Cardinality(SlotSet(Thread, m))
           = Cardinality(SlotSet(Thread, n)) - n[th] + m[th]
  BY <1>1, <1>3, SlotReplace
<1>6. /\ Cardinality(SlotSet(Thread, k)) \in Nat
      /\ Cardinality(SlotSet(Thread, l))
           = Cardinality(SlotSet(Thread, k)) - k[th] + l[th]
  BY <1>1, <1>4, SlotReplace
<1> QED BY <1>3, <1>4, <1>5, <1>6 DEF n, m, k, l, fr2

LEMMA OneMore ==
  ASSUME NEW k \in Nat, NEW x \in Nat
  PROVE  k * x \in Nat /\ (k + 1) * x = k * x + x
OBVIOUS

LEMMA CommitSums ==
  ASSUME NEW cm \in [Transition -> Nat], NEW t \in Transition, NEW p \in Place
  PROVE  LET cm2 == [cm EXCEPT ![t] = @ + 1] IN
         /\ Cardinality(SlotSet(Transition, Spent(cm, p))) \in Nat
         /\ Cardinality(SlotSet(Transition, Spent(cm2, p)))
              = Cardinality(SlotSet(Transition, Spent(cm, p))) + Pre[t][p]
         /\ Cardinality(SlotSet(Transition, Gained(cm, p))) \in Nat
         /\ Cardinality(SlotSet(Transition, Gained(cm2, p)))
              = Cardinality(SlotSet(Transition, Gained(cm, p))) + Post[t][p]
<1> DEFINE cm2 == [cm EXCEPT ![t] = @ + 1]
           n == Spent(cm, p)  m == Spent(cm2, p)
           k == Gained(cm, p)  l == Gained(cm2, p)
<1>1. IsFiniteSet(Transition)
  BY ExecutorAssumption
<1>2. /\ cm2 \in [Transition -> Nat] /\ cm2[t] = cm[t] + 1
      /\ \A u \in Transition : u # t => cm2[u] = cm[u]
  OBVIOUS
<1>3. \A u \in Transition : Pre[u][p] \in Nat /\ Post[u][p] \in Nat
  BY PreType
<1> HIDE DEF cm2
<1>4. \A u \in Transition : \A cc \in [Transition -> Nat] :
        cc[u] * Pre[u][p] \in Nat /\ cc[u] * Post[u][p] \in Nat
  BY <1>3, OneMore
<1>5. /\ n \in [Transition -> Nat] /\ m \in [Transition -> Nat]
      /\ k \in [Transition -> Nat] /\ l \in [Transition -> Nat]
  BY <1>2, <1>4 DEF Spent, Gained
<1>6. \A u \in Transition : u # t => m[u] = n[u] /\ l[u] = k[u]
  BY <1>2 DEF Spent, Gained
<1>7. m[t] = n[t] + Pre[t][p] /\ l[t] = k[t] + Post[t][p]
  <2>1. (cm[t] + 1) * Pre[t][p] = cm[t] * Pre[t][p] + Pre[t][p]
    BY <1>3, OneMore
  <2>2. (cm[t] + 1) * Post[t][p] = cm[t] * Post[t][p] + Post[t][p]
    BY <1>3, OneMore
  <2> QED BY <1>2, <2>1, <2>2 DEF Spent, Gained
<1> HIDE DEF n, m, k, l
<1>8. /\ Cardinality(SlotSet(Transition, n)) \in Nat
      /\ Cardinality(SlotSet(Transition, m))
           = Cardinality(SlotSet(Transition, n)) - n[t] + m[t]
  BY <1>1, <1>5, <1>6, SlotReplace
<1>9. /\ Cardinality(SlotSet(Transition, k)) \in Nat
      /\ Cardinality(SlotSet(Transition, l))
           = Cardinality(SlotSet(Transition, k)) - k[t] + l[t]
  BY <1>1, <1>5, <1>6, SlotReplace
<1>10. n[t] \in Nat /\ k[t] \in Nat
  BY <1>5
<1>11. /\ Cardinality(SlotSet(Transition, m))
            = Cardinality(SlotSet(Transition, n)) + Pre[t][p]
       /\ Cardinality(SlotSet(Transition, l))
            = Cardinality(SlotSet(Transition, k)) + Post[t][p]
  BY <1>3, <1>7, <1>8, <1>9, <1>10
<1> QED BY <1>8, <1>9, <1>11 DEF n, m, k, l, cm2

LEMMA MarkingNat ==
  ASSUME ExecInv
  PROVE  \A p \in Place : Marking[p] \in Nat /\ Len(InitialTokens[p]) \in Nat
<1>1. ASSUME NEW p \in Place PROVE Marking[p] \in Nat
  <2>1. Shares(fire, call, p) \in [Thread -> Nat]
    BY SharesNat DEF Shares, ShareOK
  <2>2. IsFiniteSet(SlotSet(Thread, Shares(fire, call, p)))
    BY <2>1, PlaceAssumption, SlotSetFinite
  <2>3. Cardinality(SlotSet(Thread, Shares(fire, call, p))) \in Nat
    BY <2>2, FS_CardinalityType
  <2>4. tokens \in [Place -> Seq(Token)]
    BY DEF ExecInv, TypeOK, PlaceTypeOK
  <2>5. Len(tokens[p]) \in Nat
    BY <2>4
  <2>6. Marking = MarkOf(tokens, fire, call)
    BY Right DEF MarkingRight
  <2> QED BY <2>3, <2>5, <2>6 DEF MarkOf
<1>2. \A p \in Place : Len(InitialTokens[p]) \in Nat
  BY ExecutorAssumption
<1> QED BY <1>1, <1>2

(* What a move of the game does to the two sides of the ledger: mk tokens   *)
(* more at p, the record r for th, and a commit of t or of none.            *)
LEMMA LedgerMove ==
  ASSUME ExecInv, NEW th \in Thread, NEW p \in Place,
         NEW r \in {None} \cup FiringRecord, NEW mk, NEW d \in Int,
         mk[p] = Marking[p] + d,
         d + Taken(r, p) - Taken(Firing[th], p) = PutIn(r, p) - PutIn(Firing[th], p),
         Balanced(Marking, Firing, committed, p)
  PROVE  Balanced(mk, SetFiring(Firing, th, r), committed, p)
<1> DEFINE fr == SetFiring(Firing, th, r)
           M == Marking[p]  I == Len(InitialTokens[p])
           a == Cardinality(SlotSet(Thread, TakenBy(Firing, p)))
           a2 == Cardinality(SlotSet(Thread, TakenBy(fr, p)))
           b == Cardinality(SlotSet(Thread, PutBy(Firing, p)))
           b2 == Cardinality(SlotSet(Thread, PutBy(fr, p)))
           s == Cardinality(SlotSet(Transition, Spent(committed, p)))
           g == Cardinality(SlotSet(Transition, Gained(committed, p)))
           x == Taken(Firing[th], p)  x2 == Taken(r, p)
           y == PutIn(Firing[th], p)  y2 == PutIn(r, p)
<1>1. Firing \in [Thread -> {None} \cup FiringRecord]
  BY FiringTyped DEF FiringTypeOK
<1>2. x \in Nat /\ x2 \in Nat /\ y \in Nat /\ y2 \in Nat
  BY <1>1, TakenType
<1>3. a \in Nat /\ a2 = a - x + x2 /\ b \in Nat /\ b2 = b - y + y2
  BY <1>1, FiringSums
<1>4. s \in Nat /\ g \in Nat
  <2>1. committed \in [Transition -> Nat] /\ IsFiniteSet(Transition)
    BY ExecutorAssumption DEF ExecInv, TypeOK
  <2>2. \A t \in Transition : /\ committed[t] * Pre[t][p] \in Nat
                              /\ committed[t] * Post[t][p] \in Nat
    BY <2>1, PreType, OneMore
  <2>3. Spent(committed, p) \in [Transition -> Nat] /\ Gained(committed, p) \in [Transition -> Nat]
    BY <2>2 DEF Spent, Gained
  <2>4. /\ IsFiniteSet(SlotSet(Transition, Spent(committed, p)))
        /\ IsFiniteSet(SlotSet(Transition, Gained(committed, p)))
    BY <2>1, <2>3, SlotSetFinite
  <2> QED BY <2>4, FS_CardinalityType
<1>5. M \in Nat /\ I \in Nat
  BY MarkingNat
<1>6. M + a + s = I + b + g
  BY DEF Balanced
<1>7. d + x2 - x = y2 - y /\ mk[p] = M + d
  OBVIOUS
<1> HIDE DEF fr, M, I, a, a2, b, b2, s, g, x, x2, y, y2
<1>8. (M + d) + a2 + s = I + b2 + g
  BY ONLY <1>2, <1>3, <1>4, <1>5, <1>6, <1>7, d \in Int
<1>9. mk[p] + a2 + s = I + b2 + g
  BY <1>7, <1>8
<1> QED BY <1>9 DEF Balanced, fr, I, a2, b2, s, g

LEMMA LedgerStep ==
  ASSUME ExecInv, ExecInv', Ledger, NEW th \in Thread, GameStep(th), Clean' => Clean
  PROVE  Ledger'
<1> SUFFICES ASSUME Clean', NEW p \in Place
             PROVE  Balanced(Marking', Firing', committed', p)
  BY DEF Ledger
<1>1. Balanced(Marking, Firing, committed, p)
  BY DEF Ledger
<1>2. Firing \in [Thread -> {None} \cup FiringRecord]
  BY FiringTyped DEF FiringTypeOK
<1>3. \A q \in Place : Marking[q] \in Nat
  BY MarkingNat
<1>4. CASE UNCHANGED <<Marking, Firing, committed>>
  BY <1>1, <1>4
<1>5. ASSUME NEW t \in Transition, Game!Start(th, t), UNCHANGED committed
      PROVE  Balanced(Marking', Firing', committed', p)
  <2> DEFINE r == [trans |-> t, made |-> [q \in Place |-> 0]]
             d == 0 - Pre[t][p]
  <2>1. r \in FiringRecord /\ r # None /\ r.trans = t /\ r.made[p] = 0
    BY NothingMade, FiredNotNone DEF FiringRecord, Fired
  <2>2. /\ Firing[th] = None /\ Firing' = SetFiring(Firing, th, r)
        /\ Marking'[p] = Marking[p] - Pre[t][p]
    BY <1>5 DEF Game!Start, SetFiring
  <2>3. Pre[t][p] \in Nat
    BY PreType
  <2>4. d \in Int /\ Marking'[p] = Marking[p] + d
    BY <1>3, <2>2, <2>3
  <2>5. /\ Taken(r, p) = Pre[t][p] /\ PutIn(r, p) = 0
        /\ Taken(Firing[th], p) = 0 /\ PutIn(Firing[th], p) = 0
    BY <2>1, <2>2 DEF Taken, PutIn
  <2>6. d + Taken(r, p) - Taken(Firing[th], p) = PutIn(r, p) - PutIn(Firing[th], p)
    BY <2>3, <2>5
  <2> HIDE DEF r, d
  <2>7. Balanced(Marking', SetFiring(Firing, th, r), committed, p)
    BY <1>1, <2>1, <2>4, <2>6, LedgerMove
  <2> QED BY <1>5, <2>2, <2>7
<1>6. ASSUME NEW q \in Place, Game!Put(th, q), UNCHANGED committed
      PROVE  Balanced(Marking', Firing', committed', p)
  <2> DEFINE o == Firing[th]
             r == [o EXCEPT !.made = [o.made EXCEPT ![q] = @ + 1]]
             d == Bit(p = q)
  <2>1. o # None /\ o \in FiringRecord
    BY <1>2, <1>6 DEF Game!Put
  <2>2. o.trans \in Transition /\ o.made \in [Place -> Nat]
    BY <2>1 DEF FiringRecord
  <2>3. [o.made EXCEPT ![q] = @ + 1] \in [Place -> Nat]
    BY <2>2
  <2>4. /\ r \in FiringRecord /\ r.trans = o.trans
        /\ r.made = [o.made EXCEPT ![q] = @ + 1]
    BY <2>1, <2>3 DEF FiringRecord
  <2>5. r # None
    <3>1. None \notin FiringRecord
      BY ExecutorAssumption DEF FiringRecord
    <3> QED BY <2>4, <3>1
  <2>6. r.made[p] = o.made[p] + d
    BY <2>2, <2>4 DEF Bit
  <2>7. Firing' = SetFiring(Firing, th, r)
    BY <1>2, <1>6 DEF Game!Put, SetFiring
  <2>8. d \in Int /\ Marking'[p] = Marking[p] + d
    <3>1. Marking' = [Marking EXCEPT ![q] = @ + 1]
      BY <1>6 DEF Game!Put
    <3>2. Marking = [x \in Place |-> Marking[x]]
      BY Right DEF MarkingRight, MarkOf
    <3> QED BY <1>3, <3>1, <3>2 DEF Bit
  <2>9. /\ Taken(r, p) = Taken(o, p)
        /\ PutIn(r, p) = PutIn(o, p) + d
    BY <2>1, <2>4, <2>5, <2>6 DEF Taken, PutIn
  <2>10. Taken(o, p) \in Nat /\ PutIn(o, p) \in Nat
    BY <2>1, TakenType
  <2> HIDE DEF r, d
  <2>11. d + Taken(r, p) - Taken(o, p) = PutIn(r, p) - PutIn(o, p)
    BY <2>8, <2>9, <2>10
  <2>12. Balanced(Marking', SetFiring(Firing, th, r), committed, p)
    BY <1>1, <2>4, <2>8, <2>11, LedgerMove
  <2> QED BY <1>6, <2>7, <2>12
<1>7. ASSUME Game!Abort(th), UNCHANGED committed
      PROVE  Balanced(Marking', Firing', committed', p)
  <2> DEFINE o == Firing[th]  d == Pre[o.trans][p]
  <2>1. o # None /\ o \in FiringRecord
    BY <1>2, <1>7 DEF Game!Abort
  <2>2. /\ o.trans \in Transition /\ o.made[p] = 0
        /\ Firing' = SetFiring(Firing, th, None) /\ Marking'[p] = Marking[p] + d
    BY <1>7, <2>1 DEF FiringRecord, Game!Abort, SetFiring
  <2>3. d \in Nat
    BY <2>2, PreType
  <2>4. /\ Taken(None, p) = 0 /\ PutIn(None, p) = 0
        /\ Taken(o, p) = d /\ PutIn(o, p) = 0
    BY <2>1, <2>2 DEF Taken, PutIn
  <2> HIDE DEF d
  <2>5. d + Taken(None, p) - Taken(o, p) = PutIn(None, p) - PutIn(o, p) /\ d \in Int
    BY <2>3, <2>4
  <2>6. Balanced(Marking', SetFiring(Firing, th, None), committed, p)
    BY <1>1, <2>2, <2>5, LedgerMove
  <2> QED BY <1>7, <2>2, <2>6
<1>8. ASSUME Game!Commit(th), committed' = [committed EXCEPT ![Firing[th].trans] = @ + 1]
      PROVE  Balanced(Marking', Firing', committed', p)
  <2> DEFINE o == Firing[th]  t == o.trans  fr == SetFiring(Firing, th, None)
             cm == [committed EXCEPT ![t] = @ + 1]
  <2>1. o # None /\ o \in FiringRecord
    BY <1>2, <1>8 DEF Game!Commit
  <2>2. /\ t \in Transition /\ o.made = Post[t]
        /\ Firing' = fr /\ Marking' = Marking /\ committed' = cm
    BY <1>8, <2>1 DEF FiringRecord, Game!Commit, SetFiring
  <2>3. Pre[t][p] \in Nat /\ Post[t][p] \in Nat
    BY <2>2, PreType
  <2>4. committed \in [Transition -> Nat]
    BY DEF ExecInv, TypeOK
  <2> DEFINE M == Marking[p]  I == Len(InitialTokens[p])
             a == Cardinality(SlotSet(Thread, TakenBy(Firing, p)))
             a2 == Cardinality(SlotSet(Thread, TakenBy(fr, p)))
             b == Cardinality(SlotSet(Thread, PutBy(Firing, p)))
             b2 == Cardinality(SlotSet(Thread, PutBy(fr, p)))
             s == Cardinality(SlotSet(Transition, Spent(committed, p)))
             s2 == Cardinality(SlotSet(Transition, Spent(cm, p)))
             g == Cardinality(SlotSet(Transition, Gained(committed, p)))
             g2 == Cardinality(SlotSet(Transition, Gained(cm, p)))
             x == Pre[t][p]  y == Post[t][p]
  <2>5. /\ a \in Nat /\ a2 = a - Taken(o, p) + Taken(None, p)
        /\ b \in Nat /\ b2 = b - PutIn(o, p) + PutIn(None, p)
    BY <1>2, FiringSums
  <2>6. /\ Taken(None, p) = 0 /\ PutIn(None, p) = 0
        /\ Taken(o, p) = x /\ PutIn(o, p) = y
    BY <2>1, <2>2 DEF Taken, PutIn
  <2>7. s \in Nat /\ s2 = s + x /\ g \in Nat /\ g2 = g + y
    BY <2>2, <2>4, CommitSums
  <2>8. M \in Nat /\ I \in Nat /\ x \in Nat /\ y \in Nat
    BY <2>3, MarkingNat
  <2>9. M + a + s = I + b + g
    BY <1>1 DEF Balanced
  <2> HIDE DEF M, I, a, a2, b, b2, s, s2, g, g2, x, y
  <2>10. a2 = a - x /\ b2 = b - y
    BY <2>5, <2>6, <2>8
  <2>11. M + a2 + s2 = I + b2 + g2
    BY ONLY <2>5, <2>7, <2>8, <2>9, <2>10
  <2>12. Balanced(Marking, fr, cm, p)
    BY <2>11 DEF Balanced, M, I, a2, b2, s2, g2
  <2> QED BY <2>2, <2>12
<1> QED BY <1>4, <1>5, <1>6, <1>7, <1>8 DEF GameStep

LEMMA NoFirings ==
  ASSUME NEW fr, fr = [th \in Thread |-> None], NEW p
  PROVE  /\ Cardinality(SlotSet(Thread, TakenBy(fr, p))) = 0
         /\ Cardinality(SlotSet(Thread, PutBy(fr, p))) = 0
<1>1. \A th \in Thread : TakenBy(fr, p)[th] = 0 /\ PutBy(fr, p)[th] = 0
  BY DEF TakenBy, PutBy, Taken, PutIn
<1> QED BY <1>1, SlotZero

LEMMA LedgerInit == ASSUME Init PROVE Ledger
<1>1. ASSUME NEW p \in Place PROVE Balanced(Marking, Firing, committed, p)
  <2>1. /\ Marking = [q \in Place |-> Len(InitialTokens[q])]
        /\ Firing = [th \in Thread |-> None]
    BY InitGame DEF Game!GameInit
  <2>2. /\ Cardinality(SlotSet(Thread, TakenBy(Firing, p))) = 0
        /\ Cardinality(SlotSet(Thread, PutBy(Firing, p))) = 0
    BY <2>1, NoFirings
  <2>3. \A t \in Transition : Spent(committed, p)[t] = 0 /\ Gained(committed, p)[t] = 0
    <3>1. \A t \in Transition : committed[t] = 0
      BY DEF Init
    <3>2. \A t \in Transition : Pre[t][p] \in Nat /\ Post[t][p] \in Nat
      BY PreType
    <3>3. \A k \in Nat : 0 * k = 0
      OBVIOUS
    <3> QED BY <3>1, <3>2, <3>3 DEF Spent, Gained
  <2>4. /\ Cardinality(SlotSet(Transition, Spent(committed, p))) = 0
        /\ Cardinality(SlotSet(Transition, Gained(committed, p))) = 0
    BY <2>3, SlotZero
  <2>5. Len(InitialTokens[p]) \in Nat /\ Marking[p] = Len(InitialTokens[p])
    BY <2>1, ExecutorAssumption
  <2> QED BY <2>2, <2>4, <2>5 DEF Balanced
<1> QED BY <1>1 DEF Ledger

LEMMA LedgerNext ==
  ASSUME ExecInv, ExecInv', Ledger, [Next]_vars
  PROVE  Ledger'
<1>1. CASE UNCHANGED vars
  <2>1. UNCHANGED <<Marking, Firing, committed>> /\ (Clean' => Clean)
    BY <1>1, KeepsGame
  <2> QED BY <2>1 DEF Ledger, Balanced
<1>2. ASSUME NEW th \in Thread, Step(th) PROVE Ledger'
  BY <1>2, StepGame, LedgerStep
<1> QED BY <1>1, <1>2 DEF Next

LEMMA LedgerBalances ==
  ASSUME ExecInv, Ledger
  PROVE  StateEquation
<1> SUFFICES ASSUME Quiescent, ~leaked, NEW p \in Place
             PROVE  Len(tokens[p]) + Total([t \in Transition |-> committed[t] * Pre[t][p]])
                      = Len(InitialTokens[p])
                          + Total([t \in Transition |-> committed[t] * Post[t][p]])
  BY DEF StateEquation
<1>1. \A th \in Thread : fire[th].pc = "idle" /\ call[th].pc \in {"idle", "done"}
  <2>1. \A th \in Thread : FireOK(fire[th], call[th]) /\ fire[th].pc = "idle"
    BY DEF ExecInv, FiresOK, Quiescent
  <2> QED BY <2>1 DEF FireOK
<1>2. Clean
  BY <1>1 DEF Clean, Dirty
<1>3. /\ MarkOf(tokens, fire, call)[p] = Len(tokens[p]) + 0
      /\ FiringsOf(fire, call) = [th \in Thread |-> None]
  BY <1>1, AllIdle
<1>4. tokens \in [Place -> Seq(Token)]
  BY DEF ExecInv, TypeOK, PlaceTypeOK
<1>5. Marking[p] = Len(tokens[p]) /\ Firing = [th \in Thread |-> None]
  BY <1>3, <1>4, Right DEF MarkingRight, FiringRight
<1>6. /\ Cardinality(SlotSet(Thread, TakenBy(Firing, p))) = 0
      /\ Cardinality(SlotSet(Thread, PutBy(Firing, p))) = 0
  BY <1>5, NoFirings
<1>7. Balanced(Marking, Firing, committed, p)
  BY <1>2 DEF Ledger
<1>8. /\ Total([t \in Transition |-> committed[t] * Pre[t][p]])
           = Cardinality(SlotSet(Transition, Spent(committed, p)))
      /\ Total([t \in Transition |-> committed[t] * Post[t][p]])
           = Cardinality(SlotSet(Transition, Gained(committed, p)))
  BY TotalIs DEF Spent, Gained
<1>9. Len(tokens[p]) \in Nat /\ Len(InitialTokens[p]) \in Nat
  BY <1>4, ExecutorAssumption
<1> QED BY <1>5, <1>6, <1>7, <1>8, <1>9 DEF Balanced

(* When nothing fires and no place has refused a token that a firing held,  *)
(* what is in the places follows from the number of firings that succeeded  *)
(* alone (petri/executor.go): failed ones leave no trace, however their     *)
(* rollbacks overlapped with other firings.  While firings run, the ledger  *)
(* also counts what they have taken and put out so far.                     *)
THEOREM MarkingFollowsFirings == Spec => []StateEquation
<1>1. Init => Ledger
  BY LedgerInit
<1>2. ExecInv /\ ExecInv' /\ Ledger /\ [Next]_vars => Ledger'
  BY LedgerNext
<1>3. ExecInv /\ Ledger => StateEquation
  BY LedgerBalances
<1> QED BY <1>1, <1>2, <1>3, ExecAlways, PTL DEF Spec
-----------------------------------------------------------------------------
(* A firing that nobody interferes with.  The snapshot of the guard is the  *)
(* heads of the input places one after the other; those of arc i follow     *)
(* position Offset(arcs, i).                                                *)
OffsetFn(arcs, i) == [j \in DOMAIN arcs |-> IF j < i THEN arcs[j].weight ELSE 0]
Offset(arcs, i) == Cardinality(SlotSet(DOMAIN arcs, OffsetFn(arcs, i)))

(* The channel q begins with the w tokens that follow position o of s.      *)
Begins(q, s, o, w) == w <= Len(q) /\ \A k \in 1 .. w : q[k] = s[o + k]

Heads(arcs, s, from, to, tk) ==
  \A i \in from .. to :
    Begins(tk[arcs[i].place], s, Offset(arcs, i), arcs[i].weight)

(* What was seen through the first m arcs is still there.                   *)
Saw(f, m, tk) ==
  /\ Len(f.snapshot) = Offset(InputArcs[f.t], m + 1)
  /\ Heads(InputArcs[f.t], f.snapshot, 1, m, tk)

(* So is what the peek at the arc a has returned.                           *)
Shows(c, a, tk) ==
  Ok(c) => a.weight <= Len(tk[a.place]) /\ c.seen = SubSeq(tk[a.place], 1, a.weight)

(* The inputs are the first o tokens of s.                                  *)
Consumes(f, s, o) == Len(f.inputs) = o /\ \A k \in 1 .. o : f.inputs[k].tok = s[k]

(* The call that takes the next one of the w tokens missing from q.         *)
TakesNext(c, q, s, o, w) ==
  /\ c.pc = "rem_recv" => Begins(q, s, o, w)
  /\ c.pc \in {"rem_count", "done"} => c.tok = s[o + 1] /\ Begins(q, s, o + 1, w - 1)
  /\ c.pc = "done" => c.ok

Position(f) == Offset(InputArcs[f.t], f.arc) + f.n

(* The tokens consumed are those that the snapshot begins with, and those   *)
(* of the arcs to come are still there.                                     *)
Follows(f, tk) ==
  LET arcs == InputArcs[f.t] IN
  /\ Len(f.snapshot) = Offset(arcs, Len(arcs) + 1)
  /\ Consumes(f, f.snapshot, Position(f))
  /\ Heads(arcs, f.snapshot, f.arc + 1, Len(arcs), tk)

Takes(f, c, tk) ==
  LET a == InputArcs[f.t][f.arc] IN
  /\ Follows(f, tk)
  /\ TakesNext(c, tk[a.place], f.snapshot, Position(f), a.weight - f.n)

Sound(f, c, tk) ==
  /\ f.pc = "lock" /\ f.mode = "BatchFire" => Saw(f, Len(InputArcs[f.t]), tk)
  /\ f.pc = "check" => Saw(f, f.arc - 1, tk) /\ Shows(c, InputArcs[f.t][f.arc], tk)
  /\ f.pc = "guard" => Saw(f, Len(InputArcs[f.t]), tk)
  /\ f.pc = "consume" => Takes(f, c, tk)

(* Which peek a check is in, and that it found enough when it began.        *)
Looking(f, c, content) ==
  /\ f.pc = "lock" /\ f.mode = "Fire" => f.snapshot = <<>>
  /\ f.pc = "check" =>
       LET a == InputArcs[f.t][f.arc] IN
       /\ c.pc \in PwcSteps => c.place = a.place /\ c.need = a.weight
       /\ c.pc \in {"pwc_drain", "pwc_refill"} => a.weight <= Len(content)

(* Who comes between the steps of a peek interferes with the firing.        *)
Noticed(th) == th \in disturbed => th \in interfered /\ call[th].pc \in DrainSteps

Judged(f) ==
  f.pc # "idle" /\ f.mode # "FireUnchecked" /\ OneArcPerPlace(f.t)

Attentive(th) ==
  th \notin interfered /\ Judged(fire[th]) => Sound(fire[th], call[th], tokens)

ThreadOK(th) == Looking(fire[th], call[th], before[th]) /\ Noticed(th) /\ Attentive(th)

CareInv == ExecInv /\ QuietInv /\ \A th \in Thread : ThreadOK(th)

LEMMA OffsetType ==
  ASSUME NEW arcs, IsArcs(arcs), NEW i \in Int
  PROVE  /\ OffsetFn(arcs, i) \in [DOMAIN arcs -> Nat]
         /\ Offset(arcs, i) \in Nat
<1>1. OffsetFn(arcs, i) \in [DOMAIN arcs -> Nat]
  BY ArcsShape DEF OffsetFn
<1>2. IsFiniteSet(SlotSet(DOMAIN arcs, OffsetFn(arcs, i)))
  BY <1>1, ArcsShape, SlotSetFinite
<1> QED BY <1>1, <1>2, FS_CardinalityType DEF Offset

LEMMA OffsetFirst ==
  ASSUME NEW arcs, IsArcs(arcs)
  PROVE  Offset(arcs, 1) = 0
<1>1. \A i \in DOMAIN arcs : OffsetFn(arcs, 1)[i] = 0
  BY ArcsShape DEF OffsetFn
<1> HIDE DEF OffsetFn
<1> QED BY <1>1, SlotZero DEF Offset

LEMMA OffsetNext ==
  ASSUME NEW arcs, IsArcs(arcs), NEW k \in DOMAIN arcs
  PROVE  Offset(arcs, k + 1) = Offset(arcs, k) + arcs[k].weight
<1> DEFINE m == OffsetFn(arcs, k + 1)  n == OffsetFn(arcs, k)  D == DOMAIN arcs
           w == arcs[k].weight
<1>1. k \in Int /\ k + 1 \in Int /\ w \in Nat /\ IsFiniteSet(D) /\ k \in D
  BY ArcsShape
<1>2. m \in [D -> Nat] /\ n \in [D -> Nat]
  BY <1>1, OffsetType
<1>3. \A i \in D : i # k => m[i] = n[i]
  BY ArcsShape DEF OffsetFn
<1>4. m[k] = w /\ n[k] = 0
  BY ArcsShape DEF OffsetFn
<1> HIDE DEF m, n, w, D
<1>5. /\ Cardinality(SlotSet(D, n)) \in Nat
      /\ Cardinality(SlotSet(D, m)) = Cardinality(SlotSet(D, n)) - n[k] + m[k]
  BY <1>1, <1>2, <1>3, SlotReplace
<1>6. Cardinality(SlotSet(D, m)) = Cardinality(SlotSet(D, n)) + w
  BY <1>1, <1>4, <1>5
<1> QED BY <1>6 DEF m, n, w, D, Offset

LEMMA OffsetGrows ==
  ASSUME NEW arcs, IsArcs(arcs), NEW i \in Int, NEW k \in Int, i <= k
  PROVE  Offset(arcs, i) <= Offset(arcs, k)
<1> DEFINE m == OffsetFn(arcs, i)  n == OffsetFn(arcs, k)
<1>1. m \in [DOMAIN arcs -> Nat] /\ n \in [DOMAIN arcs -> Nat]
  BY OffsetType
<1>2. \A j \in DOMAIN arcs : m[j] <= n[j]
  BY ArcsShape DEF OffsetFn
<1> HIDE DEF m, n
<1>3. ASSUME NEW e \in SlotSet(DOMAIN arcs, m)
      PROVE  e \in SlotSet(DOMAIN arcs, n)
  <2>1. PICK x \in DOMAIN arcs : \E j \in 1 .. m[x] : e = <<x, j>>
    BY <1>1, <1>3, SlotMember
  <2>2. PICK j \in 1 .. m[x] : e = <<x, j>>
    BY <2>1
  <2>3. j \in 1 .. n[x]
    BY <1>1, <1>2
  <2> QED BY <1>1, <2>2, <2>3, SlotMember
<1>4. IsFiniteSet(SlotSet(DOMAIN arcs, n))
  BY <1>1, ArcsShape, SlotSetFinite
<1>5. Cardinality(SlotSet(DOMAIN arcs, m)) <= Cardinality(SlotSet(DOMAIN arcs, n))
  BY <1>3, <1>4, FS_Subset
<1> QED BY <1>5 DEF m, n, Offset

(* With as many places as arcs, different arcs have different places.       *)
LEMMA OneArcEach ==
  ASSUME NEW t \in Transition, OneArcPerPlace(t)
  PROVE  \A i, j \in DOMAIN InputArcs[t] :
           i # j => InputArcs[t][i].place # InputArcs[t][j].place
<1> DEFINE arcs == InputArcs[t]  D == DOMAIN arcs
           f == [i \in D |-> arcs[i].place]
<1>1. IsArcs(arcs)
  BY TheArcs
<1>2. /\ Len(arcs) \in Nat /\ D = 1 .. Len(arcs) /\ IsFiniteSet(D)
  BY <1>1, ArcsShape
<1>3. Cardinality(D) = Len(arcs)
  BY <1>2, FS_Interval
<1>4. f \in Surjection(D, Inputs(t))
  BY DEF Surjection, Inputs
<1>5. Cardinality(D) = Cardinality(Inputs(t))
  BY <1>3 DEF OneArcPerPlace
<1>6. f \in Injection(D, Inputs(t))
  <2> HIDE DEF f, D
  <2> QED BY <1>2, <1>4, <1>5, FS_SurjSameCardinalityImpliesInj
<1>7. ASSUME NEW i \in D, NEW j \in D, i # j PROVE arcs[i].place # arcs[j].place
  <2>1. f[i] # f[j]
    <3> HIDE DEF f, D
    <3> QED BY <1>6, <1>7, Fun_InjectionProperties
  <2> QED BY <2>1
<1> QED BY <1>7

-----------------------------------------------------------------------------
(* What was seen stays seen as long as the input places stay as they are.   *)
LEMMA HeadsSame ==
  ASSUME NEW arcs, NEW s, NEW from, NEW to, NEW tk, NEW tk2,
         \A i \in from .. to : tk2[arcs[i].place] = tk[arcs[i].place],
         Heads(arcs, s, from, to, tk)
  PROVE  Heads(arcs, s, from, to, tk2)
  BY DEF Heads

LEMMA SoundSame ==
  ASSUME NEW f \in FireType, NEW c, FireOK(f, c), f.pc # "idle", NEW tk, NEW tk2,
         \A p \in Inputs(f.t) : tk2[p] = tk[p], Sound(f, c, tk)
  PROVE  Sound(f, c, tk2)
<1> DEFINE arcs == InputArcs[f.t]  m == Len(arcs)
<1>1. /\ IsArcs(arcs) /\ m \in Nat /\ DOMAIN arcs = 1 .. m
      /\ f.t \in Transition /\ f.arc \in Nat
  <2>1. IsArcs(arcs) /\ f.t \in Transition /\ f.arc \in Nat
    BY TheArcs DEF FireOK, FireType
  <2> QED BY <2>1, ArcsShape
<1>2. \A i \in 1 .. m : tk2[arcs[i].place] = tk[arcs[i].place]
  BY <1>1 DEF Inputs
<1>3. ASSUME NEW k \in Nat, k <= m, Saw(f, k, tk) PROVE Saw(f, k, tk2)
  <2>1. \A i \in 1 .. k : tk2[arcs[i].place] = tk[arcs[i].place]
    BY <1>1, <1>2, <1>3
  <2> QED BY <1>3, <2>1, HeadsSame DEF Saw
<1>4. f.pc \in {"lock", "guard"} /\ Saw(f, m, tk) => Saw(f, m, tk2)
  BY <1>1, <1>3
<1>5. ASSUME f.pc = "check"
      PROVE  Saw(f, f.arc - 1, tk2) /\ Shows(c, arcs[f.arc], tk2)
  <2>1. f.arc \in 1 .. m
    BY <1>1, <1>5 DEF FireOK
  <2>2. Saw(f, f.arc - 1, tk) /\ Shows(c, arcs[f.arc], tk)
    BY <1>5 DEF Sound
  <2>3. f.arc - 1 \in Nat /\ f.arc - 1 <= m
    BY <1>1, <2>1
  <2>4. tk2[arcs[f.arc].place] = tk[arcs[f.arc].place]
    BY <1>2, <2>1
  <2> QED BY <1>3, <2>2, <2>3, <2>4 DEF Shows
<1>6. ASSUME f.pc = "consume" PROVE Takes(f, c, tk2)
  <2>1. f.arc \in 1 .. m
    BY <1>1, <1>6 DEF FireOK, Consuming
  <2>2. Takes(f, c, tk)
    BY <1>6 DEF Sound
  <2>3. tk2[arcs[f.arc].place] = tk[arcs[f.arc].place]
    BY <1>2, <2>1
  <2>4. \A i \in f.arc + 1 .. m : tk2[arcs[i].place] = tk[arcs[i].place]
    BY <1>1, <1>2, <2>1
  <2>5. Heads(arcs, f.snapshot, f.arc + 1, m, tk2)
    BY <2>2, <2>4, HeadsSame DEF Takes, Follows
  <2> QED BY <2>2, <2>3, <2>5 DEF Takes, Follows
<1> QED BY <1>4, <1>5, <1>6 DEF Sound

-----------------------------------------------------------------------------
(* The loops of a firing, where a client step leaves them.                  *)
LEMMA SawNothing ==
  ASSUME NEW f, f.t \in Transition, f.snapshot = <<>>, NEW tk
  PROVE  Saw(f, 0, tk)
<1>1. Offset(InputArcs[f.t], 1) = 0
  BY TheArcs, OffsetFirst
<1> QED BY <1>1 DEF Saw, Heads

LEMMA CheckFromCare ==
  ASSUME TypeOK, NEW th \in Thread, Free(th), NEW f \in FireType,
         f.t \in Transition, f.arc \in 1 .. Len(InputArcs[f.t]) + 1,
         CheckFrom(th, f), UNCHANGED tokens
  PROVE  /\ Looking(fire'[th], call'[th], before'[th])
         /\ fire'[th].mode = f.mode /\ fire'[th].t = f.t
         /\ fire'[th].pc \in {"check", "guard"}
         /\ Saw(f, f.arc - 1, tokens) => Sound(fire'[th], call'[th], tokens')
<1> DEFINE arcs == InputArcs[f.t]
<1>1. IsArcs(arcs) /\ Len(arcs) \in Nat
  BY TheArcs, ArcsShape
<1>2. ASSUME NEW pc \in {"check", "guard"}
      PROVE  LET g == [f EXCEPT !.pc = pc] IN
             /\ g.pc = pc /\ g.t = f.t /\ g.mode = f.mode
             /\ g.snapshot = f.snapshot /\ g.arc = f.arc
  BY DEF FireType
<1>3. CASE f.arc <= Len(arcs)
  <2> DEFINE g == [f EXCEPT !.pc = "check"]
             c == Request("pwc_lock", arcs[f.arc].place, None, arcs[f.arc].weight)
  <2>1. SetFire(th, g) /\ Set(th, c)
    BY <1>3 DEF CheckFrom, CallPeekTokensWithCount
  <2>2. /\ g.pc = "check" /\ g.t = f.t /\ g.mode = f.mode
        /\ g.snapshot = f.snapshot /\ g.arc = f.arc
    BY <1>2
  <2>3. c.pc = "pwc_lock" /\ c.place = arcs[f.arc].place /\ c.need = arcs[f.arc].weight
    BY DEF Request
  <2> HIDE DEF g, c
  <2>4. fire'[th] = g /\ call'[th] = c
    BY <2>1, SetOne
  <2>5. Looking(g, c, before'[th])
    BY <2>2, <2>3 DEF Looking
  <2>6. Saw(f, f.arc - 1, tokens) => Sound(g, c, tokens')
    BY <2>2, <2>3 DEF Sound, Saw, Shows, Ok
  <2> QED BY <2>2, <2>4, <2>5, <2>6
<1>4. CASE ~(f.arc <= Len(arcs))
  <2> DEFINE g == [f EXCEPT !.pc = "guard"]
  <2>1. SetFire(th, g) /\ Set(th, call[th])
    BY <1>4, KeepsCall DEF CheckFrom, TypeOK
  <2>2. /\ g.pc = "guard" /\ g.t = f.t /\ g.mode = f.mode
        /\ g.snapshot = f.snapshot /\ g.arc = f.arc
    BY <1>2
  <2>3. f.arc - 1 = Len(arcs)
    BY <1>1, <1>4
  <2> HIDE DEF g
  <2>4. fire'[th] = g
    BY <2>1, SetOne
  <2>5. Looking(g, call'[th], before'[th])
    BY <2>2 DEF Looking
  <2>6. Saw(f, f.arc - 1, tokens) => Sound(g, call'[th], tokens')
    BY <2>2, <2>3 DEF Sound, Saw
  <2> QED BY <2>2, <2>4, <2>5, <2>6
<1> QED BY <1>3, <1>4

(* A new check starts with nothing seen.                                    *)
LEMMA StartCare ==
  ASSUME TypeOK, NEW th \in Thread, Free(th), NEW f \in FireType,
         f.t \in Transition, f.arc = 1, f.snapshot = <<>>,
         CheckFrom(th, f), UNCHANGED tokens
  PROVE  /\ Looking(fire'[th], call'[th], before'[th])
         /\ Sound(fire'[th], call'[th], tokens')
<1>1. 1 \in 1 .. Len(InputArcs[f.t]) + 1
  BY TheArcs, ArcsShape
<1>2. Saw(f, f.arc - 1, tokens)
  BY SawNothing
<1> QED BY <1>1, <1>2, CheckFromCare

LEMMA ConsumeFromCare ==
  ASSUME TypeOK, NEW th \in Thread, Free(th), NEW f \in FireType,
         f.t \in Transition, Inside(InputArcs[f.t], f), ConsumeFrom(th, f),
         UNCHANGED tokens
  PROVE  LET arcs == InputArcs[f.t] IN
         /\ Looking(fire'[th], call'[th], before'[th])
         /\ fire'[th].mode = f.mode /\ fire'[th].t = f.t
         /\ fire'[th].pc \in {"consume", "task"}
         /\ fire'[th].snapshot = f.snapshot /\ fire'[th].inputs = f.inputs
         /\ fire'[th].pc = "task" <=> f.arc = Len(arcs) + 1
         /\ /\ Follows(f, tokens)
            /\ f.arc \in DOMAIN arcs =>
                 Begins(tokens[arcs[f.arc].place], f.snapshot, Position(f),
                        arcs[f.arc].weight - f.n)
            => Sound(fire'[th], call'[th], tokens')
<1> DEFINE arcs == InputArcs[f.t]
<1>1. IsArcs(arcs) /\ Len(arcs) \in Nat /\ DOMAIN arcs = 1 .. Len(arcs)
      /\ f.arc \in Nat
  BY TheArcs, ArcsShape DEF FireType
<1>2. ASSUME NEW pc \in {"consume", "task"}
      PROVE  LET g == [f EXCEPT !.pc = pc] IN
             /\ g.pc = pc /\ g.t = f.t /\ g.mode = f.mode /\ g.n = f.n
             /\ g.snapshot = f.snapshot /\ g.arc = f.arc /\ g.inputs = f.inputs
  BY DEF FireType
<1>3. CASE f.arc <= Len(arcs)
  <2> DEFINE g == [f EXCEPT !.pc = "consume"]
             c == Request("rem_recv", arcs[f.arc].place, None, 0)
  <2>1. SetFire(th, g) /\ Set(th, c)
    BY <1>3 DEF ConsumeFrom, CallRemoveToken
  <2>2. /\ g.pc = "consume" /\ g.t = f.t /\ g.mode = f.mode /\ g.n = f.n
        /\ g.snapshot = f.snapshot /\ g.arc = f.arc /\ g.inputs = f.inputs
    BY <1>2
  <2>3. c.pc = "rem_recv"
    BY DEF Request
  <2>7. f.arc \in DOMAIN arcs /\ f.arc # Len(arcs) + 1
    BY <1>1, <1>3 DEF Inside
  <2> HIDE DEF g, c
  <2>4. fire'[th] = g /\ call'[th] = c
    BY <2>1, SetOne
  <2>5. Looking(g, c, before'[th])
    BY <2>2 DEF Looking
  <2>6. ASSUME Follows(f, tokens),
               Begins(tokens[arcs[f.arc].place], f.snapshot, Position(f),
                      arcs[f.arc].weight - f.n)
        PROVE  Sound(g, c, tokens')
    <3>1. Follows(g, tokens) /\ Position(g) = Position(f)
      BY <2>2, <2>6 DEF Follows, Position, Consumes
    <3>2. TakesNext(c, tokens[arcs[f.arc].place], f.snapshot, Position(f),
                    arcs[f.arc].weight - f.n)
      BY <2>3, <2>6 DEF TakesNext
    <3>3. Takes(g, c, tokens)
      BY <2>2, <3>1, <3>2 DEF Takes
    <3> QED BY <2>2, <3>3 DEF Sound
  <2> QED BY <2>2, <2>4, <2>5, <2>6, <2>7
<1>4. CASE ~(f.arc <= Len(arcs))
  <2> DEFINE g == [f EXCEPT !.pc = "task"]
  <2>1. SetFire(th, g) /\ Set(th, call[th])
    BY <1>4, KeepsCall DEF ConsumeFrom, TypeOK
  <2>2. /\ g.pc = "task" /\ g.t = f.t /\ g.mode = f.mode
        /\ g.snapshot = f.snapshot /\ g.inputs = f.inputs
    BY <1>2
  <2>3. f.arc = Len(arcs) + 1
    BY <1>1, <1>4 DEF Inside
  <2> HIDE DEF g
  <2>4. fire'[th] = g
    BY <2>1, SetOne
  <2>5. Looking(g, call'[th], before'[th]) /\ Sound(g, call'[th], tokens')
    BY <2>2 DEF Looking, Sound
  <2> QED BY <2>2, <2>3, <2>4, <2>5
<1> QED BY <1>3, <1>4

LEMMA FireInternalCare ==
  ASSUME TypeOK, NEW th \in Thread, Free(th), NEW f \in FireType,
         f.t \in Transition, f.inputs = <<>>, FireInternal(th, f),
         UNCHANGED tokens
  PROVE  /\ Looking(fire'[th], call'[th], before'[th])
         /\ fire'[th].mode = f.mode /\ fire'[th].t = f.t
         /\ fire'[th].pc \in {"consume", "task"}
         /\ Saw(f, Len(InputArcs[f.t]), tokens) => Sound(fire'[th], call'[th], tokens')
<1> DEFINE h == Phase(f, "consume")  arcs == InputArcs[f.t]  m == Len(arcs)
<1>1. IsArcs(arcs) /\ m \in Nat /\ DOMAIN arcs = 1 .. m
      /\ \A i \in 1 .. m : arcs[i].weight \in Nat \ {0}
  BY TheArcs, ArcsShape
<1>2. /\ h \in FireType /\ h.t = f.t /\ h.inputs = <<>> /\ h.arc = 1 /\ h.n = 0
      /\ h.mode = f.mode /\ Inside(arcs, h)
  BY <1>1, PhaseStarts DEF Phases
<1>3. h.snapshot = f.snapshot
  BY DEF Phase, FireType
<1>4. ConsumeFrom(th, h)
  BY DEF FireInternal
<1> HIDE DEF h
<1>5. Offset(arcs, 1) = 0
  BY <1>1, OffsetFirst
<1>6. Position(h) = 0
  BY <1>2, <1>5 DEF Position
<1>7. ASSUME Saw(f, m, tokens)
      PROVE  /\ Follows(h, tokens)
             /\ h.arc \in DOMAIN arcs =>
                  Begins(tokens[arcs[h.arc].place], h.snapshot, Position(h),
                         arcs[h.arc].weight - h.n)
  <2>1. Len(h.snapshot) = Offset(arcs, m + 1) /\ Heads(arcs, h.snapshot, 1, m, tokens)
    BY <1>3, <1>7 DEF Saw
  <2>2. Heads(arcs, h.snapshot, 1 + 1, m, tokens)
    BY <1>1, <2>1 DEF Heads
  <2>3. Consumes(h, h.snapshot, 0)
    BY <1>2 DEF Consumes
  <2>4. Follows(h, tokens)
    BY <1>2, <1>6, <2>1, <2>2, <2>3 DEF Follows
  <2>5. ASSUME 1 \in 1 .. m
        PROVE  Begins(tokens[arcs[1].place], h.snapshot, 0, arcs[1].weight - 0)
    <3>1. Begins(tokens[arcs[1].place], h.snapshot, 0, arcs[1].weight)
      BY <1>5, <2>1, <2>5 DEF Heads
    <3> QED BY <1>1, <2>5, <3>1
  <2> QED BY <1>1, <1>2, <1>6, <2>4, <2>5
<1> QED BY <1>2, <1>4, <1>7, ConsumeFromCare

(* Once a firing has its tokens there is nothing to watch.                  *)
LEMMA RestCare ==
  ASSUME NEW g, NEW c, NEW content, NEW tk,
         g.pc \in {"idle", "task", "rollback", "produce"}
  PROVE  Looking(g, c, content) /\ Sound(g, c, tk)
  BY DEF Looking, Sound

(* th starts to check, or is in a phase without anything to watch.          *)
Afresh(th) ==
  /\ Looking(fire'[th], call'[th], before'[th])
  /\ Sound(fire'[th], call'[th], tokens')

LEMMA IdleAfresh ==
  ASSUME TypeOK, NEW th \in Thread, SetFire(th, Idle)
  PROVE  Afresh(th)
<1>1. fire'[th] = Idle /\ Idle.pc = "idle"
  BY DEF TypeOK, SetFire, Idle, NewFire
<1> QED BY <1>1, RestCare DEF Afresh

LEMMA FinishAfresh ==
  ASSUME TypeOK, NEW th \in Thread, Free(th), NEW f \in FireType,
         f.t \in Transition, NEW ok, Finish(th, f, ok), UNCHANGED tokens
  PROVE  Afresh(th) /\ fire'[th].pc # "task"
<1>1. CASE ok /\ f.mode = "BatchFire" /\ f.left > 1
  <2> DEFINE h == NewFire("check", f.mode, f.t, f.left - 1)
  <2>1. CheckFrom(th, h)
    BY <1>1 DEF Finish
  <2>2. /\ "check" \in Phases /\ f.left - 1 \in Nat
        /\ f.mode \in {"Fire", "FireUnchecked", "BatchFire"}
        /\ f.t \in Transition \cup {None}
    BY <1>1 DEF Phases, FireType
  <2>3. h \in FireType /\ h.t = f.t /\ h.arc = 1
    BY <2>2, NewFireType
  <2>4. h.snapshot = <<>>
    BY DEF NewFire
  <2> HIDE DEF h
  <2>5. 1 \in 1 .. Len(InputArcs[f.t]) + 1
    BY TheArcs, ArcsShape
  <2> QED BY <2>1, <2>3, <2>4, <2>5, StartCare, CheckFromCare DEF Afresh
<1>2. CASE ~(ok /\ f.mode = "BatchFire" /\ f.left > 1)
  <2>1. SetFire(th, Idle)
    BY <1>2 DEF Finish
  <2>2. fire'[th].pc = "idle"
    BY <2>1 DEF TypeOK, SetFire, Idle, NewFire
  <2> QED BY <2>1, <2>2, IdleAfresh
<1> QED BY <1>1, <1>2

LEMMA RollbackFromAfresh ==
  ASSUME TypeOK, NEW th \in Thread, Free(th), NEW f \in FireType,
         f.t \in Transition, RollbackFrom(th, f), UNCHANGED tokens
  PROVE  Afresh(th) /\ fire'[th].pc # "task"
<1>1. CASE Finish(th, f, FALSE)
  BY <1>1, FinishAfresh
<1>2. CASE SetFire(th, [f EXCEPT !.pc = "rollback"])
  <2>1. fire'[th] = [f EXCEPT !.pc = "rollback"]
    BY <1>2 DEF TypeOK, SetFire
  <2>2. fire'[th].pc = "rollback"
    BY <2>1 DEF FireType
  <2> QED BY <2>2, RestCare DEF Afresh
<1> QED BY <1>1, <1>2 DEF RollbackFrom

LEMMA ProduceFromAfresh ==
  ASSUME TypeOK, NEW th \in Thread, Free(th), NEW f \in FireType,
         f.t \in Transition, ProduceFrom(th, f), UNCHANGED tokens
  PROVE  Afresh(th)
<1>1. CASE Finish(th, f, TRUE)
  BY <1>1, FinishAfresh
<1>2. CASE SetFire(th, [f EXCEPT !.pc = "produce"])
  <2>1. fire'[th] = [f EXCEPT !.pc = "produce"]
    BY <1>2 DEF TypeOK, SetFire
  <2>2. fire'[th].pc = "produce"
    BY <2>1 DEF FireType
  <2> QED BY <2>2, RestCare DEF Afresh
<1> QED BY <1>1, <1>2 DEF ProduceFrom

-----------------------------------------------------------------------------
(* th goes on with the firing it is in: what it knew of its input places it *)
(* knows of those that are still to come.                                   *)
GoesOn(th) ==
  /\ Looking(fire'[th], call'[th], before'[th])
  /\ fire[th].pc # "idle" /\ fire'[th].t = fire[th].t /\ fire'[th].mode = fire[th].mode
  /\ fire[th].pc = "check" \/ fire'[th].pc # "check"
  /\ Sound(fire[th], call[th], tokens) => Sound(fire'[th], call'[th], tokens')

LEMMA EnabledCare ==
  ASSUME TypeOK, NEW th \in Thread, Free(th), NEW f \in FireType,
         f.t \in Transition, f.inputs = <<>>, Enabled(th, f), UNCHANGED tokens
  PROVE  /\ Looking(fire'[th], call'[th], before'[th])
         /\ fire'[th].mode = f.mode /\ fire'[th].t = f.t /\ fire'[th].pc # "check"
         /\ Saw(f, Len(InputArcs[f.t]), tokens) => Sound(fire'[th], call'[th], tokens')
<1>1. CASE f.mode = "BatchFire"
  <2> DEFINE h == Phase(f, "lock")
  <2>1. /\ h.pc = "lock" /\ h.t = f.t /\ h.mode = f.mode
        /\ h.snapshot = f.snapshot
    BY DEF Phase, FireType
  <2>2. SetFire(th, h)
    BY <1>1 DEF Enabled
  <2> HIDE DEF h
  <2>3. fire'[th] = h
    BY <2>2 DEF TypeOK, SetFire
  <2>4. Saw(f, Len(InputArcs[f.t]), tokens) => Saw(h, Len(InputArcs[h.t]), tokens')
    BY <2>1 DEF Saw
  <2> QED BY <1>1, <2>1, <2>3, <2>4 DEF Looking, Sound
<1>2. CASE f.mode # "BatchFire"
  <2>1. FireInternal(th, f)
    BY <1>2 DEF Enabled
  <2> QED BY <2>1, FireInternalCare
<1> QED BY <1>1, <1>2

(* What the peek at arc k has returned joins what was seen before.          *)
LEMMA SawMore ==
  ASSUME NEW f \in FireType, f.t \in Transition, NEW c \in CallType, Ok(c),
         f.arc \in DOMAIN InputArcs[f.t], NEW tk \in [Place -> Seq(Token)],
         Saw(f, f.arc - 1, tk), Shows(c, InputArcs[f.t][f.arc], tk),
         NEW g, g.t = f.t, g.snapshot = f.snapshot \o c.seen
  PROVE  Saw(g, f.arc, tk)
<1> DEFINE arcs == InputArcs[f.t]  k == f.arc  a == arcs[k]  w == a.weight
           q == tk[a.place]  s == f.snapshot  r == g.snapshot  o == Offset(arcs, k)
<1>1. /\ IsArcs(arcs) /\ DOMAIN arcs = 1 .. Len(arcs) /\ Len(arcs) \in Nat
      /\ k \in Nat /\ k >= 1 /\ w \in Nat /\ w >= 1
      /\ \A i \in DOMAIN arcs : arcs[i].place \in Place
                                /\ arcs[i].weight \in Nat \ {0}
  BY TheArcs, ArcsShape
<1>2. q \in Seq(Token) /\ s \in Seq(Token) /\ c.seen \in Seq(Token)
  BY <1>1 DEF FireType, CallType
<1>3. w <= Len(q) /\ c.seen = SubSeq(q, 1, w)
  BY DEF Shows
<1>4. Len(c.seen) = w /\ \A j \in 1 .. w : c.seen[j] = q[j]
  <2>1. w \in Nat /\ w >= 1 /\ w <= Len(q) /\ Len(q) \in Nat
    <3> HIDE DEF w, q
    <3> QED BY <1>1, <1>2, <1>3
  <2> DEFINE e == SubSeq(q, 1, w)
  <2> HIDE DEF w, q
  <2>2. Len(e) = w /\ \A j \in 1 .. w : e[j] = q[j]
    BY <1>2, <2>1
  <2> QED BY <1>3, <2>2 DEF e
<1>5. /\ o \in Nat /\ Len(s) = o /\ Offset(arcs, k + 1) = o + w
  <2>1. k - 1 + 1 = k /\ k \in Int /\ k \in DOMAIN arcs
    BY <1>1
  <2>2. Len(s) = Offset(arcs, k - 1 + 1)
    BY DEF Saw
  <2>3. o \in Nat /\ Offset(arcs, k + 1) = o + w
    BY <1>1, <2>1, OffsetType, OffsetNext
  <2> QED BY <2>1, <2>2, <2>3
<1>6. /\ Len(r) = Len(s) + Len(c.seen)
      /\ \A j \in 1 .. Len(s) : r[j] = s[j]
      /\ \A j \in 1 .. w : r[Len(s) + j] = c.seen[j]
  <2>1. r = s \o c.seen
    OBVIOUS
  <2> HIDE DEF r, s, w
  <2>2. /\ Len(r) = Len(s) + Len(c.seen)
        /\ \A j \in 1 .. Len(s) + Len(c.seen) :
             r[j] = IF j <= Len(s) THEN s[j] ELSE c.seen[j - Len(s)]
    BY <1>2, <2>1, ConcatProperties
  <2>3. Len(s) \in Nat /\ Len(c.seen) = w /\ w \in Nat
    BY <1>1, <1>2, <1>4
  <2>4. \A j \in 1 .. Len(s) : r[j] = s[j]
    BY <2>2, <2>3
  <2>5. ASSUME NEW j \in 1 .. w PROVE r[Len(s) + j] = c.seen[j]
    <3>1. /\ Len(s) + j \in 1 .. Len(s) + Len(c.seen) /\ ~(Len(s) + j <= Len(s))
          /\ (Len(s) + j) - Len(s) = j
      BY <2>3
    <3> QED BY <2>2, <3>1
  <2> QED BY <2>2, <2>4, <2>5
<1>7. ASSUME NEW i \in 1 .. k - 1
      PROVE  Begins(tk[arcs[i].place], r, Offset(arcs, i), arcs[i].weight)
  <2> DEFINE v == arcs[i].weight  p == Offset(arcs, i)
  <2>1. Begins(tk[arcs[i].place], s, p, v)
    BY <1>7 DEF Saw, Heads
  <2>2. v \in Nat /\ p \in Nat /\ p + v <= o
    <3>1. i \in DOMAIN arcs /\ i \in Int /\ i + 1 <= k
      BY <1>1
    <3>2. Offset(arcs, i + 1) = p + v /\ p \in Nat /\ v \in Nat
      BY <1>1, <3>1, OffsetNext, OffsetType
    <3>3. Offset(arcs, i + 1) <= o
      BY <1>1, <3>1, OffsetGrows
    <3> QED BY <3>2, <3>3
  <2>3. ASSUME NEW j \in 1 .. v PROVE r[p + j] = s[p + j]
    <3>1. p + j \in 1 .. Len(s)
      BY <1>5, <2>2
    <3> QED BY <1>6, <3>1
  <2> HIDE DEF r, s, v, p
  <2> QED BY <2>1, <2>3 DEF Begins, v, p
<1>8. Begins(q, r, o, w)
  <2>1. \A j \in 1 .. w : q[j] = r[o + j]
    BY <1>4, <1>5, <1>6
  <2> QED BY <1>3, <2>1 DEF Begins
<1>9. ASSUME NEW i \in 1 .. k
      PROVE  Begins(tk[arcs[i].place], r, Offset(arcs, i), arcs[i].weight)
  <2>1. i = k \/ i \in 1 .. k - 1
    BY <1>1
  <2> QED BY <1>7, <1>8, <2>1
<1>10. Len(r) = Offset(arcs, k + 1)
  BY <1>4, <1>5, <1>6
<1> QED BY <1>9, <1>10 DEF Saw, Heads

-----------------------------------------------------------------------------
(* The client steps.                                                        *)
LEMMA CallAfresh ==
  ASSUME TypeOK, FiresOK, NEW th \in Thread, Call(th), UNCHANGED tokens
  PROVE  Looking(fire'[th], call'[th], before'[th])
         /\ (fire'[th].mode # "FireUnchecked" => Sound(fire'[th], call'[th], tokens'))
<1>1. Free(th)
  BY Given DEF Call
<1>2. PICK t \in Transition :
        \/ \E mode \in {"Fire", "FireUnchecked"} :
             SetFire(th, NewFire("lock", mode, t, 1))
        \/ CheckFrom(th, NewFire("check", "BatchFire", t, BatchSize))
  BY DEF Call
<1>3. CASE \E mode \in {"Fire", "FireUnchecked"} :
             SetFire(th, NewFire("lock", mode, t, 1))
  <2>1. PICK mode \in {"Fire", "FireUnchecked"} :
          SetFire(th, NewFire("lock", mode, t, 1))
    BY <1>3
  <2>2. fire'[th] = NewFire("lock", mode, t, 1)
    BY <2>1 DEF TypeOK, SetFire
  <2>3. /\ fire'[th].pc = "lock" /\ fire'[th].mode # "BatchFire"
        /\ fire'[th].snapshot = <<>>
    BY <2>2 DEF NewFire
  <2> QED BY <2>3 DEF Looking, Sound
<1>4. CASE CheckFrom(th, NewFire("check", "BatchFire", t, BatchSize))
  <2> DEFINE h == NewFire("check", "BatchFire", t, BatchSize)
  <2>1. "check" \in Phases /\ BatchSize \in Nat /\ t \in Transition \cup {None}
    BY ExecutorAssumption DEF Phases
  <2>2. h \in FireType /\ h.t = t /\ h.arc = 1
    BY <2>1, NewFireType
  <2>3. h.snapshot = <<>>
    BY DEF NewFire
  <2> HIDE DEF h
  <2>4. CheckFrom(th, h)
    BY <1>4 DEF h
  <2> QED BY <1>1, <2>2, <2>3, <2>4, StartCare
<1> QED BY <1>2, <1>3, <1>4

LEMMA LockCare ==
  ASSUME TypeOK, FiresOK, NEW th \in Thread, Lock(th), UNCHANGED tokens,
         Looking(fire[th], call[th], before[th])
  PROVE  \/ Afresh(th)
         \/ GoesOn(th)
         \/ fire'[th].mode = "FireUnchecked" /\ Looking(fire'[th], call'[th], before'[th])
<1> DEFINE f == fire[th]
<1>1. /\ f.pc = "lock" /\ f \in FireType /\ Free(th) /\ f.t \in Transition
      /\ f.inputs = <<>> /\ f.arc = 1
  BY Given DEF Lock, FireOK
<1>2. CASE f.mode = "Fire" /\ CheckFrom(th, f)
  <2>1. f.snapshot = <<>>
    BY <1>1, <1>2 DEF Looking
  <2> HIDE DEF f
  <2> QED BY <1>1, <1>2, <2>1, StartCare DEF Afresh
<1>3. CASE f.mode # "Fire" /\ FireInternal(th, f)
  <2>1. /\ Looking(fire'[th], call'[th], before'[th])
        /\ fire'[th].mode = f.mode /\ fire'[th].t = f.t
        /\ fire'[th].pc \in {"consume", "task"}
        /\ Saw(f, Len(InputArcs[f.t]), tokens) => Sound(fire'[th], call'[th], tokens')
    BY <1>1, <1>3, FireInternalCare
  <2>2. f.mode \in {"FireUnchecked", "BatchFire"}
    BY <1>1, <1>3 DEF FireType
  <2>3. f.mode = "BatchFire" /\ Sound(f, call[th], tokens)
          => Saw(f, Len(InputArcs[f.t]), tokens)
    BY <1>1 DEF Sound
  <2> QED BY <1>1, <2>1, <2>2, <2>3 DEF GoesOn
<1> QED BY <1>2, <1>3 DEF Lock

LEMMA NotEnabledAfresh ==
  ASSUME TypeOK, NEW th \in Thread, NEW f, NotEnabled(th, f)
  PROVE  Afresh(th)
  BY IdleAfresh DEF NotEnabled

LEMMA CheckedCare ==
  ASSUME TypeOK, FiresOK, NEW th \in Thread, Checked(th), UNCHANGED tokens
  PROVE  Afresh(th) \/ GoesOn(th)
<1> DEFINE f == fire[th]  c == call[th]  arcs == InputArcs[f.t]
           g == [f EXCEPT !.arc = @ + 1, !.snapshot = @ \o c.seen]
<1>1. /\ f.pc = "check" /\ f \in FireType /\ c \in CallType /\ Free(th)
      /\ f.t \in Transition /\ f.inputs = <<>> /\ f.arc \in DOMAIN arcs
      /\ c.pc = "done"
  BY Given DEF Checked, Returned, FireOK
<1>2. IsArcs(arcs) /\ Len(arcs) \in Nat /\ DOMAIN arcs = 1 .. Len(arcs)
  BY <1>1, TheArcs, ArcsShape
<1>3. /\ g \in FireType /\ g.t = f.t /\ g.mode = f.mode /\ g.inputs = <<>>
      /\ g.arc = f.arc + 1 /\ g.snapshot = f.snapshot \o c.seen
  <2>1. f.arc + 1 \in Nat /\ f.snapshot \o c.seen \in Seq(Token)
    BY <1>1 DEF FireType, CallType
  <2>2. ASSUME NEW j \in Nat, NEW s \in Seq(Token)
        PROVE  LET h == [f EXCEPT !.arc = j, !.snapshot = s] IN
               /\ h \in FireType /\ h.t = f.t /\ h.mode = f.mode
               /\ h.inputs = f.inputs /\ h.arc = j /\ h.snapshot = s
    BY <1>1 DEF FireType
  <2>3. g = [f EXCEPT !.arc = f.arc + 1, !.snapshot = f.snapshot \o c.seen]
    BY <1>1 DEF FireType
  <2> HIDE DEF g
  <2> QED BY <1>1, <2>1, <2>2, <2>3
<1> HIDE DEF g
<1>4. ASSUME c.ok, Sound(f, c, tokens) PROVE Saw(g, f.arc, tokens)
  <2>1. Saw(f, f.arc - 1, tokens) /\ Shows(c, arcs[f.arc], tokens)
    BY <1>1, <1>4 DEF Sound
  <2>2. tokens \in [Place -> Seq(Token)] /\ Ok(c)
    BY <1>1, <1>4 DEF TypeOK, PlaceTypeOK, Ok
  <2> HIDE DEF f, c
  <2> QED BY <1>1, <1>3, <2>1, <2>2, SawMore
<1>5. CASE NotEnabled(th, f)
  BY <1>5, NotEnabledAfresh
<1>6. CASE c.ok /\ CheckFrom(th, g)
  <2>1. g.arc \in 1 .. Len(InputArcs[g.t]) + 1 /\ g.arc - 1 = f.arc
    BY <1>1, <1>2, <1>3
  <2>2. /\ Looking(fire'[th], call'[th], before'[th])
        /\ fire'[th].mode = g.mode /\ fire'[th].t = g.t
        /\ Saw(g, g.arc - 1, tokens) => Sound(fire'[th], call'[th], tokens')
    BY <1>1, <1>3, <1>6, <2>1, CheckFromCare
  <2> QED BY <1>1, <1>3, <1>4, <1>6, <2>1, <2>2 DEF GoesOn
<1>7. CASE c.ok /\ f.arc = Len(arcs) /\ Enabled(th, g)
  <2>1. /\ Looking(fire'[th], call'[th], before'[th])
        /\ fire'[th].mode = g.mode /\ fire'[th].t = g.t
        /\ Saw(g, Len(InputArcs[g.t]), tokens) => Sound(fire'[th], call'[th], tokens')
    BY <1>1, <1>3, <1>7, EnabledCare
  <2> QED BY <1>1, <1>3, <1>4, <1>7, <2>1 DEF GoesOn
<1> QED BY <1>5, <1>6, <1>7 DEF Checked, g

LEMMA GuardCare ==
  ASSUME TypeOK, FiresOK, NEW th \in Thread, Guard(th), UNCHANGED tokens
  PROVE  Afresh(th) \/ GoesOn(th)
<1> DEFINE f == fire[th]
<1>1. /\ f.pc = "guard" /\ f \in FireType /\ Free(th) /\ f.t \in Transition
      /\ f.inputs = <<>>
  BY Given DEF Guard, FireOK
<1>2. CASE NotEnabled(th, f)
  BY <1>2, NotEnabledAfresh
<1>3. CASE Enabled(th, f)
  <2>1. /\ Looking(fire'[th], call'[th], before'[th])
        /\ fire'[th].mode = f.mode /\ fire'[th].t = f.t /\ fire'[th].pc # "check"
        /\ Saw(f, Len(InputArcs[f.t]), tokens) => Sound(fire'[th], call'[th], tokens')
    BY <1>1, <1>3, EnabledCare
  <2>2. Sound(f, call[th], tokens) => Saw(f, Len(InputArcs[f.t]), tokens)
    BY <1>1 DEF Sound
  <2> QED BY <1>1, <2>1, <2>2 DEF GoesOn
<1> QED BY <1>2, <1>3 DEF Guard

LEMMA EndCare ==
  ASSUME TypeOK, FiresOK, NEW th \in Thread, UNCHANGED tokens,
         Task(th) \/ RolledBack(th) \/ Produced(th)
  PROVE  Afresh(th)
<1> DEFINE f == fire[th]
<1>1. /\ f \in FireType /\ Free(th) /\ f.t \in Transition
      /\ f.inputs \in InputSeq
  BY Given DEF Task, RolledBack, Produced, Returned
<1>2. CASE Task(th)
  <2>1. Phase(f, "produce") \in FireType /\ Phase(f, "produce").t = f.t
    BY <1>1, PhaseStarts DEF Phases
  <2> QED BY <1>1, <1>2, <2>1, ProduceFromAfresh, RollbackFromAfresh DEF Task
<1>3. CASE RolledBack(th)
  <2> DEFINE h == [f EXCEPT !.inputs = Front(@)]
  <2>1. f.inputs # <<>>
    BY <1>3, Given DEF RolledBack, Returned, FireOK
  <2>2. Front(f.inputs) \in InputSeq
    BY <1>1, <2>1, FromFront
  <2>3. h \in FireType /\ h.t = f.t
    BY <1>1, <2>2 DEF FireType, InputSeq
  <2> HIDE DEF h
  <2>4. RollbackFrom(th, h)
    BY <1>3 DEF RolledBack, h
  <2> QED BY <1>1, <2>3, <2>4, RollbackFromAfresh
<1>4. CASE Produced(th)
  <2>1. CASE Finish(th, f, FALSE)
    BY <1>1, <2>1, FinishAfresh
  <2>2. CASE ProduceFrom(th, Advance(f, OutputArcs[f.t]))
    <3>1. /\ IsArcs(OutputArcs[f.t]) /\ f.arc \in DOMAIN OutputArcs[f.t]
          /\ f.n < OutputArcs[f.t][f.arc].weight
      BY <1>1, <1>4, Given, TheArcs DEF Produced, Returned, FireOK, Producing
    <3>2. /\ Advance(f, OutputArcs[f.t]) \in FireType
          /\ Advance(f, OutputArcs[f.t]).t = f.t
      BY <1>1, <3>1, AdvancePartial
    <3> QED BY <1>1, <2>2, <3>2, ProduceFromAfresh
  <2> QED BY <1>4, <2>1, <2>2 DEF Produced
<1> QED BY <1>2, <1>3, <1>4

(* The token that RemoveToken has returned is the next one of the snapshot. *)
LEMMA TakenNext ==
  ASSUME NEW f \in FireType, f.t \in Transition, NEW c, c.pc = "done",
         f.arc \in DOMAIN InputArcs[f.t], f.n < InputArcs[f.t][f.arc].weight,
         f.inputs \in InputSeq, NEW tk, Takes(f, c, tk), NEW x, x.tok = c.tok,
         NEW e \in FireType, e.t = f.t, e.arc = f.arc, e.n = f.n,
         e.snapshot = f.snapshot, e.inputs = Append(f.inputs, x)
  PROVE  LET arcs == InputArcs[f.t]
             h == Advance(e, arcs) IN
         /\ c.ok /\ Follows(h, tk)
         /\ h.arc \in DOMAIN arcs =>
              Begins(tk[arcs[h.arc].place], h.snapshot, Position(h),
                     arcs[h.arc].weight - h.n)
<1> DEFINE arcs == InputArcs[f.t]  h == Advance(e, arcs)  s == f.snapshot
           o == Position(f)  a == arcs[f.arc]  w == a.weight  m == Len(arcs)
<1>1. /\ IsArcs(arcs) /\ DOMAIN arcs = 1 .. m /\ m \in Nat
      /\ f.arc \in Nat /\ f.arc \in 1 .. m /\ f.n \in Nat /\ w \in Nat
      /\ \A i \in DOMAIN arcs : arcs[i].weight \in Nat
  BY TheArcs, ArcsShape DEF FireType
<1>2. /\ Len(s) = Offset(arcs, m + 1) /\ Consumes(f, s, o)
      /\ Heads(arcs, s, f.arc + 1, m, tk)
      /\ c.ok /\ c.tok = s[o + 1] /\ Begins(tk[a.place], s, o + 1, w - f.n - 1)
  BY DEF Takes, Follows, TakesNext
<1>3. /\ o = Offset(arcs, f.arc) + f.n /\ o \in Nat
      /\ Offset(arcs, f.arc + 1) = Offset(arcs, f.arc) + w
      /\ Offset(arcs, f.arc) \in Nat
  <2>1. Offset(arcs, f.arc) \in Nat
    <3>1. f.arc \in Int /\ IsArcs(arcs)
      BY <1>1
    <3> QED BY <3>1, OffsetType
  <2>2. Offset(arcs, f.arc + 1) = Offset(arcs, f.arc) + w
    BY <1>1, OffsetNext
  <2>3. o = Offset(arcs, f.arc) + f.n
    BY DEF Position
  <2> QED BY <1>1, <2>1, <2>2, <2>3
<1>4. Consumes(e, s, o + 1)
  <2>1. Len(f.inputs) = o /\ \A k \in 1 .. o : f.inputs[k].tok = s[k]
    BY <1>2 DEF Consumes
  <2> DEFINE u == f.inputs  v == e.inputs
  <2>2. /\ Len(v) = o + 1 /\ v[o + 1] = x
        /\ \A k \in 1 .. o : v[k] = u[k]
    <3>1. u \in InputSeq /\ v = Append(u, x) /\ Len(u) = o
      BY <2>1
    <3> HIDE DEF u, v, o
    <3> QED BY <1>3, <3>1 DEF InputSeq
  <2> HIDE DEF o
  <2>3. ASSUME NEW k \in 1 .. o + 1 PROVE v[k].tok = s[k]
    <3>1. k = o + 1 \/ k \in 1 .. o
      BY <1>3
    <3>2. v[o + 1].tok = s[o + 1]
      BY <1>2, <2>2
    <3>3. \A j \in 1 .. o : v[j].tok = s[j]
      BY <2>1, <2>2
    <3> QED BY <3>1, <3>2, <3>3
  <2> QED BY <2>2, <2>3 DEF Consumes
<1>5. /\ h.t = f.t /\ h.snapshot = s /\ h.inputs = e.inputs
      /\ \/ f.n + 1 < w /\ h.arc = f.arc /\ h.n = f.n + 1
         \/ f.n + 1 = w /\ h.arc = f.arc + 1 /\ h.n = 0
  <2>1. CASE f.n + 1 < w
    BY <2>1 DEF Advance, FireType
  <2>2. CASE ~(f.n + 1 < w)
    <3>1. f.n + 1 = w
      BY <1>1, <2>2
    <3> QED BY <2>2, <3>1 DEF Advance, FireType
  <2> QED BY <2>1, <2>2
<1> HIDE DEF h, s, o
<1>6. Position(h) = o + 1
  <2>1. Position(h) = Offset(arcs, h.arc) + h.n
    BY <1>5 DEF Position
  <2> HIDE DEF arcs, w
  <2>2. CASE h.arc = f.arc /\ h.n = f.n + 1
    <3>1. Position(h) = Offset(arcs, f.arc) + (f.n + 1)
      BY <2>1, <2>2
    <3> QED BY <1>1, <1>3, <3>1
  <2>3. CASE f.n + 1 = w /\ h.arc = f.arc + 1 /\ h.n = 0
    <3>1. Position(h) = Offset(arcs, f.arc) + w + 0
      BY <1>3, <2>1, <2>3
    <3> QED BY <1>1, <1>3, <2>3, <3>1
  <2> QED BY <1>5, <2>2, <2>3
<1>7. Consumes(h, s, o + 1)
  BY <1>4, <1>5 DEF Consumes
<1>8. h.arc >= f.arc /\ h.arc \in Nat
  <2>1. f.arc \in Nat /\ (h.arc = f.arc \/ h.arc = f.arc + 1)
    BY <1>1, <1>5
  <2> HIDE DEF arcs, w
  <2> QED BY <2>1
<1>9. Heads(arcs, s, h.arc + 1, m, tk)
  <2>1. f.arc \in Nat /\ m \in Nat
    BY <1>1
  <2>2. \A i \in h.arc + 1 .. m : i \in f.arc + 1 .. m
    <3> HIDE DEF arcs, m
    <3> QED BY <1>8, <2>1
  <2> HIDE DEF arcs, m
  <2> QED BY <1>2, <2>2 DEF Heads
<1>10. Follows(h, tk)
  BY <1>2, <1>5, <1>6, <1>7, <1>9 DEF Follows
<1>11. ASSUME h.arc \in DOMAIN arcs
       PROVE  Begins(tk[arcs[h.arc].place], s, o + 1, arcs[h.arc].weight - h.n)
  <2>1. CASE f.n + 1 < w /\ h.arc = f.arc /\ h.n = f.n + 1
    <3>1. w - f.n - 1 = w - h.n
      BY <1>1, <2>1
    <3> QED BY <1>2, <2>1, <3>1
  <2>2. CASE f.n + 1 = w /\ h.arc = f.arc + 1 /\ h.n = 0
    <3> DEFINE j == f.arc + 1
    <3>1. j \in f.arc + 1 .. m
      BY <1>1, <1>11, <2>2
    <3>2. Begins(tk[arcs[j].place], s, Offset(arcs, j), arcs[j].weight)
      BY <1>2, <3>1 DEF Heads
    <3>3. Offset(arcs, j) = o + 1
      <4> HIDE DEF w
      <4> QED BY <1>1, <1>3, <2>2
    <3>4. arcs[j].weight \in Nat
      BY <1>1, <1>11, <2>2
    <3>5. arcs[j].weight - 0 = arcs[j].weight
      BY <3>4
    <3> QED BY <2>2, <3>2, <3>3, <3>5
  <2> QED BY <1>5, <2>1, <2>2
<1> QED BY <1>2, <1>5, <1>6, <1>10, <1>11 DEF h

(* A firing that has everything has the tokens of the snapshot.             *)
LEMMA AllTaken ==
  ASSUME NEW h \in FireType, h.t \in Transition,
         h.arc = Len(InputArcs[h.t]) + 1, h.n = 0, NEW tk, Follows(h, tk)
  PROVE  [i \in DOMAIN h.inputs |-> h.inputs[i].tok] = h.snapshot
<1> DEFINE s == h.snapshot  v == h.inputs  r == [i \in DOMAIN v |-> v[i].tok]
<1>1. Position(h) = Len(s)
  <2>1. Offset(InputArcs[h.t], h.arc) \in Nat
    <3>1. IsArcs(InputArcs[h.t]) /\ h.arc \in Int
      BY TheArcs DEF FireType
    <3> QED BY <3>1, OffsetType
  <2>2. /\ Len(s) = Offset(InputArcs[h.t], h.arc)
        /\ Position(h) = Offset(InputArcs[h.t], h.arc) + 0
    BY DEF Follows, Position
  <2> QED BY <2>1, <2>2
<1>2. Len(v) = Len(s) /\ \A k \in 1 .. Len(s) : v[k].tok = s[k]
  BY <1>1 DEF Follows, Consumes
<1>3. s \in Seq(Token) /\ v \in Seq([tok : Token, place : Place])
  BY DEF FireType
<1> HIDE DEF s, v
<1>4. DOMAIN v = 1 .. Len(s) /\ DOMAIN s = 1 .. Len(s) /\ Len(s) \in Nat
  BY <1>2, <1>3
<1>5. r = [k \in 1 .. Len(s) |-> s[k]]
  BY <1>2, <1>4
<1>6. s = [k \in 1 .. Len(s) |-> s[k]]
  BY <1>3, <1>4
<1> QED BY <1>5, <1>6 DEF s, v

LEMMA ConsumedCare ==
  ASSUME TypeOK, FiresOK, NEW th \in Thread, Consumed(th), UNCHANGED tokens
  PROVE  /\ Afresh(th) \/ GoesOn(th)
         /\ Sound(fire[th], call[th], tokens) /\ fire'[th].pc # "consume" =>
              /\ fire'[th].pc = "task"
              /\ [i \in DOMAIN fire'[th].inputs |-> fire'[th].inputs[i].tok]
                   = fire[th].snapshot
<1> DEFINE f == fire[th]  c == call[th]  arcs == InputArcs[f.t]
           x == [tok |-> c.tok, place |-> arcs[f.arc].place]
           e == [f EXCEPT !.inputs = Append(@, x)]
           h == Advance(e, arcs)
<1>1. /\ f.pc = "consume" /\ f \in FireType /\ Free(th) /\ f.t \in Transition
      /\ f.inputs \in InputSeq /\ c.pc = "done"
      /\ f.arc \in DOMAIN arcs /\ f.n < arcs[f.arc].weight
      /\ c.ok => c.tok \in Token
  BY Given DEF Consumed, Returned, FireOK, Consuming, Ok
<1>2. IsArcs(arcs)
  BY <1>1, TheArcs
<1>3. x.tok = c.tok /\ (c.ok => x \in [tok : Token, place : Place])
  BY <1>1, <1>2, ArcsShape
<1>4. ASSUME c.ok
      PROVE  /\ e \in FireType /\ e.t = f.t /\ e.arc = f.arc /\ e.n = f.n
             /\ e.snapshot = f.snapshot /\ e.inputs = Append(f.inputs, x)
             /\ e.mode = f.mode
  <2>1. Append(f.inputs, x) \in Seq([tok : Token, place : Place])
    <3> HIDE DEF x
    <3> QED BY <1>1, <1>3, <1>4 DEF InputSeq
  <2>2. ASSUME NEW v \in Seq([tok : Token, place : Place])
        PROVE  LET d == [f EXCEPT !.inputs = v] IN
               /\ d \in FireType /\ d.t = f.t /\ d.arc = f.arc /\ d.n = f.n
               /\ d.snapshot = f.snapshot /\ d.inputs = v /\ d.mode = f.mode
    BY <1>1 DEF FireType
  <2>3. e = [f EXCEPT !.inputs = Append(f.inputs, x)]
    BY <1>1 DEF FireType
  <2> HIDE DEF x, e
  <2> QED BY <2>1, <2>2, <2>3
<1> HIDE DEF x, e
<1>5. ASSUME c.ok
      PROVE  /\ h \in FireType /\ h.t = f.t /\ h.mode = f.mode /\ Inside(arcs, h)
             /\ h.snapshot = f.snapshot
  <2>1. /\ h \in FireType /\ h.t = e.t /\ h.mode = e.mode /\ Inside(arcs, h)
    BY <1>1, <1>2, <1>4, <1>5, AdvancePartial
  <2>2. h.snapshot = e.snapshot
    <3>1. h = [e EXCEPT !.n = @ + 1] \/ h = [e EXCEPT !.arc = @ + 1, !.n = 0]
      BY DEF Advance
    <3> HIDE DEF h
    <3> QED BY <1>4, <1>5, <3>1 DEF FireType
  <2> QED BY <1>4, <1>5, <2>1, <2>2
<1>6. ASSUME Sound(f, c, tokens)
      PROVE  /\ c.ok /\ Follows(h, tokens)
             /\ h.arc \in DOMAIN arcs =>
                  Begins(tokens[arcs[h.arc].place], h.snapshot, Position(h),
                         arcs[h.arc].weight - h.n)
  <2>1. Takes(f, c, tokens)
    BY <1>1, <1>6 DEF Sound
  <2>2. c.ok
    BY <1>1, <2>1 DEF Takes, TakesNext
  <2>3. /\ e \in FireType /\ e.t = f.t /\ e.arc = f.arc /\ e.n = f.n
        /\ e.snapshot = f.snapshot /\ e.inputs = Append(f.inputs, x)
    BY <1>4, <2>2
  <2>4. x.tok = c.tok
    BY <1>3
  <2>5. /\ f \in FireType /\ f.t \in Transition /\ c.pc = "done"
        /\ f.arc \in DOMAIN InputArcs[f.t] /\ f.n < InputArcs[f.t][f.arc].weight
        /\ f.inputs \in InputSeq
    BY <1>1
  <2> HIDE DEF f, c
  <2> QED BY <2>1, <2>2, <2>3, <2>4, <2>5, TakenNext
<1>7. CASE c.ok /\ ConsumeFrom(th, h)
  <2> HIDE DEF h
  <2>1. /\ Looking(fire'[th], call'[th], before'[th])
        /\ fire'[th].mode = h.mode /\ fire'[th].t = h.t
        /\ fire'[th].pc \in {"consume", "task"}
        /\ fire'[th].snapshot = h.snapshot /\ fire'[th].inputs = h.inputs
        /\ fire'[th].pc = "task" <=> h.arc = Len(arcs) + 1
        /\ Sound(f, c, tokens) => Sound(fire'[th], call'[th], tokens')
    <3>1. /\ Free(th) /\ h \in FireType /\ h.t = f.t /\ f.t \in Transition
          /\ Inside(InputArcs[h.t], h) /\ ConsumeFrom(th, h)
      BY <1>1, <1>5, <1>7
    <3>2. Sound(f, c, tokens) =>
            /\ Follows(h, tokens)
            /\ h.arc \in DOMAIN InputArcs[h.t] =>
                 Begins(tokens[InputArcs[h.t][h.arc].place], h.snapshot,
                        Position(h), InputArcs[h.t][h.arc].weight - h.n)
      BY <1>6, <3>1
    <3> HIDE DEF f, c
    <3> QED BY <3>1, <3>2, ConsumeFromCare DEF arcs
  <2>2. GoesOn(th)
    BY <1>1, <1>5, <1>7, <2>1 DEF GoesOn
  <2>3. ASSUME Sound(f, c, tokens), fire'[th].pc # "consume"
        PROVE  /\ fire'[th].pc = "task"
               /\ [i \in DOMAIN fire'[th].inputs |-> fire'[th].inputs[i].tok]
                    = f.snapshot
    <3>1. fire'[th].pc = "task" /\ h.arc = Len(arcs) + 1
      BY <2>1, <2>3
    <3>2. h.n = 0
      BY <1>2, <1>5, <1>7, <3>1, ArcsShape DEF Inside
    <3>3. [i \in DOMAIN h.inputs |-> h.inputs[i].tok] = h.snapshot
      BY <1>1, <1>5, <1>6, <1>7, <2>3, <3>1, <3>2, AllTaken
    <3> QED BY <1>5, <1>7, <2>1, <3>1, <3>3
  <2> QED BY <2>2, <2>3
<1>8. CASE ~c.ok /\ RollbackFrom(th, f)
  <2>1. Afresh(th)
    BY <1>1, <1>8, RollbackFromAfresh
  <2> QED BY <1>6, <1>8, <2>1
<1> QED BY <1>7, <1>8 DEF Consumed, h, e, x

-----------------------------------------------------------------------------
(* The steps of a peek.                                                     *)
PwcResult(th, c) ==
  LET p == call[th].place IN
  /\ \A q \in Place : q # p => tokens'[q] = tokens[q]
  /\ c.pc \in {"pwc_drain", "pwc_undo", "pwc_refill", "done"}
  /\ c.pc # "done" =>
       c.place = p /\ c.need = call[th].need /\ disturbed' = disturbed
  /\ c.pc \in {"pwc_drain", "pwc_refill"} =>
       \/ call[th].pc \in {"pwc_drain", "pwc_refill"} /\ before'[th] = before[th]
       \/ before'[th] = tokens[p] /\ call[th].need <= Len(tokens[p])
  /\ c.pc = "done" => \/ disturbed' = disturbed \ {th}
                      \/ disturbed' = disturbed /\ call[th].pc = "pwc_lock"
  /\ Ok(c) /\ th \notin disturbed =>
       /\ call[th].pc = "pwc_refill" /\ tokens'[p] = before[th]
       /\ c.seen = SubSeq(before[th], 1, call[th].need)

LEMMA ReturnIs ==
  ASSUME PlaceTypeOK, NEW th \in Thread, NEW ok, NEW t, NEW s, Return(th, ok, t, s)
  PROVE  /\ call'[th].pc = "done" /\ call'[th].ok = ok /\ call'[th].tok = t
         /\ call'[th].seen = s
<1>1. call'[th] = Result(ok, t, s)
  BY SetSelf DEF Return
<1> QED BY <1>1 DEF Result

LEMMA PwcLockResult ==
  ASSUME PlaceTypeOK, NEW th \in Thread, PwcLock(th)
  PROVE  PwcResult(th, call'[th])
<1> DEFINE p == call[th].place
<1>1. /\ call[th] \in CallType /\ p \in Place /\ tokens' = tokens
      /\ disturbed' = disturbed /\ call[th].pc = "pwc_lock"
      /\ tokens[p] \in Seq(Token) /\ call[th].need \in Nat
  BY DEF PlaceTypeOK, CallOK, CallType, PwcLock, Steps, LockSteps
<1>2. CASE Return(th, FALSE, None, <<>>)
  <2>1. call'[th].pc = "done" /\ call'[th].ok = FALSE
    BY <1>2, ReturnIs
  <2> QED BY <1>1, <2>1 DEF PwcResult, Ok
<1>3. CASE /\ ~(Len(tokens[p]) < call[th].need) /\ LockPeek(th, p)
           /\ Set(th, [call[th] EXCEPT !.pc = "pwc_drain", !.avail = Len(tokens[p])])
  <2> DEFINE c == [call[th] EXCEPT !.pc = "pwc_drain", !.avail = Len(tokens[p])]
  <2>1. c.pc = "pwc_drain" /\ c.place = p /\ c.need = call[th].need
    BY <1>1 DEF CallType
  <2>2. Set(th, c)
    BY <1>3
  <2> HIDE DEF c
  <2>3. call'[th] = c
    BY <2>2, SetSelf
  <2>4. before'[th] = tokens[p]
    BY <1>3 DEF LockPeek, PlaceTypeOK
  <2>5. call[th].need <= Len(tokens[p])
    BY <1>1, <1>3
  <2> QED BY <1>1, <2>1, <2>3, <2>4, <2>5 DEF PwcResult, Ok
<1> QED BY <1>2, <1>3 DEF PwcLock

LEMMA PwcDrainResult ==
  ASSUME MutexInv, NEW th \in Thread, PwcDrain(th)
  PROVE  PwcResult(th, call'[th])
<1> DEFINE p == call[th].place
<1>1. /\ PlaceTypeOK /\ call[th] \in CallType /\ p \in Place
      /\ call[th].pc = "pwc_drain" /\ InDrain(call[th], p)
      /\ tokens \in [Place -> Seq(Token)]
  BY DEF MutexInv, PlaceTypeOK, CallOK, PwcDrain, Steps, DrainSteps, InDrain
<1>2. peekMu[p] = th
  BY <1>1 DEF MutexInv, PeekMutex, InDrain
<1>3. CASE Drain(th)
  <2> DEFINE c == [call[th] EXCEPT !.buf = Append(@, Head(tokens[p]))]
  <2>1. c.pc = "pwc_drain" /\ c.place = p /\ c.need = call[th].need
    BY <1>1 DEF CallType
  <2>2. Set(th, c) /\ before' = before /\ Receive(th, p)
    BY <1>3 DEF Drain
  <2> HIDE DEF c
  <2>3. call'[th] = c
    BY <1>1, <2>2, SetSelf
  <2>4. disturbed' = disturbed
    BY <1>2, <2>2, DisturbSelf DEF Receive
  <2>5. \A q \in Place : q # p => tokens'[q] = tokens[q]
    BY <1>1, <2>2 DEF Receive
  <2> QED BY <1>1, <2>1, <2>2, <2>3, <2>4, <2>5 DEF PwcResult, Ok
<1>4. CASE /\ Return(th, FALSE, None, <<>>)
           /\ disturbed' = disturbed \ {th} /\ tokens' = tokens
  <2>1. call'[th].pc = "done" /\ call'[th].ok = FALSE
    BY <1>1, <1>4, ReturnIs
  <2> QED BY <1>4, <2>1 DEF PwcResult, Ok
<1>5. CASE /\ Goto(th, "pwc_undo") /\ UNCHANGED <<tokens, before, disturbed>>
  <2>1. call'[th] = [call[th] EXCEPT !.pc = "pwc_undo"]
    BY <1>1, <1>5, SetSelf DEF Goto
  <2>2. call'[th].pc = "pwc_undo" /\ call'[th].place = p
        /\ call'[th].need = call[th].need
    BY <1>1, <2>1 DEF CallType
  <2> QED BY <1>5, <2>2 DEF PwcResult, Ok
<1>6. CASE /\ Set(th, [call[th] EXCEPT
                         !.pc = "pwc_refill",
                         !.seen = SubSeq(call[th].buf, 1, call[th].need)])
           /\ UNCHANGED <<tokens, before, disturbed>>
  <2> DEFINE c == [call[th] EXCEPT !.pc = "pwc_refill",
                                   !.seen = SubSeq(call[th].buf, 1, call[th].need)]
  <2>1. c.pc = "pwc_refill" /\ c.place = p /\ c.need = call[th].need
    BY <1>1 DEF CallType
  <2>2. Set(th, c)
    BY <1>6
  <2> HIDE DEF c
  <2>3. call'[th] = c
    BY <1>1, <2>2, SetSelf
  <2> QED BY <1>1, <1>6, <2>1, <2>3 DEF PwcResult, Ok
<1> QED BY <1>3, <1>4, <1>5, <1>6 DEF PwcDrain, history

LEMMA PwcRefillResult ==
  ASSUME MutexInv, NEW th \in Thread, PwcRefill(th), QuietOK(th)
  PROVE  PwcResult(th, call'[th])
<1> DEFINE p == call[th].place  b == call[th].buf  q == tokens[p]
<1>1. /\ PlaceTypeOK /\ call[th] \in CallType /\ p \in Place
      /\ call[th].pc \in {"pwc_undo", "pwc_refill"}
      /\ tokens \in [Place -> Seq(Token)] /\ q \in Seq(Token)
      /\ b \in Seq(Token) /\ b # <<>>
  BY DEF MutexInv, PlaceTypeOK, CallOK, CallType, PwcRefill, Steps, DrainSteps
<1>2. /\ tokens' = [tokens EXCEPT ![p] = Append(q, Head(b))]
      /\ Refilled(th, call[th].pc = "pwc_refill")
  BY DEF PwcRefill
<1>3. /\ \A r \in Place : r # p => tokens'[r] = tokens[r]
      /\ tokens'[p] = Append(q, Head(b))
  BY <1>1, <1>2
<1>4. CASE /\ Set(th, [call[th] EXCEPT !.buf = Tail(b)])
           /\ UNCHANGED <<before, disturbed>>
  <2> DEFINE c == [call[th] EXCEPT !.buf = Tail(b)]
  <2>1. c.pc = call[th].pc /\ c.place = p /\ c.need = call[th].need
    BY <1>1 DEF CallType
  <2>2. Set(th, c)
    BY <1>4
  <2> HIDE DEF c
  <2>3. call'[th] = c
    BY <1>1, <2>2, SetSelf
  <2> QED BY <1>1, <1>3, <1>4, <2>1, <2>3 DEF PwcResult, Ok
<1>5. CASE /\ Tail(b) = <<>> /\ disturbed' = disturbed \ {th}
           /\ Return(th, call[th].pc = "pwc_refill", None, call[th].seen)
  <2>1. /\ call'[th].pc = "done" /\ call'[th].seen = call[th].seen
        /\ call'[th].ok = (call[th].pc = "pwc_refill")
    BY <1>1, <1>5, ReturnIs
  <2>2. ASSUME call[th].pc = "pwc_refill", th \notin disturbed
        PROVE  /\ tokens'[p] = before[th]
               /\ call[th].seen = SubSeq(before[th], 1, call[th].need)
    <3>1. /\ before[th] = q \o b
          /\ call[th].seen = SubSeq(before[th], 1, call[th].need)
      BY <2>2 DEF QuietOK, Quiet
    <3>2. Append(q, Head(b)) \o Tail(b) = q \o b
      BY <1>1, MoveHead
    <3>3. Append(q, Head(b)) \in Seq(Token)
      <4>1. Head(b) \in Token
        BY <1>1
      <4> QED BY <1>1, <4>1
    <3>4. Append(q, Head(b)) \o <<>> = Append(q, Head(b))
      BY <3>3, ConcatEmptySeq
    <3> QED BY <1>3, <1>5, <3>1, <3>2, <3>4
  <2> QED BY <1>3, <1>5, <2>1, <2>2 DEF PwcResult, Ok
<1> QED BY <1>2, <1>4, <1>5 DEF Refilled

(* Taking the head of a channel takes the next token of the snapshot.       *)
LEMMA BeginsTail ==
  ASSUME NEW q \in Seq(Token), NEW s, NEW o \in Nat, NEW w \in Nat, w >= 1,
         Begins(q, s, o, w)
  PROVE  q # <<>> /\ Head(q) = s[o + 1] /\ Begins(Tail(q), s, o + 1, w - 1)
<1>1. Len(q) \in Nat /\ Len(q) >= 1 /\ w <= Len(q)
      /\ \A k \in 1 .. w : q[k] = s[o + k]
  BY DEF Begins
<1>2. q # <<>>
  BY <1>1
<1>3. /\ Head(q) = q[1] /\ Len(Tail(q)) = Len(q) - 1
      /\ \A k \in 1 .. Len(q) - 1 : Tail(q)[k] = q[k + 1]
  BY <1>1, <1>2
<1>4. Head(q) = s[o + 1]
  BY <1>1, <1>3
<1>5. w - 1 <= Len(Tail(q))
  BY <1>1, <1>3
<1>6. ASSUME NEW k \in 1 .. w - 1 PROVE Tail(q)[k] = s[o + 1 + k]
  <2>1. k \in 1 .. Len(q) - 1 /\ k + 1 \in 1 .. w /\ o + 1 + k = o + (k + 1)
    BY <1>1
  <2>2. Tail(q)[k] = q[k + 1]
    BY <1>3, <2>1
  <2>3. q[k + 1] = s[o + (k + 1)]
    BY <1>1, <2>1
  <2> QED BY <2>1, <2>2, <2>3
<1> QED BY <1>2, <1>4, <1>5, <1>6 DEF Begins

LEMMA RemoveCare ==
  ASSUME TypeOK, FiresOK, NEW th \in Thread, fire[th].pc = "consume",
         RemoveReceive(th) \/ RemoveCount(th), Judged(fire[th]),
         Sound(fire[th], call[th], tokens)
  PROVE  Sound(fire[th], call'[th], tokens')
<1> DEFINE f == fire[th]  c == call[th]  arcs == InputArcs[f.t]  a == arcs[f.arc]
           p == a.place  q == tokens[p]  o == Position(f)  w == a.weight - f.n
<1>1. /\ f \in FireType /\ c \in CallType /\ PlaceTypeOK /\ f.t \in Transition
      /\ f.arc \in DOMAIN arcs /\ f.n < a.weight
      /\ c.pc \in RemoveSteps => c.place = p
  <2>1. f \in FireType /\ c \in CallType /\ PlaceTypeOK /\ FireOK(f, c)
    BY Given
  <2>2. f.pc = "consume" /\ f.t \in Transition
    BY <2>1 DEF FireOK, FireType
  <2>3. Consuming(f, c)
    BY <2>1, <2>2 DEF FireOK
  <2> QED BY <2>1, <2>2, <2>3 DEF Consuming, Calling
<1>2. /\ IsArcs(arcs) /\ Len(arcs) \in Nat /\ DOMAIN arcs = 1 .. Len(arcs)
      /\ p \in Place /\ a.weight \in Nat
  BY <1>1, TheArcs, ArcsShape
<1>3. w \in Nat /\ w >= 1 /\ q \in Seq(Token) /\ o \in Nat
  <2>1. f.n \in Nat /\ q \in Seq(Token)
    BY <1>1, <1>2 DEF FireType, PlaceTypeOK
  <2>2. Offset(arcs, f.arc) \in Nat
    <3>1. f.arc \in Int
      BY <1>1, <1>2
    <3> QED BY <1>2, <3>1, OffsetType
  <2>3. w \in Nat /\ w >= 1
    <3>1. a.weight \in Nat /\ f.n \in Nat /\ f.n < a.weight
      BY <1>1, <1>2, <2>1
    <3> HIDE DEF a, f
    <3> QED BY <3>1
  <2>4. o \in Nat
    <3>1. o = Offset(arcs, f.arc) + f.n
      BY DEF Position
    <3> HIDE DEF o, arcs, f
    <3> QED BY <2>1, <2>2, <3>1
  <2> QED BY <2>1, <2>3, <2>4
<1>4. Follows(f, tokens) /\ TakesNext(c, q, f.snapshot, o, w)
  BY DEF Sound, Takes
<1>5. c.pc \in RemoveSteps /\ c.place = p
  BY <1>1 DEF RemoveReceive, RemoveCount, RemoveSteps
<1>6. CASE RemoveReceive(th)
  <2>1. q # <<>> /\ Head(q) = f.snapshot[o + 1] /\ Begins(Tail(q), f.snapshot, o + 1, w - 1)
    <3>1. Begins(q, f.snapshot, o, w)
      BY <1>4, <1>6 DEF RemoveReceive, TakesNext
    <3> HIDE DEF q, o, w
    <3> QED BY <1>3, <3>1, BeginsTail
  <2> DEFINE d == [c EXCEPT !.pc = "rem_count", !.tok = Head(q)]
  <2>2. Set(th, d) /\ tokens' = [tokens EXCEPT ![p] = Tail(q)]
    BY <1>5, <1>6, <2>1 DEF RemoveReceive, Receive
  <2>3. d.pc = "rem_count" /\ d.tok = Head(q)
    BY <1>1 DEF CallType
  <2> HIDE DEF d
  <2>4. call'[th] = d
    BY <1>1, <2>2, SetSelf
  <2>5. tokens'[p] = Tail(q) /\ \A r \in Place : r # p => tokens'[r] = tokens[r]
    BY <1>1, <1>2, <2>2 DEF PlaceTypeOK
  <2>6. TakesNext(d, tokens'[p], f.snapshot, o, w)
    BY <2>1, <2>3, <2>5 DEF TakesNext
  <2>7. ASSUME NEW i \in f.arc + 1 .. Len(arcs)
        PROVE  tokens'[arcs[i].place] = tokens[arcs[i].place]
    <3>1. i \in DOMAIN arcs /\ i # f.arc
      BY <1>1, <1>2
    <3>2. arcs[i].place # p /\ arcs[i].place \in Place
      BY <1>1, <1>2, <3>1, ArcsShape, OneArcEach DEF Judged
    <3> QED BY <2>5, <3>2
  <2>8. Follows(f, tokens')
    BY <1>4, <2>7, HeadsSame DEF Follows
  <2>9. Takes(f, d, tokens')
    BY <2>6, <2>8 DEF Takes
  <2> QED BY <2>4, <2>9 DEF Sound
<1>7. CASE RemoveCount(th)
  <2>1. c.pc = "rem_count" /\ tokens' = tokens /\ Return(th, TRUE, c.tok, <<>>)
    BY <1>7 DEF RemoveCount
  <2>2. call'[th] = Result(TRUE, c.tok, <<>>)
    BY <1>1, <2>1, SetSelf DEF Return
  <2>3. call'[th].pc = "done" /\ call'[th].ok /\ call'[th].tok = c.tok
    BY <2>2 DEF Result
  <2>4. TakesNext(call'[th], q, f.snapshot, o, w)
    BY <1>4, <2>1, <2>3 DEF TakesNext
  <2>5. Takes(f, call'[th], tokens')
    BY <1>4, <2>1, <2>4 DEF Takes
  <2> QED BY <2>5 DEF Sound
<1> QED BY <1>6, <1>7

(* A step of the peek of an input place.                                    *)
LEMMA PeekCare ==
  ASSUME TypeOK, FiresOK, MutexInv, NEW th \in Thread, fire[th].pc = "check",
         QuietOK(th), PwcLock(th) \/ PwcDrain(th) \/ PwcRefill(th),
         Looking(fire[th], call[th], before[th])
  PROVE  /\ Looking(fire[th], call'[th], before'[th])
         /\ \/ call'[th].pc \in DrainSteps /\ disturbed' = disturbed
            \/ disturbed' = disturbed \ {th}
            \/ disturbed' = disturbed /\ call[th].pc = "pwc_lock"
         /\ th \notin disturbed /\ Judged(fire[th])
              /\ Sound(fire[th], call[th], tokens)
            => Sound(fire[th], call'[th], tokens')
<1> DEFINE f == fire[th]  c == call[th]  d == call'[th]  arcs == InputArcs[f.t]
           a == arcs[f.arc]  p == a.place
<1>1. /\ f \in FireType /\ f.t \in Transition /\ f.arc \in DOMAIN arcs
      /\ PlaceTypeOK
  BY Given DEF FireOK
<1>2. /\ IsArcs(arcs) /\ Len(arcs) \in Nat /\ DOMAIN arcs = 1 .. Len(arcs)
      /\ p \in Place /\ \A i \in DOMAIN arcs : arcs[i].place \in Place
  BY <1>1, TheArcs, ArcsShape
<1>3. c.pc \in PwcSteps
  BY DEF PwcLock, PwcDrain, PwcRefill, PwcSteps
<1>4. /\ c.place = p /\ c.need = a.weight
      /\ c.pc \in {"pwc_drain", "pwc_refill"} => a.weight <= Len(before[th])
  BY <1>3 DEF Looking
<1>5. PwcResult(th, d)
  BY <1>1, PwcLockResult, PwcDrainResult, PwcRefillResult
<1>6. Looking(f, d, before'[th])
  <2>1. d.pc \in PwcSteps => d.place = p /\ d.need = a.weight
    BY <1>4, <1>5 DEF PwcResult, PwcSteps
  <2>2. d.pc \in {"pwc_drain", "pwc_refill"} => a.weight <= Len(before'[th])
    BY <1>4, <1>5 DEF PwcResult
  <2> QED BY <2>1, <2>2 DEF Looking
<1>7. \/ d.pc \in DrainSteps /\ disturbed' = disturbed
      \/ disturbed' = disturbed \ {th}
      \/ disturbed' = disturbed /\ c.pc = "pwc_lock"
  BY <1>5 DEF PwcResult, DrainSteps
<1>8. ASSUME th \notin disturbed, Judged(f), Sound(f, c, tokens)
      PROVE  Sound(f, d, tokens')
  <2>1. Saw(f, f.arc - 1, tokens)
    BY <1>8 DEF Sound
  <2>2. ASSUME NEW i \in 1 .. f.arc - 1
        PROVE  tokens'[arcs[i].place] = tokens[arcs[i].place]
    <3>1. i \in DOMAIN arcs /\ i # f.arc
      BY <1>1, <1>2
    <3>2. arcs[i].place # p /\ arcs[i].place \in Place
      BY <1>1, <1>2, <1>8, <3>1, OneArcEach DEF Judged
    <3> QED BY <1>4, <1>5, <3>2 DEF PwcResult
  <2>3. Saw(f, f.arc - 1, tokens')
    BY <2>1, <2>2, HeadsSame DEF Saw
  <2>4. Shows(d, a, tokens')
    <3>1. ASSUME Ok(d)
          PROVE  a.weight <= Len(tokens'[p]) /\ d.seen = SubSeq(tokens'[p], 1, a.weight)
      <4>1. /\ c.pc = "pwc_refill" /\ tokens'[p] = before[th]
            /\ d.seen = SubSeq(before[th], 1, c.need)
        BY <1>4, <1>5, <1>8, <3>1 DEF PwcResult
      <4> QED BY <1>4, <4>1
    <3> QED BY <3>1 DEF Shows
  <2> QED BY <2>3, <2>4 DEF Sound
<1> QED BY <1>6, <1>7, <1>8

(* Who comes between the steps of a peek changes the place it looks at.     *)
LEMMA OtherNotices ==
  ASSUME MutexInv, NEW th \in Thread, PlaceStep(th), NEW u \in Thread,
         u \in disturbed', u \notin disturbed
  PROVE  \E p \in Place : InDrain(call[u], p) /\ tokens'[p] # tokens[p]
<1> DEFINE p == call[th].place
<1>1. /\ PlaceTypeOK /\ call[th] \in CallType
      /\ call[th].pc \in Steps => p \in Place
      /\ \A v \in Thread, q \in Place : peekMu[q] = v <=> InDrain(call[v], q)
  BY RecordShapes DEF MutexInv, PeekMutex, InDrain
<1>2. ASSUME p \in Place, Disturb(th, p), NEW s, tokens' = [tokens EXCEPT ![p] = s],
             s # tokens[p]
      PROVE  \E q \in Place : InDrain(call[u], q) /\ tokens'[q] # tokens[q]
  <2>1. peekMu[p] = u
    BY <1>2 DEF Disturb
  <2>2. tokens'[p] = s
    BY <1>1, <1>2 DEF PlaceTypeOK
  <2> QED BY <1>1, <1>2, <2>1, <2>2
<1>3. ASSUME p \in Place, Receive(th, p), tokens[p] # <<>>
      PROVE  \E q \in Place : InDrain(call[u], q) /\ tokens'[q] # tokens[q]
  <2>1. tokens[p] \in Seq(Token)
    BY <1>1, <1>3 DEF PlaceTypeOK
  <2>2. Tail(tokens[p]) # tokens[p]
    <3> DEFINE q == tokens[p]
    <3>1. q \in Seq(Token) /\ q # <<>>
      BY <1>3, <2>1
    <3> HIDE DEF q
    <3>2. Len(q) \in Nat /\ Len(Tail(q)) = Len(q) - 1
      BY <3>1
    <3>3. Tail(q) # q
      BY <3>2
    <3> QED BY <3>3 DEF q
  <2> QED BY <1>2, <1>3, <2>2 DEF Receive
<1>4. CASE AddSend(th)
  <2>1. p \in Place /\ Send(th, p, call[th].tok) /\ call[th].tok \in Token
    BY <1>1, <1>4 DEF AddSend, Steps, AddSteps, PlaceTypeOK, CallOK
  <2>2. Append(tokens[p], call[th].tok) # tokens[p]
    <3> DEFINE q == tokens[p]
    <3>1. q \in Seq(Token)
      BY <1>1, <2>1 DEF PlaceTypeOK
    <3>2. Len(q) \in Nat /\ Len(Append(q, call[th].tok)) = Len(q) + 1
      BY <2>1, <3>1
    <3> QED BY <3>2
  <2> QED BY <1>2, <2>1, <2>2 DEF Send
<1>5. CASE RemoveReceive(th) \/ ClearReceive(th)
  <2>1. p \in Place
    BY <1>1, <1>5 DEF RemoveReceive, ClearReceive, Steps, RemoveSteps, DrainSteps
  <2> QED BY <1>3, <1>5, <2>1 DEF RemoveReceive, ClearReceive
<1>6. CASE PeekDrain(th) \/ PwcDrain(th)
  <2>1. p \in Place
    BY <1>1, <1>6 DEF PeekDrain, PwcDrain, Steps, DrainSteps
  <2>2. Drain(th)
    BY <1>6 DEF PeekDrain, PwcDrain, history
  <2> QED BY <1>3, <2>1, <2>2 DEF Drain
<1>7. CASE \/ AddCheck(th) \/ AddCount(th) \/ RemoveCount(th) \/ PeekLock(th)
           \/ PwcLock(th) \/ ClearLock(th) \/ ClearLen(th)
           \/ PeekRefill(th) \/ PwcRefill(th)
  <2>1. disturbed' \subseteq disturbed
    BY <1>7 DEF AddCheck, AddCount, RemoveCount, PeekLock, PwcLock, ClearLock,
       ClearLen, PeekRefill, PwcRefill, Refilled, history
  <2> QED BY <2>1
<1> QED BY <1>4, <1>5, <1>6, <1>7 DEF PlaceStep

-----------------------------------------------------------------------------
(* All threads, after a step of one of them.                                *)
ThreadsOK == \A th \in Thread : ThreadOK(th)

LEMMA FireStepCare ==
  ASSUME TypeOK, FiresOK, NEW th \in Thread, FireStep(th), ThreadOK(th)
  PROVE  \/ Afresh(th)
         \/ GoesOn(th)
         \/ /\ Looking(fire'[th], call'[th], before'[th])
            /\ Judged(fire'[th]) => Sound(fire'[th], call'[th], tokens')
<1>1. UNCHANGED tokens /\ Looking(fire[th], call[th], before[th])
  BY DEF FireStep, ThreadOK
<1>2. CASE Call(th)
  BY <1>1, <1>2, CallAfresh DEF Judged
<1>3. CASE Lock(th)
  BY <1>1, <1>3, LockCare DEF Judged
<1>4. CASE Checked(th)
  BY <1>1, <1>4, CheckedCare
<1>5. CASE Guard(th)
  BY <1>1, <1>5, GuardCare
<1>6. CASE Consumed(th)
  BY <1>1, <1>6, ConsumedCare
<1>7. CASE Task(th) \/ RolledBack(th) \/ Produced(th)
  BY <1>1, <1>7, EndCare
<1> QED BY <1>2, <1>3, <1>4, <1>5, <1>6, <1>7 DEF FireStep

LEMMA FireStepThreads ==
  ASSUME CareInv, NEW th \in Thread, FireStep(th), Interfere(th), NEW u \in Thread
  PROVE  ThreadOK(u)'
<1>1. /\ TypeOK /\ FiresOK /\ ThreadOK(th) /\ ThreadOK(u)
      /\ UNCHANGED <<tokens, before, disturbed>>
  BY DEF CareInv, ExecInv, FireStep, history
<1>2. PICK g, c : SetFire(th, g) /\ Set(th, c)
  BY <1>1, FireStepOutcome DEF Outcome, Becomes
<1>3. \A v \in Thread : v # th => fire'[v] = fire[v] /\ call'[v] = call[v]
  BY <1>1, <1>2, SetOne
<1>4. \A v \in Thread : v # th /\ v \in interfered => v \in interfered'
  BY DEF Interfere
<1>5. CASE u # th
  <2>1. Looking(fire'[u], call'[u], before'[u])
    BY <1>1, <1>3, <1>5 DEF ThreadOK
  <2>2. Noticed(u)'
    BY <1>1, <1>3, <1>4, <1>5 DEF ThreadOK, Noticed
  <2>3. Attentive(u)'
    BY <1>1, <1>3, <1>4, <1>5 DEF ThreadOK, Attentive
  <2> QED BY <2>1, <2>2, <2>3 DEF ThreadOK
<1>6. CASE u = th
  <2>1. th \notin disturbed'
    <3>1. call[th].pc \notin DrainSteps
      BY <1>1, FireStepFree DEF Free, DrainSteps
    <3> QED BY <1>1, <3>1 DEF ThreadOK, Noticed
  <2>2. Noticed(th)'
    BY <2>1 DEF Noticed
  <2>3. Looking(fire'[th], call'[th], before'[th])
    BY <1>1, FireStepCare DEF Afresh, GoesOn
  <2>4. ASSUME th \notin interfered', Judged(fire'[th]), GoesOn(th)
        PROVE  Sound(fire'[th], call'[th], tokens')
    <3>1. th \notin interfered
      BY <2>4 DEF Interfere, GoesOn
    <3>2. Judged(fire[th])
      BY <2>4 DEF Judged, GoesOn
    <3> QED BY <1>1, <2>4, <3>1, <3>2 DEF ThreadOK, Attentive, GoesOn
  <2>5. Attentive(th)'
    BY <1>1, <2>4, FireStepCare DEF Attentive, Afresh
  <2> QED BY <1>6, <2>2, <2>3, <2>5 DEF ThreadOK
<1> QED BY <1>5, <1>6

LEMMA PlaceStepSelf ==
  ASSUME CareInv, NEW th \in Thread, PlaceStep(th), UNCHANGED fire,
         th \in interfered => th \in interfered',
         th \in interfered' => th \in interfered
  PROVE  ThreadOK(th)'
<1> DEFINE f == fire[th]
<1>1. /\ TypeOK /\ PlaceTypeOK /\ FiresOK /\ MutexInv /\ QuietOK(th)
      /\ Looking(f, call[th], before[th]) /\ Noticed(th) /\ Attentive(th)
      /\ f \in FireType /\ FireOK(f, call[th]) /\ fire'[th] = f
  BY Given DEF CareInv, ExecInv, QuietInv, MutexInv, ThreadOK
<1>2. CASE f.pc \in {"idle", "lock", "guard", "task"}
  <2>1. call[th].pc \in {"idle", "done"}
    BY <1>1, <1>2 DEF FireOK
  <2> QED BY <2>1 DEF PlaceStep, AddCheck, AddSend, AddCount, RemoveReceive,
     RemoveCount, PeekLock, PeekDrain, PeekRefill, PwcLock, PwcDrain, PwcRefill,
     ClearLock, ClearLen, ClearReceive
<1>3. CASE f.pc = "check"
  <2>1. PwcLock(th) \/ PwcDrain(th) \/ PwcRefill(th)
    <3>1. call[th].pc \in PwcSteps \cup {"done"}
      BY <1>1, <1>3 DEF FireOK
    <3> QED BY <3>1 DEF PlaceStep, PwcSteps, AddCheck, AddSend, AddCount,
       RemoveReceive, RemoveCount, PeekLock, PeekDrain, PeekRefill, ClearLock,
       ClearLen, ClearReceive
  <2>2. /\ Looking(f, call'[th], before'[th])
        /\ \/ call'[th].pc \in DrainSteps /\ disturbed' = disturbed
           \/ disturbed' = disturbed \ {th}
           \/ disturbed' = disturbed /\ call[th].pc = "pwc_lock"
        /\ th \notin disturbed /\ Judged(f) /\ Sound(f, call[th], tokens)
             => Sound(f, call'[th], tokens')
    BY <1>1, <1>3, <2>1, PeekCare
  <2>3. Noticed(th)'
    BY <1>1, <2>2 DEF Noticed, DrainSteps
  <2>4. Attentive(th)'
    BY <1>1, <2>2 DEF Attentive, Noticed
  <2> QED BY <1>1, <2>2, <2>3, <2>4 DEF ThreadOK
<1>4. CASE f.pc \in {"consume", "rollback", "produce"}
  <2>1. \/ RemoveReceive(th) \/ RemoveCount(th)
        \/ AddCheck(th) \/ AddSend(th) \/ AddCount(th)
    <3>1. call[th].pc \in AddSteps \cup RemoveSteps \cup {"done"}
      BY <1>1, <1>4 DEF FireOK, Consuming, Producing, Calling
    <3> QED BY <3>1 DEF PlaceStep, AddSteps, RemoveSteps, PeekLock, PeekDrain,
       PeekRefill, PwcLock, PwcDrain, PwcRefill, ClearLock, ClearLen, ClearReceive
  <2>2. Looking(f, call'[th], before'[th])
    BY <1>4 DEF Looking
  <2>3. Noticed(th)'
    <3>1. call[th].pc \notin DrainSteps
      BY <2>1 DEF RemoveReceive, RemoveCount, AddCheck, AddSend, AddCount, DrainSteps
    <3>2. th \notin disturbed
      BY <1>1, <3>1 DEF Noticed
    <3>3. \A p \in Place : Disturb(th, p) => th \notin disturbed'
      BY <3>2 DEF Disturb
    <3>4. call[th].pc \in Steps => call[th].place \in Place
      BY <1>1, RecordShapes
    <3>5. th \notin disturbed'
      BY <2>1, <3>2, <3>3, <3>4 DEF RemoveReceive, RemoveCount, AddCheck, AddSend,
         AddCount, history, Send, Receive, Steps, AddSteps, RemoveSteps
    <3> QED BY <3>5 DEF Noticed
  <2>4. f.pc = "consume" => RemoveReceive(th) \/ RemoveCount(th)
    BY <1>1, <2>1 DEF FireOK, Consuming, Calling, RemoveSteps, AddCheck, AddSend,
       AddCount
  <2>5. f.pc = "consume" /\ Judged(f) /\ Sound(f, call[th], tokens)
          => Sound(f, call'[th], tokens')
    BY <1>1, <2>4, RemoveCare
  <2>6. f.pc # "consume" => Sound(f, call'[th], tokens')
    BY <1>4, RestCare
  <2>7. Attentive(th)'
    BY <1>1, <2>5, <2>6 DEF Attentive
  <2> QED BY <1>1, <2>2, <2>3, <2>7 DEF ThreadOK
<1>5. f.pc \in Phases
  BY <1>1 DEF FireType
<1> QED BY <1>2, <1>3, <1>4, <1>5 DEF Phases

LEMMA PlaceStepOther ==
  ASSUME CareInv, NEW th \in Thread, PlaceStep(th), UNCHANGED fire, Interfere(th),
         NEW u \in Thread, u # th
  PROVE  ThreadOK(u)'
<1> DEFINE f == fire[u]
<1>1. /\ TypeOK /\ PlaceTypeOK /\ FiresOK /\ MutexInv
      /\ Looking(f, call[u], before[u]) /\ Noticed(u) /\ Attentive(u)
      /\ f \in FireType /\ FireOK(f, call[u]) /\ fire'[u] = f
  BY Given DEF CareInv, ExecInv, QuietInv, MutexInv, ThreadOK
<1>2. call'[u] = call[u] /\ before'[u] = before[u]
  BY <1>1, Others
<1>3. /\ u \in interfered => u \in interfered'
      /\ f.pc # "idle" /\ (\E p \in Inputs(f.t) : tokens'[p] # tokens[p])
           => u \in interfered'
  BY DEF Interfere
<1>4. Noticed(u)'
  <2>1. ASSUME u \in disturbed', u \notin disturbed
        PROVE  u \in interfered' /\ call[u].pc \in DrainSteps
    <3>1. PICK p \in Place : InDrain(call[u], p) /\ tokens'[p] # tokens[p]
      BY <1>1, <2>1, OtherNotices
    <3>2. f.pc = "check" /\ call[u].pc \in PwcSteps
      <4>1. call[u].pc \in DrainSteps /\ f.pc \in Phases
        BY <1>1, <3>1 DEF InDrain, FireType
      <4> QED BY <1>1, <4>1 DEF FireOK, Consuming, Producing, Calling, DrainSteps,
         AddSteps, RemoveSteps, PwcSteps, Phases
    <3>3. p = InputArcs[f.t][f.arc].place
      BY <1>1, <3>1, <3>2 DEF Looking, InDrain
    <3>4. p \in Inputs(f.t)
      BY <1>1, <3>2, <3>3 DEF FireOK, Inputs
    <3> QED BY <1>3, <3>1, <3>2, <3>4 DEF InDrain
  <2>2. u \in disturbed => u \in interfered' /\ call[u].pc \in DrainSteps
    BY <1>1, <1>3 DEF Noticed
  <2> QED BY <1>2, <2>1, <2>2 DEF Noticed
<1>5. ASSUME u \notin interfered', Judged(f)
      PROVE  Sound(f, call[u], tokens')
  <2>1. f.pc # "idle" /\ Sound(f, call[u], tokens)
    BY <1>1, <1>3, <1>5 DEF Attentive, Judged
  <2>2. \A p \in Inputs(f.t) : tokens'[p] = tokens[p]
    BY <1>3, <1>5, <2>1
  <2> QED BY <1>1, <2>1, <2>2, SoundSame
<1>6. Attentive(u)'
  BY <1>1, <1>2, <1>5 DEF Attentive
<1> QED BY <1>1, <1>2, <1>4, <1>6 DEF ThreadOK

LEMMA CareThreads ==
  ASSUME CareInv, NEW th \in Thread, Step(th)
  PROVE  ThreadsOK'
<1>1. ASSUME FireStep(th), Interfere(th), NEW u \in Thread PROVE ThreadOK(u)'
  BY <1>1, FireStepThreads
<1>2. ASSUME PlaceStep(th), UNCHANGED fireVars, Interfere(th), NEW u \in Thread
      PROVE  ThreadOK(u)'
  <2>1. UNCHANGED fire
    BY <1>2 DEF fireVars
  <2>2. th \in interfered => th \in interfered'
    BY <1>2, <2>1 DEF Interfere
  <2>3. th \in interfered' => th \in interfered
    BY <1>2, <2>1 DEF Interfere
  <2> QED BY <1>2, <2>1, <2>2, <2>3, PlaceStepSelf, PlaceStepOther
<1> QED BY <1>1, <1>2 DEF Step, ThreadsOK

(* The mutex of a place, and what its holder knows.                         *)
LEMMA CareQuiet ==
  ASSUME CareInv, TypeOK', NEW th \in Thread, Step(th)
  PROVE  QuietInv'
<1>1. /\ TypeOK /\ FiresOK /\ MutexInv /\ QuietInv /\ PlaceTypeOK'
      /\ \A u \in Thread : QuietOK(u)
  BY DEF CareInv, ExecInv, QuietInv, TypeOK
<1>2. CASE FireStep(th)
  <2>1. PICK g, c : SetFire(th, g) /\ Set(th, c) /\ c.pc \notin DrainSteps
    BY <1>1, <1>2, FireStepOutcome DEF Outcome, Becomes
  <2>2. UNCHANGED <<tokens, peekMu, before, disturbed>>
    BY <1>2 DEF FireStep, history
  <2>3. call[th].pc \notin DrainSteps
    BY <1>1, <1>2, FireStepFree DEF Free, DrainSteps
  <2>4. PeekMutex'
    BY <1>1, <2>1, <2>2, <2>3, KeepsMutex DEF InDrain
  <2>5. \A u \in Thread : call'[u] = IF u = th THEN c ELSE call[u]
    BY <1>1, <2>1, SetOneCall
  <2>6. QuietOK(th)'
    BY <2>1, <2>5, OutsideQuiet
  <2>7. \A u \in Thread : u # th => QuietOK(u)'
    BY <1>1, <2>2, <2>5 DEF QuietOK
  <2> QED BY <1>1, <2>4, <2>6, <2>7 DEF QuietInv, MutexInv
<1>3. CASE PlaceStep(th)
  <2>1. PeekMutex'
    BY <1>1, <1>3, OutsideMutex, LockMutex, DrainMutex DEF PlaceStep
  <2>2. \A u \in Thread : QuietOK(u)'
    BY <1>1, <1>3, StepQuiet
  <2> QED BY <1>1, <2>1, <2>2 DEF QuietInv, MutexInv
<1> QED BY <1>2, <1>3 DEF Step

LEMMA CareNext == ASSUME CareInv, [Next]_vars PROVE CareInv'
<1>1. ExecInv'
  BY ExecStep DEF CareInv
<1>2. CASE UNCHANGED vars
  <2>1. MutexInv'
    BY <1>1, <1>2 DEF CareInv, QuietInv, MutexInv, PeekMutex, ExecInv, TypeOK, vars,
       placeVars
  <2>2. \A u \in Thread : QuietOK(u)'
    BY <1>2 DEF CareInv, QuietInv, QuietOK, vars, placeVars
  <2>3. \A u \in Thread : ThreadOK(u)'
    BY <1>2 DEF CareInv, ThreadOK, Noticed, Attentive, vars, placeVars, fireVars
  <2> QED BY <1>1, <2>1, <2>2, <2>3 DEF CareInv, QuietInv
<1>3. ASSUME NEW th \in Thread, Step(th) PROVE CareInv'
  <2>1. QuietInv'
    BY <1>1, <1>3, CareQuiet DEF ExecInv
  <2>2. ThreadsOK'
    BY <1>3, CareThreads
  <2> QED BY <1>1, <2>1, <2>2 DEF CareInv, ThreadsOK
<1> QED BY <1>2, <1>3 DEF Next

LEMMA CareInit == ASSUME Init PROVE CareInv
<1>1. ExecInv
  BY ExecInit
<1>2. /\ \A th \in Thread : fire[th] = Idle /\ call[th] = NoCall
      /\ disturbed = {} /\ peekMu = [p \in Place |-> None]
  BY DEF Init, PlaceInit
<1>3. NoCall.pc = "idle" /\ Idle.pc = "idle"
  BY DEF NoCall, Request, Idle, NewFire
<1>4. PeekMutex
  BY <1>2, <1>3, PlaceAssumption DEF PeekMutex, DrainSteps
<1>5. \A th \in Thread : QuietOK(th)
  BY <1>2, <1>3 DEF QuietOK, Quiet, DrainSteps
<1>6. \A th \in Thread : ThreadOK(th)
  BY <1>2, <1>3 DEF ThreadOK, Looking, Noticed, Attentive, Judged
<1> QED BY <1>1, <1>4, <1>5, <1>6 DEF CareInv, QuietInv, MutexInv, ExecInv, TypeOK

(* A step of another thread, or another step, does not end the consumption. *)
LEMMA ConsumptionEnds ==
  ASSUME TypeOK, FiresOK, [Next]_vars, NEW th \in Thread,
         fire[th].pc = "consume", fire'[th].pc # "consume"
  PROVE  Consumed(th) /\ UNCHANGED tokens
<1>1. PICK u \in Thread : Step(u)
  BY DEF Next, vars, fireVars
<1>2. FireStep(u)
  BY <1>1 DEF Step, fireVars
<1>3. u = th
  <2>1. PICK g, c : SetFire(u, g) /\ Set(u, c)
    BY <1>2, FireStepOutcome DEF Outcome, Becomes
  <2> QED BY <2>1, SetOne
<1> QED BY <1>2, <1>3 DEF FireStep, Call, Lock, Checked, Guard, Task, RolledBack,
   Produced, Returned

(* A firing that no other thread disturbs, from its first look at an input  *)
(* place to its last removal, does not fail in the middle                   *)
(* (petri/executor.go: consumeInputTokens), and the task gets exactly the   *)
(* tokens that IsEnabled and the guard have seen                            *)
(* (petri/transition.go: IsEnabled).                                        *)
THEOREM QuietFiringIsFaithful == Spec => QuietFiringTakesWhatGuardSaw
<1>1. Init => CareInv
  BY CareInit
<1>2. CareInv /\ [Next]_vars => CareInv'
  BY CareNext
<1>3. CareInv /\ [Next]_vars =>
        [\A th \in Thread :
           LET f == fire[th]
               g == fire'[th] IN
           f.pc = "consume" /\ g.pc # "consume" /\ f.mode # "FireUnchecked"
             /\ OneArcPerPlace(f.t) /\ th \notin interfered
           => /\ g.pc = "task"
              /\ [i \in DOMAIN g.inputs |-> g.inputs[i].tok] = f.snapshot]_vars
  <2> SUFFICES ASSUME CareInv, [Next]_vars, NEW th \in Thread,
                      fire[th].pc = "consume", fire'[th].pc # "consume",
                      fire[th].mode # "FireUnchecked",
                      OneArcPerPlace(fire[th].t), th \notin interfered
               PROVE  /\ fire'[th].pc = "task"
                      /\ [i \in DOMAIN fire'[th].inputs |-> fire'[th].inputs[i].tok]
                           = fire[th].snapshot
    OBVIOUS
  <2>1. TypeOK /\ FiresOK /\ Attentive(th)
    BY DEF CareInv, ExecInv, ThreadOK
  <2>2. Sound(fire[th], call[th], tokens)
    BY <2>1 DEF Attentive, Judged
  <2>3. Consumed(th) /\ UNCHANGED tokens
    BY <2>1, ConsumptionEnds
  <2> QED BY <2>1, <2>2, <2>3, ConsumedCare
<1> QED BY <1>1, <1>2, <1>3, PTL DEF Spec, QuietFiringTakesWhatGuardSaw

=============================================================================
