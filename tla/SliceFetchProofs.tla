-------------------------- MODULE SliceFetchProofs --------------------------
(***************************************************************************)
(* What holds of a get of a sharded tensor for every complete layout, for  *)
(* tensors of any shape and every requested slice: the sub-requests ask    *)
(* for what was asked, each part goes where it belongs, a view into the    *)
(* destination is one run of its memory, and no get of a cell fails.       *)
(***************************************************************************)
EXTENDS SliceFetch, TensorGeometryProofs

-----------------------------------------------------------------------------
(* Indices and cells *)

(* The cells of a slice are its indices, moved by its offsets. *)
LEMMA CellsAreMoved ==
  ASSUME NEW D, NEW shape \in [D -> 0..Extent], NEW s \in SlicesOf(shape)
  PROVE  /\ \A i \in Index(s.local_shape) :
              /\ Plus(i, s.offsets) \in Cells(s)
              /\ Minus(Plus(i, s.offsets), s.offsets) = i
         /\ \A x \in Cells(s) :
              /\ Minus(x, s.offsets) \in Index(s.local_shape)
              /\ Plus(Minus(x, s.offsets), s.offsets) = x
<1>1. /\ Dims(s) = D /\ DOMAIN s.local_shape = D
      /\ \A d \in D :
           /\ s.offsets[d] \in Nat /\ s.local_shape[d] \in Nat
           /\ End(s, d) = s.offsets[d] + s.local_shape[d]
           /\ s.offsets[d] + s.local_shape[d] <= Extent
  BY SliceFacts
<1>2. ASSUME NEW i \in Index(s.local_shape)
      PROVE  /\ Plus(i, s.offsets) \in Cells(s)
             /\ Minus(Plus(i, s.offsets), s.offsets) = i
  <2>1. /\ i \in [D -> 0..(Extent - 1)]
        /\ \A d \in D : i[d] \in Nat /\ i[d] < s.local_shape[d]
    BY <1>1, ExtentAssumption DEF Index
  <2>2. \A d \in D : /\ i[d] + s.offsets[d] \in 0..(Extent - 1)
                     /\ s.offsets[d] <= i[d] + s.offsets[d]
                     /\ i[d] + s.offsets[d] < End(s, d)
                     /\ (i[d] + s.offsets[d]) - s.offsets[d] = i[d]
    BY <1>1, <2>1, ExtentAssumption
  <2>3. Plus(i, s.offsets) = [d \in D |-> i[d] + s.offsets[d]]
    BY <2>1 DEF Plus
  <2>4. Plus(i, s.offsets) \in Cells(s)
    BY <1>1, <2>2, <2>3 DEF Cells
  <2>5. Minus(Plus(i, s.offsets), s.offsets) = i
    BY <2>1, <2>2, <2>3 DEF Minus
  <2> QED BY <2>4, <2>5
<1>3. ASSUME NEW x \in Cells(s)
      PROVE  /\ Minus(x, s.offsets) \in Index(s.local_shape)
             /\ Plus(Minus(x, s.offsets), s.offsets) = x
  <2>1. /\ x \in [D -> 0..(Extent - 1)]
        /\ \A d \in D : /\ x[d] \in Nat /\ x[d] <= Extent - 1
                         /\ s.offsets[d] <= x[d] /\ x[d] < End(s, d)
    BY <1>1, ExtentAssumption DEF Cells
  <2>2. \A d \in D : /\ x[d] - s.offsets[d] \in 0..(Extent - 1)
                     /\ x[d] - s.offsets[d] < s.local_shape[d]
                     /\ (x[d] - s.offsets[d]) + s.offsets[d] = x[d]
    BY <1>1, <2>1, ExtentAssumption
  <2>3. Minus(x, s.offsets) = [d \in D |-> x[d] - s.offsets[d]]
    BY <2>1 DEF Minus
  <2>4. Minus(x, s.offsets) \in Index(s.local_shape)
    BY <1>1, <2>2, <2>3 DEF Index
  <2>5. Plus(Minus(x, s.offsets), s.offsets) = x
    BY <2>1, <2>2, <2>3 DEF Plus
  <2> QED BY <2>4, <2>5
<1> QED BY <1>2, <1>3

-----------------------------------------------------------------------------
(* What is asked, and where *)

Located ==
  LET shape == want.global_shape
  IN  /\ shape \in Seq(0..Extent)
      /\ ShardsOf(stored, shape)
      /\ want \in SlicesOf(shape)
      /\ ~given => want = Whole(shape)

(* A slice that lies in the one that is asked for. *)
IsPiece(s) ==
  /\ s \in SlicesOf(want.global_shape)
  /\ \A d \in Dims(want) :
       want.offsets[d] <= s.offsets[d] /\ End(s, d) <= End(want, d)

LEMMA WantFacts ==
  ASSUME Located
  PROVE  /\ IsFiniteSet(Dims(want)) /\ Dims(want) \subseteq Int
         /\ want.global_shape \in [Dims(want) -> 0..Extent]
         /\ want \in SlicesOf(want.global_shape)
         /\ DOMAIN want.local_shape = Dims(want)
         /\ want.offsets \in [Dims(want) -> Nat]
         /\ want.local_shape \in [Dims(want) -> Nat]
         /\ \A d \in Dims(want) :
              /\ want.offsets[d] \in Nat /\ want.local_shape[d] \in Nat
              /\ End(want, d) = want.offsets[d] + want.local_shape[d]
              /\ End(want, d) <= Extent
<1> DEFINE shape == want.global_shape
<1>1. shape \in Seq(0..Extent) /\ want \in SlicesOf(shape)
  BY DEF Located
<1>2. Dims(want) = 1..Len(shape) /\ Len(shape) \in Nat
      /\ shape \in [Dims(want) -> 0..Extent]
  <2>1. \A T : \A seq \in Seq(T) : /\ Len(seq) \in Nat
                                  /\ seq \in [1..Len(seq) -> T]
    OBVIOUS
  <2>2. Len(shape) \in Nat /\ shape \in [1..Len(shape) -> 0..Extent]
    BY <1>1, <2>1
  <2>3. Dims(want) = 1..Len(shape)
    BY <2>2 DEF Dims
  <2> QED BY <2>2, <2>3
<1>3. IsFiniteSet(1..Len(shape))
  BY <1>2, FS_Interval
<1>4. IsFiniteSet(Dims(want)) /\ Dims(want) \subseteq Int
  BY <1>2, <1>3
<1> HIDE DEF shape
<1>5. want \in SlicesOf(shape) /\ shape \in [Dims(want) -> 0..Extent]
  BY <1>1, <1>2
<1>6. /\ want.offsets \in [Dims(want) -> Nat]
      /\ want.local_shape \in [Dims(want) -> Nat]
      /\ \A d \in Dims(want) :
           /\ want.offsets[d] \in Nat /\ want.local_shape[d] \in Nat
           /\ End(want, d) = want.offsets[d] + want.local_shape[d]
           /\ End(want, d) <= Extent
  BY <1>5, SliceFacts
<1> QED BY <1>4, <1>5, <1>6 DEF shape

LEMMA PieceFacts ==
  ASSUME Located, NEW s, IsPiece(s)
  PROVE  /\ s.offsets \in [Dims(want) -> Nat]
         /\ s.local_shape \in [Dims(want) -> Nat]
         /\ Dims(s) = Dims(want)
         /\ \A d \in Dims(want) :
              /\ s.offsets[d] \in Nat /\ s.local_shape[d] \in Nat
              /\ End(s, d) = s.offsets[d] + s.local_shape[d]
              /\ want.offsets[d] <= s.offsets[d] /\ End(s, d) <= End(want, d)
<1> DEFINE shape == want.global_shape
<1>1. shape \in [Dims(want) -> 0..Extent] /\ s \in SlicesOf(shape)
  BY WantFacts DEF IsPiece
<1> HIDE DEF shape
<1> QED BY <1>1, SliceFacts DEF IsPiece

(* A piece has no cell that was not asked for. *)
LEMMA PieceIsAsked ==
  ASSUME Located, NEW s, IsPiece(s)
  PROVE  Cells(s) \subseteq Cells(want)
<1>1. Dims(s) = Dims(want)
  BY PieceFacts
<1>2. ASSUME NEW x \in Cells(s) PROVE x \in Cells(want)
  <2>1. x \in [Dims(want) -> 0..(Extent - 1)]
    BY <1>1 DEF Cells
  <2>2. ASSUME NEW d \in Dims(want)
        PROVE  want.offsets[d] <= x[d] /\ x[d] < End(want, d)
    <3>1. x[d] \in Int /\ s.offsets[d] <= x[d] /\ x[d] < End(s, d)
      BY <1>1, <2>1, ExtentAssumption DEF Cells
    <3> QED BY <3>1, PieceFacts, WantFacts
  <2> QED BY <2>1, <2>2 DEF Cells
<1> QED BY <1>2

-----------------------------------------------------------------------------
(* Where the parts are put together *)

(* Slices that touch the first and the last corner of what is asked for.   *)
Spans(S) ==
  /\ \E s \in S : s.offsets = want.offsets
  /\ \A d \in Dims(want) : \E s \in S : End(s, d) = End(want, d)

LEMMA TargetIsWant ==
  ASSUME Located, NEW S, \A s \in S : IsPiece(s), Spans(S)
  PROVE  TargetOffset(S) = want.offsets /\ TargetShape(S) = want.local_shape
<1> DEFINE D == Dims(want)
<1>1. IsFiniteSet(D) /\ D \subseteq Int /\ want.offsets \in [D -> Nat]
      /\ want.local_shape \in [D -> Nat]
  BY WantFacts
<1>2. ASSUME NEW s \in S
      PROVE  /\ s.offsets \in [D -> Nat]
             /\ \A d \in D : /\ want.offsets[d] <= s.offsets[d]
                             /\ End(s, d) <= End(want, d) /\ End(s, d) \in Int
  BY PieceFacts
<1>3. \A s \in S : ~LexBefore(s.offsets, want.offsets)
  <2> SUFFICES ASSUME NEW s \in S, LexBefore(s.offsets, want.offsets) PROVE FALSE
    OBVIOUS
  <2>1. DOMAIN s.offsets = D
    BY <1>2
  <2>2. PICK d \in D : s.offsets[d] < want.offsets[d]
    BY <2>1 DEF LexBefore
  <2>3. /\ s.offsets[d] \in Nat /\ want.offsets[d] \in Nat
        /\ want.offsets[d] <= s.offsets[d]
    BY <1>1, <1>2
  <2> QED BY <2>2, <2>3
<1>4. TargetOffset(S) = want.offsets
  <2> DEFINE good(o) == \A s \in S : ~LexBefore(s.offsets, o)
             O == { s.offsets : s \in S }
  <2>1. want.offsets \in O /\ good(want.offsets)
    BY <1>3 DEF Spans
  <2>2. ASSUME NEW o \in O, good(o) PROVE o = want.offsets
    <3>1. ~LexBefore(want.offsets, o)
      BY <2>2 DEF Spans
    <3>2. ~LexBefore(o, want.offsets)
      BY <1>3
    <3>3. o \in [D -> Int] /\ want.offsets \in [D -> Int]
      BY <1>1, <1>2
    <3> HIDE DEF O, D
    <3> QED BY <1>1, <3>1, <3>2, <3>3, LexIsTotal
  <2>3. TargetOffset(S) = CHOOSE o \in O : good(o)
    BY DEF TargetOffset
  <2> HIDE DEF O, good
  <2> QED BY <2>1, <2>2, <2>3
<1>5. ASSUME NEW d \in D PROVE TargetEnd(S, d) = End(want, d)
  <2> DEFINE E == { End(s, d) : s \in S }
             good(e) == \A s \in S : End(s, d) <= e
  <2>1. End(want, d) \in E
    BY DEF Spans
  <2>2. good(End(want, d))
    BY <1>2
  <2>3. ASSUME NEW e \in E, good(e) PROVE e = End(want, d)
    <3>1. e <= End(want, d) /\ e \in Int
      BY <1>2
    <3>2. End(want, d) <= e /\ End(want, d) \in Int
      BY <1>2, <2>1, <2>3
    <3> HIDE DEF E
    <3> QED BY <3>1, <3>2
  <2>4. TargetEnd(S, d) = CHOOSE e \in E : good(e)
    BY DEF TargetEnd
  <2> HIDE DEF E, good
  <2> QED BY <2>1, <2>2, <2>3, <2>4
<1>6. ASSUME NEW d \in D
      PROVE  MaxOf(0, TargetEnd(S, d) - TargetOffset(S)[d]) = want.local_shape[d]
  <2>1. /\ want.offsets[d] \in Nat /\ want.local_shape[d] \in Nat
        /\ End(want, d) = want.offsets[d] + want.local_shape[d]
    BY WantFacts
  <2>2. TargetEnd(S, d) - TargetOffset(S)[d] = want.local_shape[d]
    BY <1>4, <1>5, <2>1
  <2> QED BY <2>1, <2>2 DEF MaxOf
<1>7. DOMAIN TargetOffset(S) = D
  BY <1>1, <1>4
<1>8. TargetShape(S)
        = [d \in D |-> MaxOf(0, TargetEnd(S, d) - TargetOffset(S)[d])]
  BY <1>7 DEF TargetShape
<1>9. TargetShape(S) = want.local_shape
  <2> HIDE DEF D
  <2> QED BY <1>1, <1>6, <1>8
<1> QED BY <1>4, <1>9

(* The tensor that a piece is: its cells. *)
Content(s) == [i \in Index(s.local_shape) |-> Plus(i, s.offsets)]

(* Where the cells of a slice lie in a tensor that starts where want does. *)
Holds(tensor, s) == \A x \in Cells(s) : tensor[Minus(x, want.offsets)] = x

(* A tensor of the shape of want. *)
IsTensor(t) == t = [i \in Index(want.local_shape) |-> t[i]]

(* A piece is written to where its cells belong, and nowhere else. *)
LEMMA WriteIsRight ==
  ASSUME Located, NEW s, IsPiece(s), NEW tensor, IsTensor(tensor), NEW new,
         new = Write(tensor, Content(s), Minus(s.offsets, want.offsets))
  PROVE  /\ IsTensor(new) /\ Holds(new, s)
         /\ \A p : IsPiece(p) /\ Holds(tensor, p) => Holds(new, p)
<1> DEFINE D == Dims(want)
           shape == want.global_shape
           start == Minus(s.offsets, want.offsets)
<1>1. DOMAIN tensor = Index(want.local_shape)
  BY DEF IsTensor
<1>2. new = [i \in Index(want.local_shape) |->
               IF Minus(i, start) \in Index(s.local_shape)
               THEN Plus(Minus(i, start), s.offsets) ELSE tensor[i]]
  <2>1. DOMAIN Content(s) = Index(s.local_shape)
    BY DEF Content
  <2>2. new = [i \in DOMAIN tensor |->
               IF Minus(i, start) \in DOMAIN Content(s)
               THEN Content(s)[Minus(i, start)] ELSE tensor[i]]
    BY DEF Write
  <2> QED BY <1>1, <2>1, <2>2 DEF Content
<1>3. shape \in [D -> 0..Extent] /\ s \in SlicesOf(shape) /\ want \in SlicesOf(shape)
  BY WantFacts DEF IsPiece
<1>4. ASSUME NEW x \in Cells(want)
      PROVE  Minus(Minus(x, want.offsets), start) = Minus(x, s.offsets)
  <2>1. x \in [D -> Int]
    BY ExtentAssumption DEF Cells
  <2>2. want.offsets \in [D -> Nat] /\ s.offsets \in [D -> Nat]
    BY WantFacts, PieceFacts
  <2>3. \A d \in D : (x[d] - want.offsets[d]) - (s.offsets[d] - want.offsets[d])
                       = x[d] - s.offsets[d]
    BY <2>1, <2>2
  <2>4. /\ Minus(x, want.offsets) = [d \in D |-> x[d] - want.offsets[d]]
        /\ start = [d \in D |-> s.offsets[d] - want.offsets[d]]
        /\ Minus(x, s.offsets) = [d \in D |-> x[d] - s.offsets[d]]
    BY <2>1, <2>2 DEF Minus
  <2> HIDE DEF D, start
  <2> QED BY <2>3, <2>4 DEF Minus
<1> HIDE DEF shape, start
<1>5. ASSUME NEW x \in Cells(want)
      PROVE  Minus(x, want.offsets) \in Index(want.local_shape)
  BY <1>3, CellsAreMoved
<1>6. ASSUME NEW x \in Cells(s)
      PROVE  new[Minus(x, want.offsets)] = x
  <2>1. x \in Cells(want)
    BY PieceIsAsked
  <2>2. /\ Minus(x, s.offsets) \in Index(s.local_shape)
        /\ Plus(Minus(x, s.offsets), s.offsets) = x
    BY <1>3, CellsAreMoved
  <2> QED BY <1>2, <1>4, <1>5, <2>1, <2>2
<1>7. ASSUME NEW x \in Cells(want), x \notin Cells(s)
      PROVE  new[Minus(x, want.offsets)] = tensor[Minus(x, want.offsets)]
  <2>1. Minus(x, s.offsets) \notin Index(s.local_shape)
    <3> SUFFICES ASSUME Minus(x, s.offsets) \in Index(s.local_shape) PROVE FALSE
      OBVIOUS
    <3>1. Plus(Minus(x, s.offsets), s.offsets) \in Cells(s)
      BY <1>3, CellsAreMoved
    <3>2. Plus(Minus(x, s.offsets), s.offsets) = x
      <4>1. x \in [D -> Int]
        BY ExtentAssumption DEF Cells
      <4>2. s.offsets \in [D -> Nat]
        BY PieceFacts
      <4>3. \A d \in D : (x[d] - s.offsets[d]) + s.offsets[d] = x[d]
        BY <4>1, <4>2
      <4>4. Minus(x, s.offsets) = [d \in D |-> x[d] - s.offsets[d]]
        BY <4>1 DEF Minus
      <4> HIDE DEF D
      <4> QED BY <4>1, <4>3, <4>4 DEF Plus
    <3> QED BY <1>7, <3>1, <3>2
  <2> QED BY <1>2, <1>4, <1>5, <2>1
<1>8. IsTensor(new)
  BY <1>2 DEF IsTensor
<1>9. ASSUME NEW p, IsPiece(p), Holds(tensor, p) PROVE Holds(new, p)
  BY <1>6, <1>7, <1>9, PieceIsAsked DEF Holds
<1> QED BY <1>6, <1>8, <1>9 DEF Holds

(* A tensor that holds every cell is what was expected. *)
LEMMA HoldsAll ==
  ASSUME Located, NEW tensor, IsTensor(tensor), NEW S,
         \A s \in S : Holds(tensor, s),
         UNION { Cells(s) : s \in S } = Cells(want)
  PROVE  tensor = Expected
<1>1. /\ want.global_shape \in [Dims(want) -> 0..Extent]
      /\ want \in SlicesOf(want.global_shape)
  BY WantFacts
<1>2. ASSUME NEW i \in Index(want.local_shape)
      PROVE  tensor[i] = Plus(i, want.offsets)
  <2>1. /\ Plus(i, want.offsets) \in Cells(want)
        /\ Minus(Plus(i, want.offsets), want.offsets) = i
    BY <1>1, CellsAreMoved
  <2>2. PICK s \in S : Plus(i, want.offsets) \in Cells(s)
    BY <2>1
  <2> QED BY <2>1, <2>2 DEF Holds
<1> QED BY <1>2 DEF IsTensor, Expected

-----------------------------------------------------------------------------
(* Views are runs of memory *)

LEMMA PositionIsRank ==
  ASSUME Located
  PROVE  \E R :
           /\ IsFiniteSet(Index(want.local_shape))
           /\ IsOrder(Index(want.local_shape), R)
           /\ \A i, j \in Index(want.local_shape) : <<i, j>> \in R <=> LexBefore(i, j)
           /\ \A i \in Index(want.local_shape) :
                Position(i) = Cardinality(Under(Index(want.local_shape), R, i))
<1> DEFINE I == Index(want.local_shape)
           D == Dims(want)
           R == { e \in I \X I : LexBefore(e[1], e[2]) }
           f == [x \in Cells(want) |-> Minus(x, want.offsets)]
<1>1. /\ IsFiniteSet(D) /\ D \subseteq Int /\ DOMAIN want.local_shape = D
      /\ want.global_shape \in [D -> 0..Extent]
      /\ want \in SlicesOf(want.global_shape)
  BY WantFacts
<1>2. IsFiniteSet(I)
  <2>1. IsFiniteSet(Cells(want))
    BY <1>1, NumelCounts
  <2>2. \A x \in Cells(want) : f[x] \in I
    BY <1>1, CellsAreMoved
  <2>3. \A i \in I : \E x \in Cells(want) : f[x] = i
    BY <1>1, CellsAreMoved
  <2> HIDE DEF I
  <2>4. f \in Surjection(Cells(want), I)
    BY <2>2, <2>3 DEF Surjection
  <2> QED BY <2>1, <2>4, FS_Surjection
<1>3. \A i, j \in I : <<i, j>> \in R <=> LexBefore(i, j)
  OBVIOUS
<1>4. I \subseteq [D -> Int]
  BY <1>1, ExtentAssumption DEF Index
<1>5. \A i \in I : Position(i) = Cardinality(Under(I, R, i))
  <2> TAKE i \in I
  <2>1. Under(I, R, i) = { j \in I : LexBefore(j, i) }
    BY <1>3 DEF Under
  <2> HIDE DEF R
  <2> QED BY <2>1 DEF Position
<1> HIDE DEF I, R, D
<1>6. IsOrder(I, R)
  BY <1>1, <1>3, <1>4, LexIsOrder
<1> QED BY <1>2, <1>3, <1>5, <1>6 DEF I

LEMMA LexFrom ==
  ASSUME NEW i, NEW j, NEW d \in DOMAIN i, i[d] < j[d],
         \A e \in DOMAIN i : e < d => i[e] = j[e]
  PROVE  LexBefore(i, j)
BY DEF LexBefore

(* An index between two indices of a contiguous piece lies in the piece. *)
LEMMA BetweenIsInside ==
  ASSUME Located, NEW s, IsPiece(s), Contiguous(s.local_shape, want.local_shape),
         NEW x \in Cells(s), NEW y \in Cells(s), NEW z \in Index(want.local_shape),
         ~LexBefore(z, Minus(x, want.offsets)), ~LexBefore(Minus(y, want.offsets), z)
  PROVE  Plus(z, want.offsets) \in Cells(s)
<1> DEFINE D == Dims(want)
           v == Plus(z, want.offsets)
           bad == { d \in D : ~(s.offsets[d] <= v[d] /\ v[d] < End(s, d)) }
<1>1. /\ IsFiniteSet(D) /\ D \subseteq Int /\ DOMAIN want.local_shape = D
      /\ \A d \in D : /\ want.offsets[d] \in Nat /\ want.local_shape[d] \in Nat
                      /\ End(want, d) = want.offsets[d] + want.local_shape[d]
      /\ want.global_shape \in [D -> 0..Extent]
      /\ want \in SlicesOf(want.global_shape)
  BY WantFacts
<1>2. /\ Dims(s) = D /\ DOMAIN s.local_shape = D
      /\ \A d \in D : /\ s.offsets[d] \in Nat /\ s.local_shape[d] \in Nat
                      /\ End(s, d) = s.offsets[d] + s.local_shape[d]
                      /\ want.offsets[d] <= s.offsets[d] /\ End(s, d) <= End(want, d)
  BY PieceFacts
<1>3. v \in Cells(want)
  BY <1>1, CellsAreMoved
<1>4. /\ v \in [D -> 0..(Extent - 1)]
      /\ \A d \in D : /\ v[d] \in Nat
                      /\ want.offsets[d] <= v[d] /\ v[d] < End(want, d)
  BY <1>3, ExtentAssumption DEF Cells
<1>5. z \in [D -> Int] /\ \A d \in D : v[d] = z[d] + want.offsets[d]
  BY <1>1, ExtentAssumption DEF Index, Plus
<1>6. /\ x \in [D -> Int] /\ y \in [D -> Int]
      /\ \A d \in D : /\ s.offsets[d] <= x[d] /\ x[d] < End(s, d)
                      /\ s.offsets[d] <= y[d] /\ y[d] < End(s, d)
  BY <1>2, ExtentAssumption DEF Cells
<1>7. /\ Minus(x, want.offsets) = [d \in D |-> x[d] - want.offsets[d]]
      /\ Minus(y, want.offsets) = [d \in D |-> y[d] - want.offsets[d]]
  BY <1>6 DEF Minus
<1>8. \A d \in D : s.local_shape[d] = 1
                   \/ \A e \in D : e > d => s.local_shape[e] = want.local_shape[e]
  <2>1. \A d \in D : s.local_shape[d] # 0
    BY <1>2, <1>6
  <2> QED BY <1>2, <2>1 DEF Contiguous
<1>9. bad = {}
  <2> SUFFICES ASSUME bad # {} PROVE FALSE
    OBVIOUS
  <2>1. bad \in SUBSET D /\ bad \in SUBSET Int
    BY <1>1
  <2>2. IsFiniteSet(bad)
    BY <1>1, <2>1, FS_Subset
  <2>3. PICK d \in bad : \A e \in bad : d <= e
    <3> HIDE DEF bad
    <3> QED BY <2>1, <2>2, SmallestNumber
  <2>4. d \in D /\ d \in Int /\ \A e \in D : e \in Int
    BY <1>1
  <2>5. \A e \in D : e < d => s.offsets[e] <= v[e] /\ v[e] < End(s, e)
    BY <2>3, <2>4
  <2>6. CASE \E c \in D : c < d /\ s.local_shape[c] # 1
    <3>1. s.local_shape[d] = want.local_shape[d]
      BY <1>8, <2>4, <2>6
    <3>2. s.offsets[d] = want.offsets[d] /\ End(s, d) = End(want, d)
      <4>1. /\ want.offsets[d] \in Nat /\ want.local_shape[d] \in Nat
            /\ End(want, d) = want.offsets[d] + want.local_shape[d]
        BY <1>1, <2>4
      <4>2. /\ s.offsets[d] \in Nat /\ want.offsets[d] <= s.offsets[d]
            /\ End(s, d) = s.offsets[d] + s.local_shape[d]
            /\ End(s, d) <= End(want, d)
        BY <1>2, <2>4
      <4> HIDE DEF v, bad, D
      <4> QED BY <3>1, <4>1, <4>2
    <3>3. want.offsets[d] <= v[d] /\ v[d] < End(want, d)
      BY <1>4, <2>4
    <3>4. ~(s.offsets[d] <= v[d] /\ v[d] < End(s, d))
      BY <2>3
    <3> HIDE DEF v
    <3> QED BY <3>2, <3>3, <3>4
  <2>7. CASE \A c \in D : c < d => s.local_shape[c] = 1
    <3>1. \A c \in D : c < d => v[c] = x[c] /\ v[c] = y[c]
      <4> SUFFICES ASSUME NEW c \in D, c < d PROVE v[c] = x[c] /\ v[c] = y[c]
        OBVIOUS
      <4>1. End(s, c) = s.offsets[c] + 1 /\ s.offsets[c] \in Nat
        BY <1>2, <2>7
      <4>2. s.offsets[c] <= v[c] /\ v[c] < End(s, c) /\ v[c] \in Nat
        BY <1>4, <2>5
      <4>3. /\ s.offsets[c] <= x[c] /\ x[c] < End(s, c) /\ x[c] \in Int
            /\ s.offsets[c] <= y[c] /\ y[c] < End(s, c) /\ y[c] \in Int
        BY <1>6
      <4> HIDE DEF v, D
      <4> QED BY <4>1, <4>2, <4>3
    <3>2. \A c \in D : /\ z[c] = v[c] - want.offsets[c]
                       /\ z[c] \in Int /\ want.offsets[c] \in Nat
      BY <1>1, <1>4, <1>5
    <3> HIDE DEF v
    <3>3. CASE v[d] < s.offsets[d]
      <4>1. v[d] < x[d] /\ x[d] \in Int
        BY <1>2, <1>4, <1>6, <2>4, <3>3
      <4>2. z[d] < Minus(x, want.offsets)[d]
        BY <1>4, <1>7, <2>4, <3>2, <4>1
      <4>3. \A c \in D : c < d => z[c] = Minus(x, want.offsets)[c]
        BY <1>7, <3>1, <3>2
      <4>4. DOMAIN z = D
        BY <1>5
      <4> HIDE DEF D
      <4> QED BY <2>4, <4>2, <4>3, <4>4, LexFrom
    <3>4. CASE v[d] >= End(s, d)
      <4>1. y[d] < v[d] /\ y[d] \in Int
        BY <1>2, <1>4, <1>6, <2>4, <3>4
      <4>2. Minus(y, want.offsets)[d] < z[d]
        BY <1>4, <1>7, <2>4, <3>2, <4>1
      <4>3. \A c \in D : c < d => Minus(y, want.offsets)[c] = z[c]
        BY <1>7, <3>1, <3>2
      <4>4. DOMAIN Minus(y, want.offsets) = D
        BY <1>7
      <4> HIDE DEF D
      <4> QED BY <2>4, <4>2, <4>3, <4>4, LexFrom
    <3>5. ~(s.offsets[d] <= v[d] /\ v[d] < End(s, d))
      BY <2>3
    <3> QED BY <1>2, <1>4, <2>4, <3>3, <3>4, <3>5
  <2> QED BY <2>6, <2>7
<1>10. v \in Cells(s)
  BY <1>2, <1>4, <1>9 DEF Cells
<1> QED BY <1>10

LEMMA ViewIsRun ==
  ASSUME Located, NEW s, IsPiece(s), Contiguous(s.local_shape, want.local_shape),
         NEW at, at = { Position(Minus(x, want.offsets)) : x \in Cells(s) },
         NEW m \in at, NEW n \in at, NEW q \in m..n
  PROVE  q \in at
<1> DEFINE I == Index(want.local_shape)
<1>1. PICK R : /\ IsFiniteSet(I) /\ IsOrder(I, R)
               /\ \A i, j \in I : <<i, j>> \in R <=> LexBefore(i, j)
               /\ \A i \in I : Position(i) = Cardinality(Under(I, R, i))
  BY PositionIsRank
<1> HIDE DEF I
<1>2. /\ \A i \in I : Position(i) \in Nat /\ Position(i) < Cardinality(I)
      /\ \A i, j \in I : LexBefore(i, j) => Position(i) < Position(j)
  BY <1>1, RankGrows
<1>3. PICK x \in Cells(s) : m = Position(Minus(x, want.offsets))
  OBVIOUS
<1>4. PICK y \in Cells(s) : n = Position(Minus(y, want.offsets))
  OBVIOUS
<1>5. x \in Cells(want) /\ y \in Cells(want)
  BY PieceIsAsked
<1>6. /\ want.global_shape \in [Dims(want) -> 0..Extent]
      /\ want \in SlicesOf(want.global_shape)
  BY WantFacts
<1>7. Minus(x, want.offsets) \in I /\ Minus(y, want.offsets) \in I
  BY <1>5, <1>6, CellsAreMoved DEF I
<1>8. m \in Nat /\ n \in Nat /\ n < Cardinality(I) /\ Cardinality(I) \in Nat
  BY <1>1, <1>2, <1>3, <1>4, <1>7, FS_CardinalityType
<1>9. q \in Nat /\ m <= q /\ q <= n /\ q < Cardinality(I)
  BY <1>8
<1>10. PICK z \in I : Position(z) = q
  <2>1. PICK z \in I : Cardinality(Under(I, R, z)) = q
    BY <1>1, <1>9, RankExists
  <2> QED BY <1>1, <2>1
<1>11. ~LexBefore(z, Minus(x, want.offsets))
  <2> SUFFICES ASSUME LexBefore(z, Minus(x, want.offsets)) PROVE FALSE
    OBVIOUS
  <2>1. Position(z) < m
    BY <1>2, <1>3, <1>7
  <2> QED BY <1>8, <1>9, <1>10, <2>1
<1>12. ~LexBefore(Minus(y, want.offsets), z)
  <2> SUFFICES ASSUME LexBefore(Minus(y, want.offsets), z) PROVE FALSE
    OBVIOUS
  <2>1. n < Position(z)
    BY <1>2, <1>4, <1>7
  <2> QED BY <1>8, <1>9, <1>10, <2>1
<1>13. Plus(z, want.offsets) \in Cells(s)
  BY <1>11, <1>12, BetweenIsInside DEF I
<1>14. Minus(Plus(z, want.offsets), want.offsets) = z
  BY <1>6, CellsAreMoved DEF I
<1> QED BY <1>10, <1>13, <1>14

-----------------------------------------------------------------------------
(* The sub-requests *)

(* Pieces with all cells of a slice that has any touch both its corners.   *)
LEMMA CoverSpans ==
  ASSUME Located, NEW S, \A s \in S : IsPiece(s), Cells(want) # {},
         UNION { Cells(s) : s \in S } = Cells(want)
  PROVE  Spans(S)
<1> DEFINE D == Dims(want)
           first == want.offsets
           last == [d \in D |-> End(want, d) - 1]
<1>1. /\ want.offsets \in [D -> Nat]
      /\ \A d \in D : /\ want.offsets[d] \in Nat /\ want.local_shape[d] \in Nat
                      /\ End(want, d) = want.offsets[d] + want.local_shape[d]
                      /\ End(want, d) <= Extent
  BY WantFacts
<1>2. \A d \in D : want.offsets[d] < End(want, d)
  <2>1. PICK x \in Cells(want) : TRUE
    OBVIOUS
  <2>2. \A d \in D : x[d] \in Int /\ want.offsets[d] <= x[d] /\ x[d] < End(want, d)
    BY ExtentAssumption DEF Cells
  <2> QED BY <1>1, <2>2
<1>3. first \in Cells(want)
  <2>1. \A d \in D : first[d] \in 0..(Extent - 1) /\ first[d] <= first[d]
    BY <1>1, <1>2, ExtentAssumption
  <2> QED BY <1>1, <1>2, <2>1 DEF Cells
<1>4. last \in Cells(want)
  <2>1. \A d \in D : /\ End(want, d) - 1 \in 0..(Extent - 1)
                     /\ want.offsets[d] <= End(want, d) - 1
                     /\ End(want, d) - 1 < End(want, d)
    BY <1>1, <1>2, ExtentAssumption
  <2> QED BY <2>1 DEF Cells
<1>5. ASSUME NEW s \in S
      PROVE  /\ s.offsets \in [D -> Nat]
             /\ \A x \in Cells(s) : \A d \in D :
                  s.offsets[d] <= x[d] /\ x[d] < End(s, d)
             /\ \A d \in D : /\ want.offsets[d] <= s.offsets[d]
                             /\ End(s, d) <= End(want, d) /\ End(s, d) \in Int
  <2>1. Dims(s) = D
    BY PieceFacts
  <2>2. \A x \in Cells(s) : \A d \in D : s.offsets[d] <= x[d] /\ x[d] < End(s, d)
    BY <2>1 DEF Cells
  <2> QED BY <2>2, PieceFacts
<1>6. \E s \in S : s.offsets = want.offsets
  <2>1. PICK s \in S : first \in Cells(s)
    BY <1>3
  <2>2. \A d \in D : /\ s.offsets[d] <= want.offsets[d]
                     /\ want.offsets[d] <= s.offsets[d]
                     /\ s.offsets[d] \in Nat /\ want.offsets[d] \in Nat
    BY <1>1, <1>5, <2>1
  <2>3. \A d \in D : s.offsets[d] = want.offsets[d]
    BY <2>2
  <2>4. s.offsets = want.offsets
    BY <1>1, <1>5, <2>3
  <2> QED BY <2>4
<1>7. \A d \in D : \E s \in S : End(s, d) = End(want, d)
  <2> TAKE d \in D
  <2>1. PICK s \in S : last \in Cells(s)
    BY <1>4
  <2>2. End(want, d) - 1 < End(s, d) /\ End(s, d) <= End(want, d) /\ End(s, d) \in Int
    BY <1>5, <2>1
  <2>3. End(want, d) \in Int
    BY <1>1
  <2>4. End(s, d) = End(want, d)
    BY <2>2, <2>3
  <2> QED BY <2>4
<1> QED BY <1>6, <1>7 DEF Spans

Needed == { s \in stored : given => Intersects(s.slice, want) }

LEMMA StoredShards ==
  ASSUME Located
  PROVE  /\ IsFiniteSet(stored)
         /\ \A s \in stored : s.slice \in SlicesOf(want.global_shape)
         /\ Cells(want) \subseteq UNION { Cells(s.slice) : s \in stored }
         /\ ~given => /\ UNION { Cells(s.slice) : s \in stored } = Cells(want)
                      /\ Spans({ s.slice : s \in stored })
<1> DEFINE shape == want.global_shape
           D == Dims(want)
<1>1. /\ ShardsOf(stored, shape) /\ shape \in [D -> 0..Extent]
      /\ want \in SlicesOf(shape) /\ (~given => want = Whole(shape))
  BY WantFacts DEF Located
<1>2. Cells(want) \subseteq Cells(Whole(shape))
  <2> SUFFICES ASSUME NEW x \in Cells(want) PROVE x \in Cells(Whole(shape))
    OBVIOUS
  <2>1. Dims(Whole(shape)) = D
    BY <1>1 DEF Whole, Dims
  <2>2. x \in [D -> 0..(Extent - 1)]
    BY DEF Cells
  <2>3. ASSUME NEW d \in D
        PROVE  Whole(shape).offsets[d] <= x[d] /\ x[d] < End(Whole(shape), d)
    <3> HIDE DEF shape, D
    <3>1. /\ x[d] \in Nat /\ x[d] < End(want, d) /\ End(want, d) <= shape[d]
          /\ End(want, d) \in Nat /\ shape[d] \in Nat
      BY <1>1, <2>2, SliceFacts, ExtentAssumption DEF Cells, D
    <3>2. d \in DOMAIN shape
      BY <1>1
    <3>3. Whole(shape).offsets[d] = 0 /\ End(Whole(shape), d) = shape[d]
      BY <3>1, <3>2 DEF Whole, End
    <3> QED BY <3>1, <3>3
  <2> HIDE DEF shape, D
  <2> QED BY <2>1, <2>2, <2>3 DEF Cells
<1>3. ASSUME ~given PROVE Spans({ s.slice : s \in stored })
  <2>1. want = Whole(shape)
    BY <1>1, <1>3
  <2>2. PICK s \in stored : s.slice.offsets = want.offsets
    BY <1>1, <2>1 DEF ShardsOf
  <2>3. \A d \in D : End(want, d) = shape[d]
    <3> TAKE d \in D
    <3>1. shape[d] \in Nat /\ d \in DOMAIN shape
      BY <1>1, ExtentAssumption
    <3> HIDE DEF shape
    <3>2. want.offsets[d] = 0 /\ want.local_shape[d] = shape[d]
      BY <2>1, <3>1 DEF Whole
    <3> QED BY <3>1, <3>2 DEF End
  <2>4. ASSUME NEW d \in D
        PROVE  \E t \in { r.slice : r \in stored } : End(t, d) = End(want, d)
    <3>1. d \in DOMAIN shape
      BY <1>1
    <3>2. PICK r \in stored : End(r.slice, d) = shape[d]
      BY <1>1, <3>1 DEF ShardsOf
    <3> QED BY <2>3, <3>2
  <2> QED BY <2>2, <2>4 DEF Spans
<1>4. ~given => UNION { Cells(s.slice) : s \in stored } = Cells(want)
  BY <1>1 DEF ShardsOf
<1> QED BY <1>1, <1>2, <1>3, <1>4 DEF ShardsOf

LEMMA NeededArePieces ==
  ASSUME Located, NEW s \in Needed
  PROVE  IsPiece(SubRequest(s).slice)
<1> DEFINE shape == want.global_shape
           D == Dims(want)
<1>1. /\ shape \in [D -> 0..Extent] /\ s.slice \in SlicesOf(shape)
      /\ want \in SlicesOf(shape)
  BY WantFacts, StoredShards DEF Needed
<1>2. \A d \in D : /\ want.offsets[d] \in Nat /\ End(want, d) \in Nat
                   /\ s.slice.offsets[d] \in Nat /\ End(s.slice, d) \in Nat
                   /\ End(s.slice, d) <= shape[d] /\ shape[d] \in Nat
  <2> HIDE DEF shape, D
  <2> QED BY <1>1, SliceFacts, ExtentAssumption
<1>3. CASE given
  <2> DEFINE c == Intersection(s.slice, want)
  <2>1. SubRequest(s).slice = c /\ Intersects(s.slice, want)
    BY <1>3 DEF SubRequest, Needed
  <2>2. c \in SlicesOf(shape)
    <3> HIDE DEF shape, D
    <3> QED BY <1>1, <2>1, IntersectionIsSlice
  <2>3. Dims(s.slice) = D
    <3> HIDE DEF shape
    <3> QED BY <1>1, SliceFacts
  <2>4. ASSUME NEW d \in D
        PROVE  want.offsets[d] <= c.offsets[d] /\ End(c, d) <= End(want, d)
    <3>1. /\ c.offsets[d] = MaxOf(s.slice.offsets[d], want.offsets[d])
          /\ c.local_shape[d] = SharedEnd(s.slice, want, d) - SharedStart(s.slice, want, d)
      BY <2>3 DEF Intersection, SharedStart
    <3>2. /\ SharedEnd(s.slice, want, d) \in Int /\ SharedStart(s.slice, want, d) \in Int
          /\ SharedEnd(s.slice, want, d) <= End(want, d)
          /\ SharedStart(s.slice, want, d) = c.offsets[d]
          /\ want.offsets[d] <= c.offsets[d]
      BY <1>2, <3>1 DEF SharedEnd, SharedStart, MaxOf, MinOf
    <3> HIDE DEF c
    <3> QED BY <3>1, <3>2 DEF End
  <2> HIDE DEF c, shape
  <2> QED BY <2>1, <2>2, <2>4 DEF IsPiece, shape
<1>4. CASE ~given
  <2>1. SubRequest(s).slice = s.slice /\ want = Whole(shape)
    BY <1>4 DEF SubRequest, Located
  <2>2. ASSUME NEW d \in D
        PROVE  want.offsets[d] <= s.slice.offsets[d] /\ End(s.slice, d) <= End(want, d)
    <3>1. d \in DOMAIN shape
      BY <1>1
    <3> HIDE DEF shape
    <3>2. want.offsets[d] = 0 /\ want.local_shape[d] = shape[d]
      BY <2>1, <3>1 DEF Whole
    <3> QED BY <1>2, <3>2 DEF End
  <2> QED BY <1>1, <2>1, <2>2 DEF IsPiece
<1> QED BY <1>3, <1>4

(* Together they are what is asked for. *)
LEMMA NeededCover ==
  ASSUME Located
  PROVE  UNION { Cells(SubRequest(s).slice) : s \in Needed } = Cells(want)
<1> DEFINE shape == want.global_shape
<1>1. /\ shape \in [Dims(want) -> 0..Extent] /\ want \in SlicesOf(shape)
      /\ \A s \in stored : s.slice \in SlicesOf(shape)
  BY WantFacts, StoredShards
<1> HIDE DEF shape
<1>2. CASE given
  <2>1. \A s \in Needed : Cells(SubRequest(s).slice) = Cells(s.slice) \cap Cells(want)
    BY <1>1, <1>2, IntersectionIsExact DEF SubRequest, Needed
  <2>2. \A s \in stored : s \notin Needed => Cells(s.slice) \cap Cells(want) = {}
    BY <1>1, <1>2, IntersectionIsExact DEF Needed
  <2>3. Cells(want) \subseteq UNION { Cells(s.slice) : s \in stored }
    BY StoredShards
  <2>4. Needed \subseteq stored
    BY DEF Needed
  <2> QED BY <2>1, <2>2, <2>3, <2>4
<1>3. CASE ~given
  <2>1. Needed = stored /\ \A s \in stored : SubRequest(s).slice = s.slice
    BY <1>3 DEF SubRequest, Needed
  <2>2. UNION { Cells(s.slice) : s \in stored } = Cells(want)
    BY <1>3, StoredShards
  <2> QED BY <2>1, <2>2
<1> QED BY <1>2, <1>3

LEMMA NeededSpan ==
  ASSUME Located, Cells(want) # {} \/ ~given
  PROVE  Spans({ SubRequest(s).slice : s \in Needed }) /\ Needed # {}
<1> DEFINE S == { SubRequest(s).slice : s \in Needed }
<1>1. Spans(S)
  <2>1. CASE Cells(want) # {}
    <3>1. \A s \in S : IsPiece(s)
      BY NeededArePieces
    <3>2. UNION { Cells(s) : s \in S } = UNION { Cells(SubRequest(s).slice) : s \in Needed }
      OBVIOUS
    <3>3. UNION { Cells(s) : s \in S } = Cells(want)
      BY <3>2, NeededCover
    <3> HIDE DEF S
    <3> QED BY <2>1, <3>1, <3>3, CoverSpans
  <2>2. CASE ~given
    <3>1. Needed = stored /\ \A s \in stored : SubRequest(s).slice = s.slice
      BY <2>2 DEF SubRequest, Needed
    <3>2. S = { s.slice : s \in stored }
      BY <3>1
    <3> HIDE DEF S
    <3> QED BY <2>2, <3>2, StoredShards
  <2> QED BY <2>1, <2>2
<1>2. Needed # {}
  BY <1>1 DEF Spans
<1> QED BY <1>1, <1>2

-----------------------------------------------------------------------------
(* The invariant *)

Under_way == {"fetch", "assemble", "place", "return"}

Subs == subs \cup { p.sub : p \in parts }

SubsArePieces ==
  /\ IsFiniteSet(subs) /\ IsFiniteSet(parts)
  /\ \A sub \in Subs : IsPiece(sub.slice)
  /\ \A sub \in Subs : sub.view => HasView(want, sub.slice)

SubsSpan ==
  pc \in Under_way /\ (Cells(want) # {} \/ ~given) => Spans(Asked)

Phases ==
  /\ pc \in Under_way \cup {"expand", "done"}
  /\ pc = "expand" => subs = {} /\ parts = {}
  /\ pc \in {"assemble", "place", "return"} => subs = {}
  /\ pc = "place" => placing \subseteq parts
  /\ pc = "return" => placing = {}
  /\ pc # "done" => outcome = "none"

PartsAreRight == \A p \in parts : p.data = Content(p.sub.slice)

ViewsAreFilled ==
  inplace /\ pc # "done" =>
    /\ IsTensor(dest)
    /\ \A p \in parts : p.sub.view => Holds(dest, p.sub.slice)

PlacedAreRight ==
  pc \in {"place", "return"} =>
    /\ result.shape = TargetShape(PartSlices)
    /\ result = [shape |-> result.shape, data |-> result.data]
    /\ result.data = [i \in Index(result.shape) |-> result.data[i]]
    /\ Cells(want) # {} \/ ~given =>
         \A p \in parts \ placing : Holds(result.data, p.sub.slice)

FetchInv ==
  /\ Located /\ SubsArePieces /\ AsksForAll /\ SubsSpan /\ Phases
  /\ PartsAreRight /\ ViewsAreFilled /\ PlacedAreRight
  /\ FetchIsExact /\ NonemptyFetchReturns

LEMMA QuestionStays ==
  ASSUME [Next]_vars
  PROVE  UNCHANGED <<stored, want, given, inplace>>
BY DEF Next, vars, Expand, Fetch, Assemble, Place, Return

(* When nothing is left to be read, the parts are what was asked for.      *)
LEMMA AllIsRead ==
  ASSUME FetchInv, pc \in {"assemble", "place", "return"}
  PROVE  /\ \A s \in PartSlices : IsPiece(s)
         /\ UNION { Cells(s) : s \in PartSlices } = Cells(want)
         /\ Cells(want) # {} \/ ~given =>
              /\ TargetOffset(PartSlices) = want.offsets
              /\ TargetShape(PartSlices) = want.local_shape
<1>1. Asked = PartSlices
  BY DEF FetchInv, Phases, Asked
<1>2. \A s \in PartSlices : IsPiece(s)
  BY DEF FetchInv, SubsArePieces, Subs, PartSlices
<1>3. UNION { Cells(s) : s \in PartSlices } = Cells(want)
  BY <1>1 DEF FetchInv, AsksForAll
<1>4. Cells(want) # {} \/ ~given => Spans(PartSlices)
  BY <1>1 DEF FetchInv, SubsSpan, Under_way
<1>5. Located
  BY DEF FetchInv
<1> QED BY <1>2, <1>3, <1>4, <1>5, TargetIsWant

(* Then their sizes add up to at least the size of the tensor.             *)
LEMMA PartsAreEnough ==
  ASSUME FetchInv, pc = "assemble", Cells(want) # {}
  PROVE  Enough
<1> DEFINE size == [p \in parts |-> Numel(p.sub.slice.local_shape)]
           part == [p \in parts |-> Cells(p.sub.slice)]
           shape == want.global_shape
<1>1. Located /\ IsFiniteSet(parts)
  BY DEF FetchInv, SubsArePieces
<1>2. /\ IsFiniteSet(Dims(want)) /\ shape \in [Dims(want) -> 0..Extent]
      /\ want \in SlicesOf(shape)
  BY <1>1, WantFacts
<1>3. \A p \in parts : IsFiniteSet(part[p]) /\ size[p] = Cardinality(part[p])
  <2>1. ASSUME NEW p \in parts
        PROVE  /\ IsFiniteSet(Cells(p.sub.slice))
               /\ Numel(p.sub.slice.local_shape) = Cardinality(Cells(p.sub.slice))
    <3>1. p.sub.slice \in SlicesOf(shape)
      BY DEF FetchInv, SubsArePieces, Subs, IsPiece
    <3> HIDE DEF shape
    <3> QED BY <1>2, <3>1, NumelCounts
  <2> QED BY <2>1
<1>4. UNION { part[p] : p \in parts } = Cells(want)
  <2>1. { part[p] : p \in parts } = { Cells(s) : s \in PartSlices }
    BY DEF PartSlices
  <2> QED BY <2>1, AllIsRead
<1>5. PartsNumel = SumFunctionOnSet(size, parts)
  BY DEF PartsNumel, SumFunction
<1> HIDE DEF size, part
<1>6. Cardinality(UNION { part[p] : p \in parts }) <= SumFunctionOnSet(size, parts)
  BY <1>1, <1>3, SumBounds
<1>7. Numel(want.local_shape) = Cardinality(Cells(want))
      /\ IsFiniteSet(Cells(want))
  <2> HIDE DEF shape
  <2> QED BY <1>2, NumelCounts
<1>8. TargetShape(PartSlices) = want.local_shape
  BY AllIsRead
<1>9. Cardinality(Cells(want)) <= PartsNumel
  BY <1>4, <1>5, <1>6
<1> HIDE DEF shape
<1>10. \A m, n : m <= n => n >= m
  OBVIOUS
<1> QED BY <1>7, <1>8, <1>9, <1>10 DEF Enough

LEMMA InitEstablishes ==
  ASSUME Init
  PROVE  FetchInv
<1>1. PICK s \in stored : /\ s.slice.global_shape \in Seq(0..Extent)
                          /\ ShardsOf(stored, s.slice.global_shape)
  BY LayoutAssumption DEF Init
<1> DEFINE shape == s.slice.global_shape
<1>2. \A t \in stored : t.slice.global_shape = shape
  BY <1>1 DEF ShardsOf, SlicesOf
<1>3. shape \in [DOMAIN shape -> 0..Extent]
  <2>1. \A T : \A seq \in Seq(T) : seq \in [DOMAIN seq -> T]
    OBVIOUS
  <2> QED BY <1>1, <2>1
<1>4. want \in SlicesOf(shape) /\ (~given => want = Whole(shape))
  <2> HIDE DEF shape
  <2> QED BY <1>2, <1>3, WholeIsSlice DEF Init
<1>5. want.global_shape = shape
  BY <1>4 DEF SlicesOf
<1>6. Located
  BY <1>1, <1>4, <1>5 DEF Located
<1>7. Subs = {}
  BY DEF Init, Subs
<1>8. SubsArePieces
  BY <1>7, FS_EmptySet DEF Init, SubsArePieces
<1>9. AsksForAll /\ SubsSpan /\ Phases
  BY DEF Init, AsksForAll, SubsSpan, Phases, Under_way
<1>10. PartsAreRight /\ PlacedAreRight
  BY DEF Init, PartsAreRight, PlacedAreRight
<1>11. ViewsAreFilled
  BY DEF Init, ViewsAreFilled, Fresh, IsTensor
<1>12. FetchIsExact /\ NonemptyFetchReturns
  BY DEF Init, FetchIsExact, NonemptyFetchReturns, FetchReturns
<1> QED BY <1>6, <1>8, <1>9, <1>10, <1>11, <1>12 DEF FetchInv

-----------------------------------------------------------------------------
(* Every step keeps the invariant *)

(* The question stays, so its geometry does. *)
LEMMA GeometryStays ==
  ASSUME UNCHANGED <<stored, want, given, inplace>>
  PROVE  /\ Located => Located'
         /\ \A s : IsPiece(s)' <=> IsPiece(s)
         /\ \A s : HasView(want, s)' <=> HasView(want, s)
         /\ \A S : Spans(S)' <=> Spans(S)
         /\ \A t : IsTensor(t)' <=> IsTensor(t)
         /\ \A t, s : Holds(t, s)' <=> Holds(t, s)
         /\ Cells(want)' = Cells(want)
BY DEF Located, IsPiece, Spans, IsTensor, Holds

LEMMA ExpandKeeps ==
  ASSUME FetchInv, Expand
  PROVE  FetchInv'
<1>1. /\ pc = "expand" /\ subs' = { SubRequest(s) : s \in Needed }
      /\ UNCHANGED <<stored, want, given, inplace, parts, dest, result, placing>>
      /\ IF Needed = {} THEN pc' = "done" /\ outcome' = "RuntimeError"
         ELSE pc' = "fetch" /\ outcome' = outcome
  BY DEF Expand, Fail, Needed
<1>2. Located /\ parts = {} /\ parts' = {} /\ outcome = "none"
  BY <1>1 DEF FetchInv, Phases
<1>3. Located'
  BY <1>1, <1>2, GeometryStays
<1>4. Subs' = { SubRequest(s) : s \in Needed }
  BY <1>1, <1>2 DEF Subs
<1>5. Asked' = { SubRequest(s).slice : s \in Needed }
  BY <1>1, <1>2 DEF Asked, PartSlices
<1>6. SubsArePieces'
  <2>1. IsFiniteSet(subs')
    <3> DEFINE f == [s \in Needed |-> SubRequest(s)]
    <3>1. Needed \in SUBSET stored
      BY DEF Needed
    <3>2. IsFiniteSet(Needed)
      BY <1>2, <3>1, StoredShards, FS_Subset
    <3>3. f \in Surjection(Needed, subs')
      BY <1>1 DEF Surjection
    <3> HIDE DEF f
    <3> QED BY <3>2, <3>3, FS_Surjection
  <2>2. IsFiniteSet(parts')
    BY <1>2, FS_EmptySet
  <2>3. ASSUME NEW sub \in Subs'
        PROVE  IsPiece(sub.slice)' /\ (sub.view => HasView(want, sub.slice))'
    <3>1. PICK s \in Needed : sub = SubRequest(s)
      BY <1>4
    <3>2. IsPiece(sub.slice)
      BY <1>2, <3>1, NeededArePieces
    <3>3. sub.view => HasView(want, sub.slice)
      BY <3>1 DEF SubRequest
    <3>4. PICK c : c = sub.slice
      OBVIOUS
    <3> QED BY <1>1, <3>2, <3>3, <3>4, GeometryStays
  <2> QED BY <2>1, <2>2, <2>3 DEF SubsArePieces
<1>7. UNION { Cells(s) : s \in Asked' } = Cells(want)
  <2>1. UNION { Cells(s) : s \in Asked' }
          = UNION { Cells(SubRequest(s).slice) : s \in Needed }
    BY <1>5
  <2> QED BY <1>2, <2>1, NeededCover
<1>8. AsksForAll'
  BY <1>1, <1>7 DEF AsksForAll
<1>9. SubsSpan'
  <2>1. PICK S : S = { SubRequest(s).slice : s \in Needed }
    OBVIOUS
  <2>2. Cells(want) # {} \/ ~given => Spans(S)
    BY <1>2, <2>1, NeededSpan
  <2>3. Spans(S)' <=> Spans(S)
    BY <1>1, GeometryStays
  <2>4. Spans(Asked)' <=> Spans(S)
    BY <1>5, <2>1, <2>3
  <2> QED BY <1>1, <2>2, <2>4 DEF SubsSpan
<1>10. Phases' /\ PartsAreRight' /\ PlacedAreRight'
  BY <1>1, <1>2 DEF Phases, Under_way, PartsAreRight, PlacedAreRight
<1>11. ViewsAreFilled'
  BY <1>1, <1>2 DEF FetchInv, ViewsAreFilled, IsTensor
<1>12. outcome' = "none" \/ outcome' = "RuntimeError"
  BY <1>1, <1>2
<1>13. FetchIsExact'
  BY <1>12 DEF FetchIsExact
<1>14. NonemptyFetchReturns'
  <2>1. Cells(want) # {} => Needed # {}
    BY <1>2, NeededSpan
  <2> QED BY <1>1, <1>2, <2>1 DEF NonemptyFetchReturns, FetchReturns
<1> QED BY <1>3, <1>6, <1>8, <1>9, <1>10, <1>11, <1>13, <1>14 DEF FetchInv

(* The volume extracts from any shard that contains the piece the same.    *)
LEMMA ExtractIsContent ==
  ASSUME Located, NEW shard \in stored, NEW s, IsPiece(s), Contains(shard.slice, s)
  PROVE  Extract(ShardTensor(shard), shard.slice.offsets, s) = Content(s)
<1> DEFINE D == Dims(want)
           shape == want.global_shape
           o == shard.slice.offsets
<1>1. /\ shape \in [D -> 0..Extent] /\ s \in SlicesOf(shape)
      /\ shard.slice \in SlicesOf(shape)
  BY WantFacts, StoredShards DEF IsPiece
<1> HIDE DEF shape, D
<1>2. Cells(s) \subseteq Cells(shard.slice)
  <2>1. Intersects(shard.slice, s) /\ Intersection(shard.slice, s) = s
    BY DEF Contains
  <2>2. Cells(Intersection(shard.slice, s)) = Cells(shard.slice) \cap Cells(s)
    BY <1>1, <2>1, IntersectionIsExact
  <2> QED BY <2>1, <2>2
<1>3. ASSUME NEW i \in Index(s.local_shape)
      PROVE  ShardTensor(shard)[Minus(Plus(i, s.offsets), o)] = Plus(i, s.offsets)
  <2> DEFINE x == Plus(i, s.offsets)
  <2>1. x \in Cells(shard.slice)
    BY <1>1, <1>2, CellsAreMoved
  <2> HIDE DEF x
  <2>2. Minus(x, o) \in Index(shard.slice.local_shape) /\ Plus(Minus(x, o), o) = x
    BY <1>1, <2>1, CellsAreMoved
  <2> QED BY <2>2 DEF ShardTensor, x
<1> QED BY <1>3 DEF Extract, Content

LEMMA FetchKeeps ==
  ASSUME FetchInv, NEW sub \in subs, Fetch(sub)
  PROVE  FetchInv'
<1>0. PICK shard \in stored :
        LET data == Extract(ShardTensor(shard), shard.slice.offsets, sub.slice)
        IN  /\ Contains(shard.slice, sub.slice)
            /\ pc = "fetch"
            /\ subs' = subs \ {sub}
            /\ parts' = parts \cup {[sub |-> sub, data |-> data]}
            /\ dest' = IF sub.view
                       THEN Write(dest, data, Minus(sub.slice.offsets, want.offsets))
                       ELSE dest
            /\ pc' = IF subs' = {} THEN "assemble" ELSE "fetch"
            /\ UNCHANGED <<stored, want, given, inplace, result, placing, outcome>>
  BY DEF Fetch
<1> DEFINE data == Extract(ShardTensor(shard), shard.slice.offsets, sub.slice)
<1>1. /\ data = Extract(ShardTensor(shard), shard.slice.offsets, sub.slice)
      /\ Contains(shard.slice, sub.slice)
      /\ pc = "fetch"
      /\ subs' = subs \ {sub}
      /\ parts' = parts \cup {[sub |-> sub, data |-> data]}
      /\ dest' = IF sub.view
                 THEN Write(dest, data, Minus(sub.slice.offsets, want.offsets))
                 ELSE dest
      /\ pc' = IF subs' = {} THEN "assemble" ELSE "fetch"
      /\ UNCHANGED <<stored, want, given, inplace, result, placing, outcome>>
  BY <1>0
<1> HIDE DEF data
<1> DEFINE part == [sub |-> sub, data |-> data]
<1>2. /\ Located /\ IsPiece(sub.slice) /\ IsFiniteSet(subs) /\ IsFiniteSet(parts)
      /\ outcome = "none"
  BY <1>1 DEF FetchInv, SubsArePieces, Subs, Phases
<1>3. data = Content(sub.slice)
  BY <1>1, <1>2, ExtractIsContent
<1>4. Located'
  BY <1>1, <1>2, GeometryStays
<1>5. part.sub = sub /\ part.data = data
  OBVIOUS
<1> HIDE DEF part
<1>6. parts' = parts \cup {part} /\ subs' \cup {sub} = subs
  BY <1>1 DEF part
<1>7. Subs' = Subs
  BY <1>5, <1>6 DEF Subs
<1>8. Asked' = Asked
  BY <1>5, <1>6 DEF Asked, PartSlices
<1>9. SubsArePieces'
  <2>1. IsFiniteSet(subs') /\ IsFiniteSet(parts')
    <3>1. subs' \in SUBSET subs
      BY <1>6
    <3> QED BY <1>2, <1>6, <3>1, FS_Subset, FS_AddElement
  <2>2. ASSUME NEW r \in Subs
        PROVE  IsPiece(r.slice)' /\ (r.view => HasView(want, r.slice))'
    <3>1. PICK c : c = r.slice
      OBVIOUS
    <3>2. IsPiece(c) /\ (r.view => HasView(want, c))
      BY <3>1 DEF FetchInv, SubsArePieces
    <3> QED BY <1>1, <3>1, <3>2, GeometryStays
  <2> QED BY <1>7, <2>1, <2>2 DEF SubsArePieces
<1>10. AsksForAll'
  BY <1>1, <1>8 DEF FetchInv, AsksForAll
<1>11. SubsSpan'
  <2>1. PICK S : S = Asked
    OBVIOUS
  <2>2. Spans(S)' <=> Spans(S)
    BY <1>1, GeometryStays
  <2> QED BY <1>1, <1>8, <2>1, <2>2 DEF FetchInv, SubsSpan, Under_way
<1>12. Phases' /\ PlacedAreRight'
  BY <1>1, <1>2 DEF Phases, Under_way, PlacedAreRight
<1>13. PartsAreRight'
  BY <1>3, <1>5, <1>6 DEF FetchInv, PartsAreRight
<1>14. ViewsAreFilled'
  <2> SUFFICES ASSUME inplace
               PROVE  /\ IsTensor(dest)'
                      /\ \A p \in parts' : p.sub.view => Holds(dest, p.sub.slice)'
    BY <1>1 DEF ViewsAreFilled
  <2>1. IsTensor(dest) /\ \A p \in parts : p.sub.view => Holds(dest, p.sub.slice)
    BY <1>1 DEF FetchInv, ViewsAreFilled
  <2>2. PICK new, s : new = dest' /\ s = sub.slice
    OBVIOUS
  <2>3. \A p \in parts : IsPiece(p.sub.slice)
    BY DEF FetchInv, SubsArePieces, Subs
  <2>4. /\ IsTensor(new) /\ \A p \in parts : p.sub.view => Holds(new, p.sub.slice)
        /\ sub.view => Holds(new, s)
    <3>1. CASE sub.view
      <4>1. new = Write(dest, Content(s), Minus(s.offsets, want.offsets))
        BY <1>1, <1>3, <2>2, <3>1
      <4>2. PICK tensor : tensor = dest
        OBVIOUS
      <4>3. /\ IsTensor(new) /\ Holds(new, s)
            /\ \A p : IsPiece(p) /\ Holds(tensor, p) => Holds(new, p)
        BY <1>2, <2>1, <2>2, <4>1, <4>2, WriteIsRight
      <4> QED BY <2>1, <2>3, <4>2, <4>3
    <3>2. CASE ~sub.view
      BY <1>1, <2>1, <2>2, <3>2
    <3> QED BY <3>1, <3>2
  <2>5. IsTensor(new)' /\ IsTensor(dest)'
    BY <1>1, <2>2, <2>4, GeometryStays
  <2>6. ASSUME NEW p \in parts', p.sub.view PROVE Holds(dest, p.sub.slice)'
    <3>1. PICK c : c = p.sub.slice
      OBVIOUS
    <3>2. Holds(new, c)
      BY <1>5, <1>6, <2>2, <2>4, <2>6, <3>1
    <3>3. Holds(new, c)'
      BY <1>1, <3>2, GeometryStays
    <3> QED BY <2>2, <3>1, <3>3
  <2> QED BY <2>5, <2>6
<1>15. FetchIsExact' /\ NonemptyFetchReturns'
  BY <1>1, <1>2 DEF FetchIsExact, NonemptyFetchReturns, FetchReturns
<1> QED BY <1>4, <1>9, <1>10, <1>11, <1>12, <1>13, <1>14, <1>15 DEF FetchInv

(* Once everything is read, what was read stays. *)
LEMMA ReadStays ==
  ASSUME FetchInv, UNCHANGED <<stored, want, given, inplace, subs, parts>>
  PROVE  /\ Located' /\ SubsArePieces' /\ PartsAreRight'
         /\ Asked' = Asked /\ PartSlices' = PartSlices
         /\ \A S : Spans(S)' <=> Spans(S)
         /\ pc \in Under_way /\ pc' \in Under_way => AsksForAll' /\ SubsSpan'
<1>1. Located'
  BY GeometryStays DEF FetchInv
<1>2. Subs' = Subs /\ Asked' = Asked /\ PartSlices' = PartSlices
  BY DEF Subs, Asked, PartSlices
<1>3. SubsArePieces'
  <2>1. ASSUME NEW r \in Subs
        PROVE  IsPiece(r.slice)' /\ (r.view => HasView(want, r.slice))'
    <3>1. PICK c : c = r.slice
      OBVIOUS
    <3>2. IsPiece(c) /\ (r.view => HasView(want, c))
      BY <3>1 DEF FetchInv, SubsArePieces
    <3> QED BY <3>1, <3>2, GeometryStays
  <2> QED BY <1>2, <2>1 DEF FetchInv, SubsArePieces
<1>4. PartsAreRight'
  BY DEF FetchInv, PartsAreRight
<1>5. \A S : Spans(S)' <=> Spans(S)
  BY GeometryStays
<1>6. ASSUME pc \in Under_way, pc' \in Under_way PROVE AsksForAll' /\ SubsSpan'
  <2>1. AsksForAll'
    BY <1>2, <1>6 DEF FetchInv, AsksForAll, Under_way
  <2>2. PICK S : S = Asked
    OBVIOUS
  <2>3. SubsSpan'
    BY <1>2, <1>5, <1>6, <2>2 DEF FetchInv, SubsSpan
  <2> QED BY <2>1, <2>3
<1> QED BY <1>1, <1>2, <1>3, <1>4, <1>5, <1>6

(* The call has ended. *)
LEMMA DoneKeeps ==
  ASSUME FetchInv, UNCHANGED <<stored, want, given, inplace, subs, parts>>,
         pc' = "done", FetchIsExact', NonemptyFetchReturns'
  PROVE  FetchInv'
<1>1. /\ AsksForAll' /\ SubsSpan' /\ Phases' /\ ViewsAreFilled' /\ PlacedAreRight'
  BY DEF AsksForAll, SubsSpan, Phases, Under_way, ViewsAreFilled, PlacedAreRight
<1> QED BY <1>1, ReadStays DEF FetchInv

LEMMA AssembleKeeps ==
  ASSUME FetchInv, Assemble
  PROVE  FetchInv'
<1>1. /\ pc = "assemble"
      /\ UNCHANGED <<stored, want, given, inplace, subs, parts, dest>>
      /\ \/ /\ inplace /\ AllInPlace /\ pc' = "done" /\ outcome' = "ok"
            /\ UNCHANGED <<result, placing>>
         \/ /\ ~(inplace /\ AllInPlace) /\ Enough
            /\ pc' = "place" /\ placing' = parts /\ outcome' = outcome
            /\ result' = [shape |-> TargetShape(PartSlices),
                          data  |-> [i \in Index(TargetShape(PartSlices)) |-> Hole]]
         \/ /\ ~Enough /\ pc' = "done" /\ outcome' = "AssertionError"
  BY DEF Assemble, Fail
<1>2. Located /\ outcome = "none"
  BY <1>1 DEF FetchInv, Phases
<1>3. CASE inplace /\ AllInPlace /\ pc' = "done" /\ outcome' = "ok"
           /\ UNCHANGED <<result, placing>>
  <2>1. IsTensor(dest) /\ \A p \in parts : Holds(dest, p.sub.slice)
    BY <1>1, <1>3 DEF FetchInv, ViewsAreFilled, AllInPlace
  <2>2. PICK tensor, S : tensor = dest /\ S = PartSlices
    OBVIOUS
  <2>3. \A s \in S : Holds(tensor, s)
    BY <2>1, <2>2 DEF PartSlices
  <2>4. UNION { Cells(s) : s \in S } = Cells(want)
    BY <1>1, <2>2, AllIsRead
  <2>5. tensor = Expected
    BY <1>2, <2>1, <2>2, <2>3, <2>4, HoldsAll
  <2>6. AllInPlace' /\ Expected' = Expected
    BY <1>1, <1>3 DEF AllInPlace, Expected
  <2>7. FetchIsExact'
    BY <1>1, <1>3, <2>2, <2>5, <2>6 DEF FetchIsExact
  <2>8. NonemptyFetchReturns'
    BY <1>3 DEF NonemptyFetchReturns, FetchReturns
  <2> QED BY <1>1, <1>3, <2>7, <2>8, DoneKeeps
<1>4. CASE /\ Enough /\ pc' = "place" /\ placing' = parts /\ outcome' = outcome
           /\ result' = [shape |-> TargetShape(PartSlices),
                         data  |-> [i \in Index(TargetShape(PartSlices)) |-> Hole]]
  <2>1. PartSlices' = PartSlices
    BY <1>1, ReadStays
  <2>2. PlacedAreRight'
    <3>1. PICK shape : shape = TargetShape(PartSlices)
      OBVIOUS
    <3>2. TargetShape(PartSlices)' = shape
      BY <2>1, <3>1
    <3>3. result' = [shape |-> shape, data |-> [i \in Index(shape) |-> Hole]]
      BY <1>4, <3>1
    <3>4. result'.shape = shape /\ result'.data = [i \in Index(shape) |-> Hole]
      BY <3>3
    <3>5. parts' \ placing' = {}
      BY <1>1, <1>4
    <3> QED BY <3>2, <3>3, <3>4, <3>5 DEF PlacedAreRight
  <2>3. Phases'
    BY <1>1, <1>2, <1>4 DEF FetchInv, Phases, Under_way
  <2>4. AsksForAll' /\ SubsSpan'
    BY <1>1, <1>4, ReadStays DEF Under_way
  <2>5. ViewsAreFilled'
    <3> SUFFICES ASSUME inplace
                 PROVE  /\ IsTensor(dest)'
                        /\ \A p \in parts : p.sub.view => Holds(dest, p.sub.slice)'
      BY <1>1 DEF ViewsAreFilled
    <3>1. IsTensor(dest) /\ \A p \in parts : p.sub.view => Holds(dest, p.sub.slice)
      BY <1>1 DEF FetchInv, ViewsAreFilled
    <3> QED BY <1>1, <3>1 DEF IsTensor, Holds
  <2>6. FetchIsExact' /\ NonemptyFetchReturns'
    BY <1>2, <1>4 DEF FetchIsExact, NonemptyFetchReturns, FetchReturns
  <2> QED BY <1>1, <2>2, <2>3, <2>4, <2>5, <2>6, ReadStays DEF FetchInv
<1>5. CASE ~Enough /\ pc' = "done" /\ outcome' = "AssertionError"
  <2>1. Cells(want) = {}
    BY <1>1, <1>5, PartsAreEnough
  <2>2. FetchIsExact' /\ NonemptyFetchReturns'
    BY <1>1, <1>5, <2>1 DEF FetchIsExact, NonemptyFetchReturns
  <2> QED BY <1>1, <1>5, <2>2, DoneKeeps
<1> QED BY <1>1, <1>3, <1>4, <1>5

LEMMA PlaceKeeps ==
  ASSUME FetchInv, NEW p \in placing, Place(p)
  PROVE  FetchInv'
<1> DEFINE start == Minus(p.sub.slice.offsets, TargetOffset(PartSlices))
<1>1. /\ pc = "place"
      /\ result' = [result EXCEPT !.data = Write(@, p.data, start)]
      /\ placing' = placing \ {p}
      /\ pc' = IF placing' = {} THEN "return" ELSE "place"
      /\ UNCHANGED <<stored, want, given, inplace, subs, parts, dest, outcome>>
  BY DEF Place
<1> HIDE DEF start
<1>2. Located /\ outcome = "none" /\ placing \subseteq parts
  BY <1>1 DEF FetchInv, Phases
<1>3. p \in parts /\ IsPiece(p.sub.slice) /\ p.data = Content(p.sub.slice)
  BY <1>2 DEF FetchInv, SubsArePieces, Subs, PartsAreRight
<1>4. PartSlices' = PartSlices
  BY <1>1, ReadStays
<1>5. PlacedAreRight'
  <2>1. /\ result.shape = TargetShape(PartSlices)
        /\ result = [shape |-> result.shape, data |-> result.data]
        /\ result.data = [i \in Index(result.shape) |-> result.data[i]]
        /\ Cells(want) # {} \/ ~given =>
             \A q \in parts \ placing : Holds(result.data, q.sub.slice)
    BY <1>1 DEF FetchInv, PlacedAreRight
  <2>2. PICK old, new : old = result.data /\ new = Write(old, p.data, start)
    OBVIOUS
  <2>3. /\ result' = [shape |-> result.shape, data |-> new]
        /\ result'.shape = result.shape /\ result'.data = new
    BY <1>1, <2>1, <2>2
  <2>4. TargetShape(PartSlices)' = TargetShape(PartSlices)
    BY <1>4
  <2>5. new = [i \in Index(result.shape) |-> new[i]]
    <3>1. DOMAIN old = Index(result.shape)
      BY <2>1, <2>2
    <3> QED BY <2>2, <3>1 DEF Write
  <2>6. ASSUME Cells(want) # {} \/ ~given, NEW q \in parts \ placing'
        PROVE  Holds(new, q.sub.slice)
    <3>1. /\ TargetOffset(PartSlices) = want.offsets
          /\ TargetShape(PartSlices) = want.local_shape
      BY <1>1, <2>6, AllIsRead
    <3>2. PICK s : s = p.sub.slice
      OBVIOUS
    <3>3. IsTensor(old)
      BY <2>1, <2>2, <3>1 DEF IsTensor
    <3>4. new = Write(old, Content(s), Minus(s.offsets, want.offsets))
      BY <1>3, <2>2, <3>1, <3>2 DEF start
    <3>5. /\ Holds(new, s)
          /\ \A c : IsPiece(c) /\ Holds(old, c) => Holds(new, c)
      BY <1>2, <1>3, <3>2, <3>3, <3>4, WriteIsRight
    <3>6. CASE q = p
      BY <3>2, <3>5, <3>6
    <3>7. CASE q # p
      <4>1. q \in parts \ placing
        BY <1>1, <3>7
      <4>2. Holds(old, q.sub.slice)
        BY <2>1, <2>2, <2>6, <4>1
      <4>3. IsPiece(q.sub.slice)
        BY <4>1 DEF FetchInv, SubsArePieces, Subs
      <4> QED BY <3>5, <4>2, <4>3
    <3> QED BY <3>6, <3>7
  <2>7. ASSUME Cells(want) # {} \/ ~given, NEW q \in parts \ placing'
        PROVE  Holds(result.data, q.sub.slice)'
    <3>1. Holds(new, q.sub.slice)
      BY <2>6, <2>7
    <3> QED BY <1>1, <2>3, <3>1 DEF Holds
  <2> QED BY <1>1, <2>1, <2>3, <2>4, <2>5, <2>7 DEF PlacedAreRight
<1>6. Phases'
  BY <1>1, <1>2 DEF FetchInv, Phases, Under_way
<1>7. AsksForAll' /\ SubsSpan'
  BY <1>1, ReadStays DEF Under_way
<1>8. ViewsAreFilled'
  <2> SUFFICES ASSUME inplace
               PROVE  /\ IsTensor(dest)'
                      /\ \A q \in parts : q.sub.view => Holds(dest, q.sub.slice)'
    BY <1>1 DEF ViewsAreFilled
  <2>1. IsTensor(dest) /\ \A q \in parts : q.sub.view => Holds(dest, q.sub.slice)
    BY <1>1 DEF FetchInv, ViewsAreFilled
  <2> QED BY <1>1, <2>1 DEF IsTensor, Holds
<1>9. FetchIsExact' /\ NonemptyFetchReturns'
  BY <1>1, <1>2 DEF FetchIsExact, NonemptyFetchReturns, FetchReturns
<1> QED BY <1>1, <1>5, <1>6, <1>7, <1>8, <1>9, ReadStays DEF FetchInv

LEMMA ReturnKeeps ==
  ASSUME FetchInv, Return
  PROVE  FetchInv'
<1>1. /\ pc = "return" /\ pc' = "done"
      /\ UNCHANGED <<stored, want, given, inplace, subs, parts, result, placing>>
      /\ \/ /\ given /\ result.shape # want.local_shape
            /\ outcome' = "AssertionError"
         \/ /\ ~(given /\ result.shape # want.local_shape)
            /\ outcome' = "ok" /\ dest' = IF inplace THEN result.data ELSE dest
  BY DEF Return, Fail
<1>2. Located /\ placing = {}
  BY <1>1 DEF FetchInv, Phases
<1>3. /\ result.shape = TargetShape(PartSlices)
      /\ result.data = [i \in Index(result.shape) |-> result.data[i]]
      /\ Cells(want) # {} \/ ~given =>
           \A p \in parts : Holds(result.data, p.sub.slice)
  BY <1>1, <1>2 DEF FetchInv, PlacedAreRight
<1>4. Cells(want) # {} \/ ~given => result.shape = want.local_shape
  BY <1>1, <1>3, AllIsRead
<1>5. ASSUME result.shape = want.local_shape
      PROVE  result.data = Expected
  <2>1. IsTensor(result.data)
    BY <1>3, <1>5 DEF IsTensor
  <2>2. CASE Cells(want) # {} \/ ~given
    <3>1. PICK tensor, S : tensor = result.data /\ S = PartSlices
      OBVIOUS
    <3>2. \A s \in S : Holds(tensor, s)
      BY <1>3, <2>2, <3>1 DEF PartSlices
    <3>3. UNION { Cells(s) : s \in S } = Cells(want)
      BY <1>1, <3>1, AllIsRead
    <3> QED BY <1>2, <2>1, <3>1, <3>2, <3>3, HoldsAll
  <2>3. CASE Cells(want) = {}
    <3>1. Index(want.local_shape) = {}
      BY <1>2, <2>3, WantFacts, CellsAreMoved
    <3> QED BY <2>1, <3>1 DEF IsTensor, Expected
  <2> QED BY <2>2, <2>3
<1>6. Expected' = Expected
  BY <1>1 DEF Expected
<1>7. FetchIsExact'
  <2> SUFFICES ASSUME outcome' = "ok"
               PROVE  /\ inplace => dest' = Expected
                      /\ result.data = Expected /\ result.shape = want.local_shape
    BY <1>1, <1>6 DEF FetchIsExact
  <2>1. result.shape = want.local_shape
    BY <1>1, <1>4
  <2> QED BY <1>1, <1>5, <2>1
<1>8. NonemptyFetchReturns'
  BY <1>1, <1>4 DEF NonemptyFetchReturns, FetchReturns
<1> QED BY <1>1, <1>7, <1>8, DoneKeeps

LEMMA QuietKeeps ==
  ASSUME FetchInv, UNCHANGED vars
  PROVE  FetchInv'
<1>1. Located' /\ SubsArePieces' /\ PartsAreRight' /\ PartSlices' = PartSlices
      /\ Asked' = Asked
  BY ReadStays DEF vars
<1>2. AsksForAll' /\ SubsSpan'
  <2>1. CASE pc \in Under_way
    BY <2>1, ReadStays DEF vars
  <2>2. CASE pc \notin Under_way
    BY <2>2 DEF vars, AsksForAll, SubsSpan, Under_way
  <2> QED BY <2>1, <2>2
<1>3. Phases' /\ ViewsAreFilled'
  BY DEF FetchInv, vars, Phases, ViewsAreFilled, IsTensor, Holds
<1>4. PlacedAreRight'
  <2>1. TargetShape(PartSlices)' = TargetShape(PartSlices)
    BY <1>1
  <2> QED BY <2>1 DEF FetchInv, vars, PlacedAreRight, Holds
<1>5. FetchIsExact' /\ NonemptyFetchReturns'
  BY DEF FetchInv, vars, FetchIsExact, NonemptyFetchReturns, FetchReturns,
         AllInPlace, Expected
<1> QED BY <1>1, <1>2, <1>3, <1>4, <1>5 DEF FetchInv

LEMMA FetchInvariant == Spec => []FetchInv
<1>1. FetchInv /\ [Next]_vars => FetchInv'
  BY ExpandKeeps, FetchKeeps, AssembleKeeps, PlaceKeeps, ReturnKeeps, QuietKeeps
     DEF Next
<1> QED BY InitEstablishes, <1>1, PTL DEF Spec

-----------------------------------------------------------------------------
(* The theorems *)

(***************************************************************************)
(* The sub-requests that _expand_tensor_slices makes ask for every cell of *)
(* the request and for no other one, in any number of dimensions and for   *)
(* any complete layout, empty shards included.                             *)
(***************************************************************************)
THEOREM FetchAsksForAll == Spec => []AsksForAll
<1>1. FetchInv => AsksForAll
  BY DEF FetchInv
<1> QED BY <1>1, FetchInvariant, PTL

(***************************************************************************)
(* A get that returns gives exactly the requested region: no element is    *)
(* misplaced and none is left as the allocator gave it, in the destination *)
(* and in the assembled tensor, whatever order the volumes answer in.      *)
(***************************************************************************)
THEOREM FetchReturnsTheRegion == Spec => []FetchIsExact
<1>1. FetchInv => FetchIsExact
  BY DEF FetchInv
<1> QED BY <1>1, FetchInvariant, PTL

(***************************************************************************)
(* A get of at least one cell of a committed tensor never fails: some      *)
(* shard has it, the parts are enough, and the assembled shape is right.   *)
(***************************************************************************)
THEOREM NonemptyFetchSucceeds == Spec => []NonemptyFetchReturns
<1>1. FetchInv => NonemptyFetchReturns
  BY DEF FetchInv
<1> QED BY <1>1, FetchInvariant, PTL

(***************************************************************************)
(* get_destination_view hands out only views whose elements follow one     *)
(* another in the memory of the destination.                               *)
(***************************************************************************)
THEOREM ViewsAreContiguous == Spec => []ViewsAreRuns
<1>1. ASSUME FetchInv PROVE ViewsAreRuns
  <2> SUFFICES ASSUME NEW sub \in subs, sub.view, NEW at,
                      at = { Position(Minus(x, want.offsets)) : x \in Cells(sub.slice) },
                      NEW m \in at, NEW n \in at, NEW q \in m..n
               PROVE  q \in at
    BY DEF ViewsAreRuns
  <2>1. /\ Located /\ IsPiece(sub.slice)
        /\ Contiguous(sub.slice.local_shape, want.local_shape)
    BY <1>1 DEF FetchInv, SubsArePieces, Subs, HasView
  <2> QED BY <2>1, ViewIsRun
<1> QED BY <1>1, FetchInvariant, PTL
=============================================================================
