----------------------------- MODULE RatingsProofs -----------------------------
(* What is proved of Ratings, for any numbers of passengers, routes and slots, *)
(* whatever runs beside what and wherever a handler is lost.                   *)
EXTENDS Ratings, FiniteSetTheorems, FunctionTheorems, TLAPS

Busy(w, u) == proc[w].at # "idle" /\ proc[w].u = u

-----------------------------------------------------------------------------
(* What every handler and every booking is like; rt is the table of ratings.   *)

Shape(p, rt) ==
    /\ p.at = "insert" => p.op = "createRating" /\ p.score \in Scores
    /\ p.at = "average" => p.op = "createRating" /\ rt[<<p.f, p.u, p.r>>] # 0
    /\ p.at \in {"save", "flush"} => p.op \in Ops /\ p.copy.ratingPromedio >= 100
    /\ p.op = "cancelRoute" => p.u = Driver

BookedInv == \A r \in Routes : route[r].estado = "none" => \A p \in Passengers : booking[r][p] = "none"

Inv == TypeOK /\ (\A w \in Workers : Shape(proc[w], rating)) /\ BookedInv

-----------------------------------------------------------------------------
(* What the profile of a user who is not disturbed says, between handlers and  *)
(* while its one handler is at work: row is the profile, due what it should    *)
(* say, pen the penalties since the last rating.                               *)

Fair(u) == IF Received(u) = {} THEN 500 ELSE Average(u)
DueAverage(u) == IF penalties[u] = 0 THEN Fair(u) ELSE Max({Fair(u) - 100 * penalties[u], 100})
Due(u) == [ratingPromedio |-> DueAverage(u), totalCalificaciones |-> Cardinality(Received(u)),
           isBloqueadoPorRating |-> DueAverage(u) < 300]

Tracks(p, row, due, pen) ==
    /\ p.at \in {"insert", "cancel"} => row = due
    /\ p.at = "average" => pen = 0
    /\ p.at \in {"save", "flush"} =>
          /\ p.op = "createRating" => p.copy = due
          /\ p.op = "updateProfile" => row = due /\ p.copy = row
          /\ p.op = "cancelRoute" => row = due /\ p.copy = Penalized(row)
    /\ p.at = "flush" => p.cols = Differing(p.copy, row)

Follows(u) ==
    /\ \A v, w \in Workers : Busy(v, u) /\ Busy(w, u) => v = w
    /\ ~Written(u) => profile[u] = Due(u)
    /\ \A w \in Workers : Busy(w, u) => Tracks(proc[w], profile[u], Due(u), penalties[u])

FollowsInv == \A u \in Users \ disturbed : Follows(u)

-----------------------------------------------------------------------------
(* Sums over a finite set, by the least counterexample.                        *)

LEMMA NatOrder ==
    \E R : IsWellFoundedOn(R, Nat) /\ \A x, y \in Nat : <<y, x>> \in R <=> y < x
<1> DEFINE R == OpToRel(<, Nat)
<1>1. IsWellFoundedOn(R, Nat)
  BY NatLessThanWellFounded
<1>2. \A x, y \in Nat : <<y, x>> \in R <=> y < x
  BY DEF OpToRel
<1> HIDE DEF R
<1>. QED  BY <1>1, <1>2

LEMMA Least ==
    ASSUME NEW T, T \subseteq Nat, T # {}
    PROVE  \E m \in T : \A k \in T : m <= k
<1>1. PICK R : IsWellFoundedOn(R, Nat) /\ \A x, y \in Nat : <<y, x>> \in R <=> y < x
  BY NatOrder
<1>2. PICK m \in T : \A k \in T : ~ (<<k, m>> \in R)
  BY <1>1, WFMin
<1>3. \A k \in T : m <= k
  <2> SUFFICES ASSUME NEW k \in T
               PROVE  m <= k
    OBVIOUS
  <2>1. k \in Nat /\ m \in Nat /\ ~ (<<k, m>> \in R)
    BY <1>2
  <2>2. ~(k < m)
    BY <1>1, <2>1
  <2>. QED  BY <2>1, <2>2
<1>. QED  BY <1>3

Sums(g, S, f) ==
    g = [s \in SUBSET S |->
            IF s = {} THEN 0
            ELSE LET x == CHOOSE x \in s : TRUE IN f[x] + g[s \ {x}]]

LEMMA SumsExist ==
    ASSUME NEW S, NEW f, IsFiniteSet(S)
    PROVE  \E g : Sums(g, S, f)
<1> DEFINE Upto(n) == {s \in SUBSET S : Cardinality(s) <= n}
           First(s) == CHOOSE x \in s : TRUE
           Sum(g, n) == g = [s \in Upto(n) |->
                              IF s = {} THEN 0 ELSE f[First(s)] + g[s \ {First(s)}]]
           Bad == {n \in Nat : ~ \E g : Sum(g, n)}
<1>0. \A s \in SUBSET S : /\ IsFiniteSet(s) /\ Cardinality(s) \in Nat /\ Cardinality(s) <= Cardinality(S)
                          /\ (Cardinality(s) = 0 <=> s = {})
  BY FS_Subset, FS_CardinalityType, FS_EmptySet
<1>1. \A s \in SUBSET S : s # {} =>
        First(s) \in s /\ s \ {First(s)} \in SUBSET S /\ Cardinality(s \ {First(s)}) = Cardinality(s) - 1
  BY <1>0, FS_RemoveElement
<1>2. Bad = {}
  <2> SUFFICES ASSUME Bad # {}
               PROVE  FALSE
    OBVIOUS
  <2>1. PICK m \in Bad : \A k \in Bad : m <= k
    BY Least
  <2>2. m # 0
    <3>1. Upto(0) = {{}}
      BY <1>0, FS_EmptySet
    <3> DEFINE g == [s \in Upto(0) |-> 0]
    <3>2. Sum(g, 0)
      BY <3>1
    <3>. QED  BY <3>2, ZenonT(60)
  <2>3. m - 1 \in Nat /\ m \in Nat
    BY <2>1, <2>2
  <2>4. PICK g : Sum(g, m - 1)
    <3>1. m - 1 \notin Bad
      <4> HIDE DEF Bad
      <4>. QED  BY <2>1, <2>3
    <3>. QED  BY <2>3, <3>1
  <2> DEFINE next == [s \in Upto(m) |->
                IF s = {} THEN 0 ELSE f[First(s)] + g[s \ {First(s)}]]
  <2>5. \A s \in Upto(m) : s # {} => next[s \ {First(s)}] = g[s \ {First(s)}]
    <3> SUFFICES ASSUME NEW s \in Upto(m), s # {}
                 PROVE  next[s \ {First(s)}] = g[s \ {First(s)}]
      OBVIOUS
    <3> DEFINE r == s \ {First(s)}
    <3>1. r \in Upto(m - 1) /\ r \in Upto(m)
      BY <1>0, <1>1, <2>3
    <3> HIDE DEF r
    <3>2. g[r] = IF r = {} THEN 0 ELSE f[First(r)] + g[r \ {First(r)}]
      BY <2>4, <3>1
    <3>3. next[r] = IF r = {} THEN 0 ELSE f[First(r)] + g[r \ {First(r)}]
      BY <3>1
    <3>. QED  BY <3>2, <3>3 DEF r
  <2>6. Sum(next, m)
    <3> DEFINE Def(h) == [s \in Upto(m) |->
                IF s = {} THEN 0 ELSE f[First(s)] + h[s \ {First(s)}]]
    <3> HIDE DEF Upto, First, next
    <3>1. \A s \in Upto(m) : (IF s = {} THEN 0 ELSE f[First(s)] + g[s \ {First(s)}])
                = (IF s = {} THEN 0 ELSE f[First(s)] + next[s \ {First(s)}])
      BY <2>5
    <3>2. Def(g) = Def(next)
      BY <3>1
    <3>3. next = Def(g)
      BY DEF next
    <3>. QED  BY <3>2, <3>3
  <2>. QED  BY <2>1, <2>6
<1>3. PICK g : Sum(g, Cardinality(S))
  BY <1>0, <1>2
<1>4. Upto(Cardinality(S)) = SUBSET S
  BY <1>0
<1>5. Sums(g, S, f)
  BY <1>3, <1>4 DEF Sums
<1>. QED  BY <1>5

LEMMA SumIs ==
    ASSUME NEW S
    PROVE  MapThenSumSet(LAMBDA x : rating[x], S) = (CHOOSE g : Sums(g, S, rating))[S]
  BY DEF MapThenSumSet, MapThenFoldSet, Sums

LEMMA SumBounds ==
    ASSUME NEW S, NEW f, NEW g, IsFiniteSet(S), \A x \in S : f[x] \in 1..5, Sums(g, S, f)
    PROVE  g[S] \in Nat /\ Cardinality(S) <= g[S] /\ g[S] <= 5 * Cardinality(S)
<1> DEFINE Good(s) == g[s] \in Nat /\ Cardinality(s) <= g[s] /\ g[s] <= 5 * Cardinality(s)
           Bad == {n \in Nat : \E s \in SUBSET S : Cardinality(s) = n /\ ~Good(s)}
<1>1. \A s \in SUBSET S : IsFiniteSet(s) /\ Cardinality(s) \in Nat
  BY FS_Subset, FS_CardinalityType
<1>2. Bad = {}
  <2> SUFFICES ASSUME Bad # {}
               PROVE  FALSE
    OBVIOUS
  <2>1. PICK m \in Bad : \A k \in Bad : m <= k
    BY Least
  <2>2. PICK s \in SUBSET S : Cardinality(s) = m /\ ~Good(s)
    BY <2>1
  <2>3. s # {}
    <3>1. CASE s = {}
      <4>1. g[s] = 0 /\ Cardinality(s) = 0
        BY <3>1, FS_EmptySet DEF Sums
      <4>. QED  BY <2>2, <4>1
    <3>. QED  BY <3>1
  <2> DEFINE x == CHOOSE x \in s : TRUE
             r == s \ {x}
  <2>4. g[s] = f[x] + g[r] /\ x \in s
    BY <2>2, <2>3 DEF Sums
  <2> HIDE DEF x
  <2>5. r \in SUBSET S /\ Cardinality(r) = m - 1 /\ m - 1 \in Nat
    <3>1. IsFiniteSet(s) /\ r \in SUBSET S
      BY <1>1
    <3>2. Cardinality(r) = Cardinality(s) - 1
      BY <2>4, <3>1, FS_RemoveElement
    <3>. QED  BY <1>1, <2>2, <3>1, <3>2
  <2>6. Good(r)
    <3>0. m \in Nat
      BY <2>1
    <3>1. m - 1 \notin Bad
      <4> HIDE DEF Bad
      <4>. QED  BY <2>1, <2>5, <3>0
    <3>. QED  BY <2>5, <3>1
  <2>7. f[x] \in 1..5
    BY <2>4
  <2>8. Good(s)
    <3>1. /\ g[r] \in Nat /\ m - 1 <= g[r] /\ g[r] <= 5 * (m - 1) /\ m \in Nat
      BY <2>5, <2>6
    <3>. QED  BY <2>2, <2>4, <2>7, <3>1
  <2>. QED  BY <2>2, <2>8
<1>. QED  BY <1>1, <1>2

(* The mean of scores of 1..5, in hundredths and rounded. *)
LEMMA Rounded ==
    ASSUME NEW n \in Nat \ {0}, NEW s \in Nat, n <= s, s <= 5 * n
    PROVE  (100 * s + n \div 2) \div n \in 100..500
<1> DEFINE a == 100 * s + n \div 2
           q == a \div n
<1>1. n \div 2 \in Nat /\ n \div 2 < n
  OBVIOUS
<1>2. a \in Nat /\ 100 * n <= a /\ a < 501 * n
  BY <1>1
<1> HIDE DEF a
<1>3. q \in Nat /\ q * n <= a /\ a < (q + 1) * n
  BY <1>2
<1> HIDE DEF q
<1>4. q >= 100
  <2> SUFFICES ASSUME q <= 99
               PROVE  FALSE
    BY <1>3
  <2>1. (q + 1) * n <= 100 * n
    BY <1>3
  <2>. QED  BY <1>2, <1>3, <2>1
<1>5. q <= 500
  <2> SUFFICES ASSUME q >= 501
               PROVE  FALSE
    BY <1>3
  <2>1. 501 * n <= q * n
    BY <1>3
  <2>. QED  BY <1>2, <1>3, <2>1
<1>. QED  BY <1>3, <1>4, <1>5 DEF a, q

-----------------------------------------------------------------------------
(* Rows of user_profiles. *)

Columns == {"ratingPromedio", "totalCalificaciones", "isBloqueadoPorRating"}

LEMMA MaxOfTwo ==
    ASSUME NEW a \in Int, NEW b \in Int
    PROVE  Max({a, b}) = IF a >= b THEN a ELSE b
<1> DEFINE m == IF a >= b THEN a ELSE b
<1>1. m \in {a, b} /\ \A y \in {a, b} : m >= y
  OBVIOUS
<1>2. \A x \in {a, b} : (\A y \in {a, b} : x >= y) => x = m
  OBVIOUS
<1> HIDE DEF m
<1>3. (CHOOSE x \in {a, b} : \A y \in {a, b} : x >= y) = m
  BY <1>1, <1>2
<1>. QED  BY <1>3 DEF Max, m

LEMMA TriplesFinite == IsFiniteSet(Triples) /\ Cardinality(Triples) \in Nat
<1>1. IsFiniteSet(Users)
  BY RatingAssumption, FS_AddElement DEF Users
<1>2. IsFiniteSet(Users \X Users)
  BY <1>1, FS_Product
<1>3. \E f \in [(Users \X Users) \X Routes -> Triples] : \A t \in Triples : \E s \in (Users \X Users) \X Routes : f[s] = t
  <2> DEFINE f == [s \in (Users \X Users) \X Routes |-> <<s[1][1], s[1][2], s[2]>>]
  <2>1. f \in [(Users \X Users) \X Routes -> Triples]
    BY DEF Triples
  <2>2. ASSUME NEW t \in Triples
        PROVE  \E s \in (Users \X Users) \X Routes : f[s] = t
    <3>1. PICK a \in Users, b \in Users, r \in Routes : t = <<a, b, r>>
      BY DEF Triples
    <3>2. f[<<<<a, b>>, r>>] = t
      BY <3>1
    <3>. QED  BY <3>1, <3>2
  <2>. QED  BY <2>1, <2>2
<1>4. IsFiniteSet((Users \X Users) \X Routes)
  BY <1>2, RatingAssumption, FS_Product
<1>5. IsFiniteSet(Triples)
  BY <1>3, <1>4, FS_Surjection, Fun_IsSurj
<1>. QED  BY <1>5, FS_CardinalityType

LEMMA NewProfileType == NewProfile \in Profile /\ DOMAIN NewProfile = Columns
  BY TriplesFinite DEF NewProfile, Profile, Columns

LEMMA IdleType ==
    /\ Idle \in Proc /\ Idle.at = "idle" /\ Idle.u = Driver
    /\ \A rt : Shape(Idle, rt)
<1>1. AnyRoute \in Routes
  BY RatingAssumption DEF AnyRoute
<1>. QED  BY <1>1, NewProfileType DEF Idle, Proc, Stages, Users, Shape

LEMMA RowOperators ==
    ASSUME NEW copy \in Profile, NEW row \in Profile, NEW cols
    PROVE  /\ Updated(copy, row, cols) \in Profile
           /\ Updated(copy, row, cols).ratingPromedio \in {copy.ratingPromedio, row.ratingPromedio}
           /\ Differing(copy, row) \in SUBSET Columns
           /\ cols = Differing(copy, row) => Updated(copy, row, cols) = copy
<1>1. DOMAIN row = Columns /\ DOMAIN copy = Columns
  BY DEF Profile, Columns
<1>2. Updated(copy, row, cols) = [c \in Columns |-> IF c \in cols THEN copy[c] ELSE row[c]]
  BY <1>1 DEF Updated
<1>3. /\ copy["ratingPromedio"] = copy.ratingPromedio /\ row["ratingPromedio"] = row.ratingPromedio
      /\ copy["totalCalificaciones"] = copy.totalCalificaciones
      /\ row["totalCalificaciones"] = row.totalCalificaciones
      /\ copy["isBloqueadoPorRating"] = copy.isBloqueadoPorRating
      /\ row["isBloqueadoPorRating"] = row.isBloqueadoPorRating
  OBVIOUS
<1>4. Differing(copy, row) = {c \in Columns : copy[c] # row[c]}
  BY <1>1 DEF Differing
<1>5. ASSUME cols = Differing(copy, row)
      PROVE  Updated(copy, row, cols) = copy
  <2>1. \A c \in Columns : (IF c \in cols THEN copy[c] ELSE row[c]) = copy[c]
    BY <1>4, <1>5
  <2>2. copy = [c \in Columns |-> copy[c]]
    BY <1>1 DEF Profile, Columns
  <2>. QED  BY <1>2, <2>1, <2>2
<1>6. Updated(copy, row, cols) \in Profile
  <2> DEFINE new == Updated(copy, row, cols)
  <2>1. /\ new["ratingPromedio"] \in 0..500 /\ new["totalCalificaciones"] \in 0..Cardinality(Triples)
        /\ new["isBloqueadoPorRating"] \in BOOLEAN
    BY <1>2, <1>3 DEF Columns, Profile
  <2>2. new = [c \in Columns |-> new[c]]
    BY <1>2
  <2> HIDE DEF new
  <2>3. new \in Profile
    BY <2>1, <2>2 DEF Profile, Columns
  <2>. QED  BY <2>3 DEF new
<1>7. Updated(copy, row, cols).ratingPromedio \in {copy.ratingPromedio, row.ratingPromedio}
  BY <1>2, <1>3 DEF Columns
<1>. QED  BY <1>4, <1>5, <1>6, <1>7

LEMMA PenalizedIs ==
    ASSUME NEW row \in Profile
    PROVE  /\ Penalized(row) \in Profile /\ Penalized(row).ratingPromedio \in 100..500
           /\ Penalized(row).ratingPromedio =
                  IF row.ratingPromedio >= 200 THEN row.ratingPromedio - 100 ELSE 100
           /\ Penalized(row).totalCalificaciones = row.totalCalificaciones
           /\ Penalized(row).isBloqueadoPorRating = (Penalized(row).ratingPromedio < 300)
<1> DEFINE a == row.ratingPromedio
           next == Max({a - 100, 100})
<1>1. a \in 0..500 /\ row = [c \in Columns |-> row[c]]
  BY DEF Profile, Columns
<1>2. Penalized(row) = [row EXCEPT !.ratingPromedio = next, !.isBloqueadoPorRating = next < 300]
  BY DEF Penalized
<1>3. /\ row.totalCalificaciones \in 0..Cardinality(Triples)
      /\ DOMAIN row = Columns
  BY DEF Profile, Columns
<1> HIDE DEF a
<1>4. a - 100 \in Int
  BY <1>1
<1>5. next = IF a - 100 >= 100 THEN a - 100 ELSE 100
  BY <1>4, MaxOfTwo
<1> HIDE DEF next
<1>6. next = IF a >= 200 THEN a - 100 ELSE 100
  BY <1>1, <1>5
<1>7. next \in 100..500 /\ next \in 0..500 /\ (next < 300) \in BOOLEAN
  BY <1>1, <1>6
<1>8. /\ Penalized(row).ratingPromedio = next
      /\ Penalized(row).totalCalificaciones = row.totalCalificaciones
      /\ Penalized(row).isBloqueadoPorRating = (next < 300)
  BY <1>2, <1>3 DEF Columns
<1>9. Penalized(row) \in Profile
  <2> DEFINE low == next < 300
             A == 0..500
             C == 0..Cardinality(Triples)
  <2>1. row \in [ratingPromedio : A, totalCalificaciones : C, isBloqueadoPorRating : BOOLEAN]
    BY DEF Profile
  <2>2. low \in BOOLEAN /\ next \in A
    BY <1>7
  <2> HIDE DEF low, A, C
  <2>3. [row EXCEPT !.ratingPromedio = next, !.isBloqueadoPorRating = low]
            \in [ratingPromedio : A, totalCalificaciones : C, isBloqueadoPorRating : BOOLEAN]
    BY <2>1, <2>2
  <2>. QED  BY <1>2, <2>3 DEF Profile, low, A, C
<1>. QED  BY <1>6, <1>7, <1>8, <1>9 DEF a

LEMMA ReceivedIs ==
    ASSUME TypeOK, NEW u
    PROVE  /\ Received(u) \subseteq Triples /\ IsFiniteSet(Received(u))
           /\ Cardinality(Received(u)) \in 0..Cardinality(Triples)
           /\ Received(u) # {} <=> Cardinality(Received(u)) # 0
           /\ \A x \in Received(u) : rating[x] \in 1..5
<1>1. Received(u) \subseteq Triples
  BY DEF Received
<1>2. \A x \in Received(u) : rating[x] \in 1..5
  BY RatingAssumption DEF Received, TypeOK
<1>3. /\ IsFiniteSet(Received(u)) /\ Cardinality(Received(u)) \in Nat
      /\ Cardinality(Received(u)) <= Cardinality(Triples)
  BY <1>1, TriplesFinite, FS_Subset, FS_CardinalityType
<1>. QED  BY <1>1, <1>2, <1>3, TriplesFinite, FS_EmptySet

LEMMA AverageIs ==
    ASSUME TypeOK, NEW u, Received(u) # {}
    PROVE  Average(u) \in 100..500
<1> DEFINE S == Received(u)
           n == Cardinality(S)
           g == CHOOSE g : Sums(g, S, rating)
<1>1. IsFiniteSet(S) /\ n \in Nat \ {0} /\ \A x \in S : rating[x] \in 1..5
  BY ReceivedIs
<1> HIDE DEF S
<1>2. Sums(g, S, rating)
  BY <1>1, SumsExist
<1> HIDE DEF g
<1>3. g[S] \in Nat /\ n <= g[S] /\ g[S] <= 5 * n
  BY <1>1, <1>2, SumBounds
<1>4. MapThenSumSet(LAMBDA x : rating[x], S) = g[S]
  BY SumIs DEF g
<1>5. Average(u) = (100 * g[S] + n \div 2) \div n
  BY <1>4 DEF Average, S
<1> HIDE DEF n
<1>. QED  BY <1>1, <1>3, <1>5, Rounded, ZenonT(60)

-----------------------------------------------------------------------------
(* The invariant.                                                              *)

Kept ==
    /\ now' \in 0..MaxTime
    /\ profile' \in [Users -> Profile]
    /\ \A u \in Users : profile'[u].ratingPromedio >= 100
    /\ route' \in [Routes -> [estado : EstadoRuta, updatedAt : 0..MaxTime]]
    /\ booking' \in [Routes -> [Passengers -> EstadoReserva]]
    /\ rating' \in [Triples -> {0} \cup Scores]
    /\ penalties' \in [Users -> Nat]
    /\ disturbed' \subseteq Users
    /\ \A x \in Triples : rating[x] # 0 => rating'[x] # 0
    /\ BookedInv'

LEMMA ShapeStays ==
    ASSUME NEW p \in Proc, NEW r1, NEW r2, Shape(p, r1),
           \A x \in Triples : r1[x] # 0 => r2[x] # 0
    PROVE  Shape(p, r2)
<1>1. <<p.f, p.u, p.r>> \in Triples
  BY DEF Proc, Triples
<1>. QED  BY <1>1 DEF Shape

(* A step of one slot, that leaves the tables as they should be. *)
LEMMA SlotKeepsInv ==
    ASSUME Inv, Kept, NEW w \in Workers, NEW r \in Proc, Become(w, r), Shape(r, rating')
    PROVE  Inv'
<1>1. proc' = [proc EXCEPT ![w] = r] /\ proc \in [Workers -> Proc]
  BY DEF Become, Inv, TypeOK
<1>2. proc' \in [Workers -> Proc]
  BY <1>1
<1>3. \A v \in Workers : Shape(proc[v], rating)
  BY DEF Inv
<1>4. ASSUME NEW v \in Workers
      PROVE  Shape(proc'[v], rating')
  <2>1. CASE v = w
    <3>1. proc'[v] = r
      BY <1>1, <2>1
    <3>. QED  BY <3>1
  <2>2. CASE v # w
    <3>1. proc'[v] = proc[v] /\ proc[v] \in Proc
      BY <1>1, <2>2
    <3>2. Shape(proc[v], rating')
      BY <1>3, <3>1, ShapeStays DEF Kept
    <3>. QED  BY <3>1, <3>2
  <2>. QED  BY <2>1, <2>2
<1>. QED  BY <1>2, <1>4 DEF Kept, Inv, TypeOK

LEMMA QuietStep ==
    ASSUME Inv, NEW w \in Workers, NEW r \in Proc, Become(w, r), Shape(r, rating),
           UNCHANGED <<now, profile, route, booking, rating, penalties>>,
           disturbed' \subseteq Users
    PROVE  Inv'
<1>1. Kept
  BY DEF Kept, Inv, TypeOK, BookedInv
<1>2. Shape(r, rating')
  OBVIOUS
<1>. QED  BY <1>1, <1>2, SlotKeepsInv

(* A step of the routes. *)
LEMMA OutsideKeeps ==
    ASSUME Inv, UNCHANGED <<profile, rating, proc, penalties, disturbed>>,
           now' \in 0..MaxTime,
           route' \in [Routes -> [estado : EstadoRuta, updatedAt : 0..MaxTime]],
           booking' \in [Routes -> [Passengers -> EstadoReserva]],
           BookedInv'
    PROVE  Inv'
<1>1. \A w \in Workers : Shape(proc[w], rating)
  BY DEF Inv
<1>2. \A w \in Workers : Shape(proc'[w], rating')
  BY <1>1
<1>. QED  BY <1>2 DEF Inv, TypeOK

LEMMA CalledKeeps ==
    ASSUME NEW w, NEW op, NEW u \in Users, Inv, Called(w, op, u)
    PROVE  disturbed' \subseteq Users
BY DEF Called, Inv, TypeOK

LEMMA RoutesKeep ==
    ASSUME Inv, NEW r \in Routes,
           \/ CreateRoute(r) \/ FinalizeRoute(r)
           \/ \E p \in Passengers :
                \/ CreateBooking(p, r)
                \/ \E estado \in Settled \cup {"CANCELADA"} : SettleBooking(p, r, estado)
    PROVE  Inv'
<1>0. /\ route \in [Routes -> [estado : EstadoRuta, updatedAt : 0..MaxTime]]
      /\ booking \in [Routes -> [Passengers -> EstadoReserva]]
      /\ now \in 0..MaxTime /\ BookedInv
  BY DEF Inv, TypeOK
<1>1. ASSUME NEW estado \in EstadoRuta \ {"none"},
             route' = [route EXCEPT ![r] = [estado |-> estado, updatedAt |-> now]],
             UNCHANGED <<now, profile, booking, rating, proc, penalties, disturbed>>
      PROVE  Inv'
  <2>1. route' \in [Routes -> [estado : EstadoRuta, updatedAt : 0..MaxTime]]
    BY <1>0, <1>1
  <2>2. BookedInv'
    BY <1>0, <1>1 DEF BookedInv
  <2>. QED  BY <1>0, <1>1, <2>1, <2>2, OutsideKeeps
<1>2. ASSUME NEW p \in Passengers, NEW estado \in EstadoReserva,
             route[r].estado = "ACTIVA",
             booking' = [booking EXCEPT ![r][p] = estado],
             UNCHANGED <<now, profile, route, rating, proc, penalties, disturbed>>
      PROVE  Inv'
  <2>1. booking' \in [Routes -> [Passengers -> EstadoReserva]]
    BY <1>0, <1>2
  <2>2. BookedInv'
    BY <1>0, <1>2 DEF BookedInv
  <2>. QED  BY <1>0, <1>2, <2>1, <2>2, OutsideKeeps
<1>3. CASE CreateRoute(r)
  BY <1>1, <1>3 DEF CreateRoute, EstadoRuta
<1>4. CASE FinalizeRoute(r)
  BY <1>1, <1>4 DEF FinalizeRoute, EstadoRuta
<1>5. ASSUME NEW p \in Passengers, CreateBooking(p, r)
      PROVE  Inv'
  BY <1>2, <1>5 DEF CreateBooking, EstadoReserva
<1>6. ASSUME NEW p \in Passengers, NEW estado \in Settled \cup {"CANCELADA"},
             SettleBooking(p, r, estado)
      PROVE  Inv'
  <2>1. estado \in EstadoReserva
    BY DEF Settled, EstadoReserva
  <2>. QED  BY <1>2, <1>6, <2>1 DEF SettleBooking
<1>. QED  BY <1>3, <1>4, <1>5, <1>6

LEMMA TickKeeps == Inv /\ Tick => Inv'
<1> SUFFICES ASSUME Inv, Tick
             PROVE  Inv'
  OBVIOUS
<1>1. now \in 0..MaxTime /\ MaxTime \in Nat
  BY RatingAssumption DEF Inv, TypeOK
<1>2. now' \in 0..MaxTime
  BY <1>1 DEF Tick
<1>3. BookedInv'
  BY DEF Tick, Inv, BookedInv
<1>. QED  BY <1>2, <1>3, OutsideKeeps DEF Tick, Inv, TypeOK

-----------------------------------------------------------------------------
(* The slots' steps keep it. *)

LEMMA UserOf ==
    ASSUME Inv, NEW w \in Workers
    PROVE  /\ proc[w] \in Proc /\ proc[w].u \in Users /\ proc[w].f \in Users /\ proc[w].r \in Routes
           /\ proc[w].copy \in Profile /\ proc[w].op \in Ops \cup {"none"} /\ proc[w].cols \subseteq Columns
           /\ <<proc[w].f, proc[w].u, proc[w].r>> \in Triples
           /\ profile[proc[w].u] \in Profile /\ profile[proc[w].u].ratingPromedio >= 100
<1>1. proc[w] \in Proc
  BY DEF Inv, TypeOK
<1>2. /\ proc[w].u \in Users /\ proc[w].f \in Users /\ proc[w].r \in Routes /\ proc[w].copy \in Profile
      /\ proc[w].op \in Ops \cup {"none"} /\ proc[w].cols \subseteq DOMAIN NewProfile
  BY <1>1 DEF Proc
<1>3. <<proc[w].f, proc[w].u, proc[w].r>> \in Triples
  BY <1>2 DEF Triples
<1>. QED  BY <1>1, <1>2, <1>3, NewProfileType DEF Inv, TypeOK

LEMMA CancelRouteIs ==
    ASSUME Inv, NEW w \in Workers, NEW r \in Routes, NEW late \in BOOLEAN, CancelRoute(w, r, late)
    PROVE  \E p \in Proc :
              /\ Become(w, p) /\ Shape(p, rating)
              /\ p.op = "cancelRoute" /\ p.u = Driver /\ p.copy = Penalized(profile[Driver])
              /\ p.at \in {"save", "cancel"}
<1> DEFINE p == [Idle EXCEPT !.op = "cancelRoute", !.r = r,
            !.at = IF late THEN "save" ELSE "cancel", !.copy = Penalized(profile[Driver])]
           copy == Penalized(profile[Driver])
           at == IF late THEN "save" ELSE "cancel"
<1>1. Become(w, p)
  BY DEF CancelRoute
<1>2. copy \in Profile /\ copy.ratingPromedio >= 100
  <2>1. profile[Driver] \in Profile
    BY DEF Inv, TypeOK, Users
  <2>2. copy \in Profile /\ copy.ratingPromedio \in 100..500
    BY <2>1, PenalizedIs
  <2>. QED  BY <2>2
<1>3. at \in {"save", "cancel"}
  OBVIOUS
<1> HIDE DEF copy, at
<1>4. p = [Idle EXCEPT !.op = "cancelRoute", !.r = r, !.at = at, !.copy = copy]
  BY DEF copy, at
<1> HIDE DEF p
<1>5. p \in Proc
  BY <1>2, <1>3, <1>4, IdleType DEF Proc, Ops, Stages
<1>6. p.op = "cancelRoute" /\ p.u = Driver /\ p.copy = copy /\ p.at = at
  BY <1>4, IdleType DEF Proc
<1>7. Shape(p, rating)
  BY <1>2, <1>3, <1>6 DEF Shape, Ops
<1>. QED  BY <1>1, <1>3, <1>5, <1>6, <1>7 DEF copy

LEMMA CreateRatingIs ==
    ASSUME Inv, NEW w \in Workers, NEW f \in Users, NEW t \in Users, NEW r \in Routes,
           NEW score \in Scores, CreateRating(w, f, t, r, score)
    PROVE  \E p \in Proc :
              /\ Become(w, p) /\ Shape(p, rating)
              /\ p.at = "insert" /\ p.op = "createRating" /\ p.u = t
<1> DEFINE p == [Idle EXCEPT !.op = "createRating", !.at = "insert",
            !.u = t, !.f = f, !.r = r, !.score = score]
<1>1. Become(w, p)
  BY DEF CreateRating
<1>3. p \in Proc
  BY IdleType DEF Proc, Ops, Stages
<1>4. p.at = "insert" /\ p.op = "createRating" /\ p.u = t /\ p.score = score
  BY IdleType DEF Proc
<1> HIDE DEF p
<1>5. Shape(p, rating)
  BY <1>4 DEF Shape
<1>. QED  BY <1>1, <1>3, <1>4, <1>5

LEMMA UpdateProfileIs ==
    ASSUME Inv, NEW w \in Workers, NEW u \in Users, UpdateProfile(w, u)
    PROVE  \E p \in Proc :
              /\ Become(w, p) /\ Shape(p, rating)
              /\ p.at = "save" /\ p.op = "updateProfile" /\ p.u = u /\ p.copy = profile[u]
<1> DEFINE p == [Idle EXCEPT !.op = "updateProfile", !.at = "save", !.u = u,
            !.copy = profile[u]]
<1>1. Become(w, p)
  BY DEF UpdateProfile
<1>3. profile[u] \in Profile /\ profile[u].ratingPromedio >= 100
  BY DEF Inv, TypeOK
<1>5. p \in Proc
  BY <1>3, IdleType DEF Proc, Ops, Stages
<1>6. p.at = "save" /\ p.op = "updateProfile" /\ p.u = u /\ p.copy = profile[u]
  BY IdleType DEF Proc
<1> HIDE DEF p
<1>7. Shape(p, rating)
  BY <1>3, <1>6 DEF Shape, Ops
<1>. QED  BY <1>1, <1>5, <1>6, <1>7

LEMMA CallsKeep ==
    ASSUME Inv, NEW w \in Workers,
           \/ \E r \in Routes :
                \/ \E late \in BOOLEAN : CancelRoute(w, r, late)
                \/ \E f, t \in Users, score \in Scores : CreateRating(w, f, t, r, score)
           \/ \E u \in Users : UpdateProfile(w, u)
    PROVE  Inv'
<1>1. ASSUME NEW r \in Routes, NEW late \in BOOLEAN, CancelRoute(w, r, late)
      PROVE  Inv'
  <2>1. PICK p \in Proc : Become(w, p) /\ Shape(p, rating)
    BY <1>1, CancelRouteIs
  <2>2. disturbed' \subseteq Users
    BY <1>1, CalledKeeps DEF CancelRoute, Users
  <2>. QED  BY <1>1, <2>1, <2>2, QuietStep DEF CancelRoute
<1>2. ASSUME NEW r \in Routes, NEW f \in Users, NEW t \in Users, NEW score \in Scores,
             CreateRating(w, f, t, r, score)
      PROVE  Inv'
  <2>1. PICK p \in Proc : Become(w, p) /\ Shape(p, rating)
    BY <1>2, CreateRatingIs
  <2>2. disturbed' \subseteq Users
    BY <1>2, CalledKeeps DEF CreateRating
  <2>. QED  BY <1>2, <2>1, <2>2, QuietStep DEF CreateRating
<1>3. ASSUME NEW u \in Users, UpdateProfile(w, u)
      PROVE  Inv'
  <2>1. PICK p \in Proc : Become(w, p) /\ Shape(p, rating)
    BY <1>3, UpdateProfileIs
  <2>2. disturbed' \subseteq Users
    BY <1>3, CalledKeeps DEF UpdateProfile
  <2>. QED  BY <1>3, <2>1, <2>2, QuietStep DEF UpdateProfile
<1>. QED  BY <1>1, <1>2, <1>3

LEMMA FailKeeps ==
    ASSUME Inv, NEW w \in Workers, Fail(w)
    PROVE  Inv'
<1>1. disturbed' \subseteq Users
  BY UserOf DEF Fail, Inv, TypeOK
<1>. QED  BY <1>1, IdleType, QuietStep DEF Fail, Done

LEMMA InsertIs ==
    ASSUME Inv, NEW w \in Workers, InsertRating(w)
    PROVE  LET x == <<proc[w].f, proc[w].u, proc[w].r>>
           IN  /\ rating[x] = 0 =>
                    /\ \E p \in Proc : Become(w, p) /\ Shape(p, rating')
                                       /\ p.at = "average" /\ p.op = "createRating" /\ p.u = proc[w].u
                    /\ rating' = [rating EXCEPT ![x] = proc[w].score] /\ proc[w].score \in Scores \ {0}
                    /\ penalties' = [penalties EXCEPT ![proc[w].u] = 0]
               /\ rating[x] # 0 => Done(w) /\ UNCHANGED <<rating, penalties>>
<1> DEFINE x == <<proc[w].f, proc[w].u, proc[w].r>>
           p == [proc[w] EXCEPT !.at = "average"]
<1>0. x \in Triples /\ proc[w] \in Proc /\ rating \in [Triples -> {0} \cup Scores]
  BY UserOf DEF Inv, TypeOK
<1>1. proc[w].op = "createRating" /\ proc[w].score \in Scores \ {0}
  BY RatingAssumption DEF Inv, Shape, InsertRating
<1>2. /\ p \in Proc /\ p.at = "average" /\ p.op = "createRating" /\ p.u = proc[w].u
      /\ p.f = proc[w].f /\ p.r = proc[w].r
  BY <1>0, <1>1 DEF Proc, Stages
<1> HIDE DEF p
<1>3. ASSUME rating[x] = 0
      PROVE  /\ Become(w, p) /\ rating' = [rating EXCEPT ![x] = proc[w].score]
             /\ penalties' = [penalties EXCEPT ![proc[w].u] = 0]
  BY <1>3 DEF InsertRating, p
<1>4. ASSUME rating[x] = 0
      PROVE  Shape(p, rating')
  <2>1. rating'[x] = proc[w].score
    BY <1>0, <1>3, <1>4
  <2>2. rating'[<<p.f, p.u, p.r>>] # 0
    BY <1>1, <1>2, <2>1
  <2>. QED  BY <1>2, <2>2 DEF Shape
<1>5. rating[x] # 0 => Done(w) /\ UNCHANGED <<rating, penalties>>
  BY DEF InsertRating
<1>. QED  BY <1>1, <1>2, <1>3, <1>4, <1>5

LEMMA InsertKeeps ==
    ASSUME Inv, NEW w \in Workers, InsertRating(w)
    PROVE  Inv'
<1> DEFINE x == <<proc[w].f, proc[w].u, proc[w].r>>
<1>0. UNCHANGED <<now, profile, route, booking, disturbed>>
  BY DEF InsertRating
<1>1. CASE rating[x] = 0
  <2>1. /\ rating' = [rating EXCEPT ![x] = proc[w].score] /\ proc[w].score \in Scores \ {0}
        /\ penalties' = [penalties EXCEPT ![proc[w].u] = 0]
    BY <1>1, InsertIs
  <2>2. PICK p \in Proc : Become(w, p) /\ Shape(p, rating')
    BY <1>1, InsertIs
  <2>3. x \in Triples
    BY UserOf
  <2> HIDE DEF x
  <2>4. \A y \in Triples : rating[y] # 0 => rating'[y] # 0
    BY <2>1, <2>3 DEF Inv, TypeOK
  <2>5. rating' \in [Triples -> {0} \cup Scores] /\ penalties' \in [Users -> Nat]
    BY <2>1, <2>3 DEF Inv, TypeOK
  <2>6. Kept
    BY <1>0, <2>4, <2>5 DEF Kept, Inv, TypeOK, BookedInv
  <2>. QED  BY <2>2, <2>6, SlotKeepsInv
<1>2. CASE rating[x] # 0
  <2>1. Done(w) /\ UNCHANGED <<rating, penalties>>
    BY <1>2, InsertIs
  <2>. QED  BY <1>0, <2>1, IdleType, QuietStep DEF Done, Inv, TypeOK
<1>. QED  BY <1>1, <1>2

LEMMA AverageRatingsIs ==
    ASSUME Inv, NEW w \in Workers, AverageRatings(w)
    PROVE  \E p \in Proc :
              /\ Become(w, p) /\ Shape(p, rating)
              /\ p.at = "save" /\ p.op = "createRating" /\ p.u = proc[w].u
              /\ p.copy = Rated(proc[w].u) /\ Received(proc[w].u) # {}
<1> DEFINE x == <<proc[w].f, proc[w].u, proc[w].r>>
           u == proc[w].u
           copy == Rated(u)
           p == [proc[w] EXCEPT !.at = "save", !.copy = copy]
<1>0. x \in Triples /\ proc[w] \in Proc
  BY UserOf
<1>1. proc[w].op = "createRating" /\ rating[x] # 0
  BY DEF Inv, Shape, AverageRatings
<1>2. x \in Received(u)
  BY <1>0, <1>1 DEF Received
<1>3. Average(u) \in 100..500 /\ Cardinality(Received(u)) \in 0..Cardinality(Triples)
  BY <1>2, AverageIs, ReceivedIs DEF Inv
<1>4. copy \in Profile /\ copy.ratingPromedio >= 100
  <2>1. Average(u) \in 0..500 /\ (Average(u) < 300) \in BOOLEAN
    BY <1>3
  <2>2. copy.ratingPromedio = Average(u)
    BY DEF Rated
  <2>. QED  BY <1>3, <2>1, <2>2 DEF Rated, Profile
<1>5. Become(w, p)
  BY DEF AverageRatings
<1> HIDE DEF copy
<1>6. p \in Proc /\ p.at = "save" /\ p.op = "createRating" /\ p.u = u /\ p.copy = copy
  BY <1>0, <1>1, <1>4 DEF Proc, Stages
<1> HIDE DEF p
<1>7. Shape(p, rating)
  BY <1>4, <1>6 DEF Shape, Ops
<1>. QED  BY <1>2, <1>5, <1>6, <1>7 DEF copy

LEMMA AverageKeeps ==
    ASSUME Inv, NEW w \in Workers, AverageRatings(w)
    PROVE  Inv'
<1>1. PICK p \in Proc : Become(w, p) /\ Shape(p, rating)
  BY AverageRatingsIs
<1>. QED  BY <1>1, QuietStep DEF AverageRatings, Inv, TypeOK

LEMMA SaveProfileIs ==
    ASSUME Inv, NEW w \in Workers, SaveProfile(w)
    PROVE  \E p \in Proc :
              /\ Become(w, p) /\ Shape(p, rating)
              /\ p.at = "flush" /\ p.op = proc[w].op /\ p.u = proc[w].u /\ p.copy = proc[w].copy
              /\ p.cols = Differing(proc[w].copy, profile[proc[w].u])
<1> DEFINE cols == Differing(proc[w].copy, profile[proc[w].u])
           p == [proc[w] EXCEPT !.at = "flush", !.cols = cols]
<1>0. proc[w] \in Proc
  BY UserOf
<1>1. cols \in SUBSET Columns
  BY UserOf, RowOperators
<1>2. Become(w, p)
  BY DEF SaveProfile
<1> HIDE DEF cols
<1>3. /\ p \in Proc /\ p.at = "flush" /\ p.op = proc[w].op /\ p.u = proc[w].u
      /\ p.copy = proc[w].copy /\ p.cols = cols
  BY <1>0, <1>1, NewProfileType DEF Proc, Stages
<1> HIDE DEF p
<1>4. /\ proc[w].op \in Ops /\ proc[w].copy.ratingPromedio >= 100
      /\ proc[w].op = "cancelRoute" => proc[w].u = Driver
  BY DEF Inv, Shape, SaveProfile
<1>5. Shape(p, rating)
  BY <1>3, <1>4 DEF Shape
<1>. QED  BY <1>2, <1>3, <1>5 DEF cols

LEMMA SaveKeeps ==
    ASSUME Inv, NEW w \in Workers, SaveProfile(w)
    PROVE  Inv'
<1>1. PICK p \in Proc : Become(w, p) /\ Shape(p, rating)
  BY SaveProfileIs
<1>. QED  BY <1>1, QuietStep DEF SaveProfile, Inv, TypeOK

LEMMA FlushIs ==
    ASSUME Inv, NEW w \in Workers, FlushProfile(w)
    PROVE  /\ profile' = [profile EXCEPT ![proc[w].u] = Updated(proc[w].copy, @, proc[w].cols)]
           /\ penalties' = [penalties EXCEPT ![proc[w].u] =
                                @ + (IF proc[w].op = "cancelRoute" THEN 1 ELSE 0)]
           /\ \E p \in Proc :
                /\ Become(w, p) /\ Shape(p, rating)
                /\ IF proc[w].op = "cancelRoute" THEN p.at = "cancel" /\ p.u = Driver ELSE p = Idle
<1> DEFINE p == [Idle EXCEPT !.op = "cancelRoute", !.at = "cancel", !.r = proc[w].r]
<1>1. p \in Proc /\ p.at = "cancel" /\ p.u = Driver
  BY IdleType, UserOf DEF Proc, Ops, Stages
<1>2. proc[w].op = "cancelRoute" => Become(w, p)
  BY DEF FlushProfile
<1> HIDE DEF p
<1>3. proc[w].op # "cancelRoute" => Become(w, Idle)
  BY DEF FlushProfile, Done
<1>4. Shape(p, rating)
  BY <1>1 DEF Shape
<1>5. /\ profile' = [profile EXCEPT ![proc[w].u] = Updated(proc[w].copy, @, proc[w].cols)]
      /\ penalties' = [penalties EXCEPT ![proc[w].u] =
                            @ + (IF proc[w].op = "cancelRoute" THEN 1 ELSE 0)]
  BY DEF FlushProfile
<1>6. CASE proc[w].op = "cancelRoute"
  BY <1>1, <1>2, <1>4, <1>5, <1>6
<1>7. CASE proc[w].op # "cancelRoute"
  BY <1>3, <1>5, <1>7, IdleType
<1>. QED  BY <1>6, <1>7

LEMMA FlushKeeps ==
    ASSUME Inv, NEW w \in Workers, FlushProfile(w)
    PROVE  Inv'
<1> DEFINE u == proc[w].u
           row == Updated(proc[w].copy, profile[u], proc[w].cols)
           one == IF proc[w].op = "cancelRoute" THEN 1 ELSE 0
<1>1. PICK p \in Proc : Become(w, p) /\ Shape(p, rating)
  BY FlushIs
<1>2. profile' = [profile EXCEPT ![u] = row] /\ penalties' = [penalties EXCEPT ![u] = @ + one]
  BY FlushIs
<1>3. UNCHANGED <<now, route, booking, rating, disturbed>>
  BY DEF FlushProfile
<1>4. /\ proc[w].copy.ratingPromedio >= 100 /\ proc[w].copy \in Profile /\ u \in Users
      /\ profile[u].ratingPromedio >= 100 /\ profile[u] \in Profile
  BY UserOf DEF Inv, Shape, FlushProfile
<1>5. row \in Profile /\ row.ratingPromedio >= 100
  BY <1>4, RowOperators
<1>6. one \in Nat
  OBVIOUS
<1> HIDE DEF row, u, one
<1>7. profile' \in [Users -> Profile] /\ \A v \in Users : profile'[v].ratingPromedio >= 100
  BY <1>2, <1>4, <1>5 DEF Inv, TypeOK
<1>8. penalties' \in [Users -> Nat]
  BY <1>2, <1>4, <1>6 DEF Inv, TypeOK
<1>9. Kept
  BY <1>3, <1>7, <1>8 DEF Kept, Inv, TypeOK, BookedInv
<1>. QED  BY <1>1, <1>3, <1>9, SlotKeepsInv

LEMMA SaveCancelledKeeps ==
    ASSUME Inv, NEW w \in Workers, SaveCancelled(w)
    PROVE  Inv'
<1> DEFINE r == proc[w].r
           closed == [estado |-> "CANCELADA", updatedAt |-> now]
           left == [p \in Passengers |-> IF booking[r][p] = "CONFIRMADA" THEN "CANCELADA" ELSE booking[r][p]]
<1>1. /\ route' = [route EXCEPT ![r] = closed]
      /\ booking' = [booking EXCEPT ![r] = left]
      /\ Become(w, Idle) /\ UNCHANGED <<now, profile, rating, penalties, disturbed>>
  BY DEF SaveCancelled, Done
<1>2. /\ route \in [Routes -> [estado : EstadoRuta, updatedAt : 0..MaxTime]]
      /\ booking \in [Routes -> [Passengers -> EstadoReserva]] /\ now \in 0..MaxTime
      /\ r \in Routes /\ BookedInv
  BY UserOf DEF Inv, TypeOK
<1>3. closed \in [estado : EstadoRuta, updatedAt : 0..MaxTime] /\ closed.estado # "none"
  BY <1>2 DEF EstadoRuta
<1>4. left \in [Passengers -> EstadoReserva]
  BY <1>2 DEF EstadoReserva
<1> HIDE DEF closed, left, r
<1>5. /\ route' \in [Routes -> [estado : EstadoRuta, updatedAt : 0..MaxTime]]
      /\ booking' \in [Routes -> [Passengers -> EstadoReserva]]
  BY <1>1, <1>2, <1>3, <1>4
<1>6. BookedInv'
  BY <1>1, <1>2, <1>3 DEF BookedInv
<1>7. Kept
  BY <1>1, <1>5, <1>6 DEF Kept, Inv, TypeOK
<1>. QED  BY <1>1, <1>7, IdleType, SlotKeepsInv

-----------------------------------------------------------------------------

LEMMA InitInv == Init => Inv
<1> SUFFICES ASSUME Init
             PROVE  Inv
  OBVIOUS
<1>1. NewProfile \in Profile /\ NewProfile.ratingPromedio = 500
  BY NewProfileType DEF NewProfile
<1>2. TypeOK
  BY <1>1, IdleType, RatingAssumption DEF Init, TypeOK, EstadoRuta, EstadoReserva
<1>3. \A w \in Workers : Shape(proc[w], rating)
  BY IdleType DEF Init
<1>4. BookedInv
  BY DEF Init, BookedInv
<1>. QED  BY <1>2, <1>3, <1>4 DEF Inv

LEMMA NextKeepsInv == Inv /\ [Next]_vars => Inv'
<1> SUFFICES ASSUME Inv, [Next]_vars
             PROVE  Inv'
  OBVIOUS
<1>1. ASSUME NEW r \in Routes,
             \/ CreateRoute(r) \/ FinalizeRoute(r)
             \/ \E p \in Passengers :
                  \/ CreateBooking(p, r)
                  \/ \E estado \in Settled \cup {"CANCELADA"} : SettleBooking(p, r, estado)
      PROVE  Inv'
  BY <1>1, RoutesKeep
<1>2. ASSUME NEW w \in Workers,
             \/ \E r \in Routes :
                  \/ \E late \in BOOLEAN : CancelRoute(w, r, late)
                  \/ \E f, t \in Users, score \in Scores : CreateRating(w, f, t, r, score)
             \/ \E u \in Users : UpdateProfile(w, u)
      PROVE  Inv'
  BY <1>2, CallsKeep
<1>3. ASSUME NEW w \in Workers,
             \/ SaveCancelled(w) \/ InsertRating(w) \/ AverageRatings(w)
             \/ SaveProfile(w) \/ FlushProfile(w) \/ Fail(w)
      PROVE  Inv'
  BY <1>3, SaveCancelledKeeps, InsertKeeps, AverageKeeps, SaveKeeps, FlushKeeps, FailKeeps
<1>4. CASE Tick
  BY <1>4, TickKeeps
<1>5. CASE UNCHANGED vars
  BY <1>5, OutsideKeeps DEF vars, Inv, TypeOK, BookedInv
<1>. QED  BY <1>1, <1>2, <1>3, <1>4, <1>5 DEF Next

(* No handler acts on a step that was not made: an average is only taken when  *)
(* there is a rating, and a profile never falls below one star.                *)
THEOREM RatingsInvariant == Spec => []Inv
<1>1. Init => Inv
  BY InitInv
<1>2. Inv /\ [Next]_vars => Inv'
  BY NextKeepsInv
<1>. QED  BY <1>1, <1>2, PTL DEF Spec

(* TypeOK: the columns keep their domains, whatever runs beside what.          *)
THEOREM TypeCorrect == Spec => []TypeOK
<1>1. Inv => TypeOK
  BY DEF Inv
<1>. QED  BY <1>1, RatingsInvariant, PTL

-----------------------------------------------------------------------------
(* Offers and acceptance. *)

LEMMA AcceptedAre ==
    ASSUME NEW u \in Users, NEW t \in Users, NEW r \in Routes
    PROVE  MayRate(u, t, r) <=>
              /\ Open(r) /\ rating[<<u, t, r>>] = 0
              /\ IF u = Driver THEN Travelled(t, r) ELSE Travelled(u, r) /\ t = Driver
<1>1. u = Driver => ~Travelled(u, r)
  BY RatingAssumption DEF Travelled
<1>. QED  BY <1>1 DEF MayRate, Open

(* OfferedRatingsAreAccepted: canRateRoute and getDriverRatingCandidates offer *)
(* just the ratings that createRating takes.                                   *)
THEOREM OfferedAreAccepted == Spec => []OfferedRatingsAreAccepted
<1>1. OfferedRatingsAreAccepted
  <2>1. ASSUME NEW r \in Routes, NEW u \in Users
        PROVE  CanRateRoute(u, r) = {t \in Users : MayRate(u, t, r)}
    <3> DEFINE targets == IF u = Driver THEN {p \in Passengers : Travelled(p, r)} ELSE {Driver}
    <3>1. targets \subseteq Users
      BY DEF Users
    <3>2. \A t \in Users : t \in targets <=> IF u = Driver THEN Travelled(t, r) ELSE t = Driver
      BY DEF Travelled
    <3>3. CanRateRoute(u, r) = IF Open(r) /\ (u = Driver \/ Travelled(u, r))
                               THEN targets \ RatedBy(u, r) ELSE {}
      BY DEF CanRateRoute
    <3> HIDE DEF targets
    <3>4. \A t \in Users : t \in RatedBy(u, r) <=> rating[<<u, t, r>>] # 0
      BY DEF RatedBy
    <3>5. ASSUME NEW t \in Users
          PROVE  t \in CanRateRoute(u, r) <=> MayRate(u, t, r)
      BY <3>2, <3>3, <3>4, AcceptedAre
    <3>6. CanRateRoute(u, r) \subseteq Users
      BY <3>1, <3>3
    <3>. QED  BY <3>5, <3>6
  <2>2. ASSUME NEW r \in Routes
        PROVE  RatingCandidates(r) = {t \in Users : MayRate(Driver, t, r)}
    <3>1. Driver \in Users
      BY DEF Users
    <3>2. RatingCandidates(r) \subseteq Users
      BY DEF RatingCandidates, Users
    <3>3. ASSUME NEW t \in Users
          PROVE  t \in RatingCandidates(r) <=> MayRate(Driver, t, r)
      <4>1. t \in RatingCandidates(r) <=> Open(r) /\ Travelled(t, r) /\ rating[<<Driver, t, r>>] = 0
        BY DEF RatingCandidates, RatedBy, Travelled
      <4>. QED  BY <3>1, <4>1, AcceptedAre
    <3>. QED  BY <3>2, <3>3
  <2>. QED  BY <2>1, <2>2 DEF OfferedRatingsAreAccepted
<1>. QED  BY <1>1, PTL

-----------------------------------------------------------------------------
(* There is no way back. *)

(* u is in route r; route r is neither under way nor open for ratings.          *)
Mine(u, r, b) == u = Driver \/ b[r][u] \in {"CONFIRMADA"} \cup Settled
Over(row, time) == row.estado # "ACTIVA"
                   /\ ~(row.estado = "FINALIZADA" /\ ~(time - row.updatedAt > RatingWindow))

LEMMA OutIs ==
    ASSUME NEW u
    PROVE  OutOfRatings(u) <=> ~Written(u) /\ \A r \in Routes : Mine(u, r, booking) => Over(route[r], now)
BY DEF OutOfRatings, Mine, Over, Open, RatingWindowExpired

LEMMA BlockedStay ==
    ASSUME Inv, [Next]_vars, NEW u \in Users,
           LowRated(profile[u]), OutOfRatings(u), u \notin disturbed'
    PROVE  LowRated(profile'[u]) /\ (Written(u)' \/ OutOfRatings(u)')
<1> DEFINE Goal == /\ profile'[u] = profile[u]
                   /\ \A r \in Routes : Mine(u, r, booking') => Over(route'[r], now')
<1>0. \A w \in Workers : proc[w].at # "idle" => proc[w].u # u
  BY DEF OutOfRatings, Written
<1>1. \A r \in Routes : Mine(u, r, booking) => Over(route[r], now)
  BY OutIs
<1>2. /\ route \in [Routes -> [estado : EstadoRuta, updatedAt : 0..MaxTime]]
      /\ booking \in [Routes -> [Passengers -> EstadoReserva]] /\ now \in 0..MaxTime
      /\ profile \in [Users -> Profile] /\ BookedInv
  BY DEF Inv, TypeOK
<1>3. u # Driver => u \in Passengers
  BY DEF Users
<1>4. SUFFICES Goal
  <2>1. ASSUME Goal
        PROVE  Written(u)' \/ OutOfRatings(u)'
    <3>1. OutOfRatings(u)' <=> ~Written(u)' /\ \A r \in Routes : Mine(u, r, booking') => Over(route'[r], now')
      BY DEF OutOfRatings, Mine, Over, Open, RatingWindowExpired
    <3>. QED  BY <2>1, <3>1
  <2>. QED  BY <2>1
<1>5. ASSUME UNCHANGED <<now, route, booking>>, profile'[u] = profile[u]
      PROVE  Goal
  BY <1>1, <1>5
<1>6. ASSUME NEW r \in Routes, CreateRoute(r)
      PROVE  Goal
  <2>1. u # Driver /\ booking[r][u] = "none"
    BY <1>2, <1>3, <1>6 DEF CreateRoute, BookedInv
  <2>2. ~Mine(u, r, booking')
    BY <1>6, <2>1 DEF CreateRoute, Mine, Settled
  <2>3. \A x \in Routes \ {r} : route'[x] = route[x]
    BY <1>2, <1>6 DEF CreateRoute
  <2>. QED  BY <1>1, <1>6, <2>2, <2>3 DEF CreateRoute
<1>7. ASSUME NEW r \in Routes, FinalizeRoute(r)
      PROVE  Goal
  <2>1. ~Mine(u, r, booking)
    BY <1>1, <1>7 DEF FinalizeRoute, Over
  <2>2. \A x \in Routes \ {r} : route'[x] = route[x]
    BY <1>2, <1>7 DEF FinalizeRoute
  <2>. QED  BY <1>1, <1>7, <2>1, <2>2 DEF FinalizeRoute
<1>8. ASSUME NEW p \in Passengers, NEW r \in Routes, NEW estado, p # u \/ Mine(u, r, booking),
             booking' = [booking EXCEPT ![r][p] = estado],
             UNCHANGED <<now, profile, route>>
      PROVE  Goal
  <2>1. CASE p = u
    <3>1. ASSUME NEW x \in Routes, Mine(u, x, booking')
          PROVE  Over(route[x], now)
      <4>1. CASE x = r
        BY <1>1, <1>8, <2>1, <4>1
      <4>2. CASE x # r
        <5>1. booking'[x] = booking[x]
          BY <1>2, <1>8, <4>2
        <5>. QED  BY <1>1, <3>1, <5>1 DEF Mine
      <4>. QED  BY <4>1, <4>2
    <3>. QED  BY <1>8, <3>1
  <2>2. CASE p # u
    <3>1. \A x \in Routes : u # Driver => booking'[x][u] = booking[x][u]
      BY <1>2, <1>3, <1>8, <2>2
    <3>. QED  BY <1>1, <1>8, <3>1 DEF Mine
  <2>. QED  BY <2>1, <2>2
<1>9. ASSUME NEW p \in Passengers, NEW r \in Routes, CreateBooking(p, r)
      PROVE  Goal
  <2>1. p # u
    BY <1>9 DEF CreateBooking
  <2>. QED  BY <1>8, <1>9, <2>1 DEF CreateBooking
<1>10. ASSUME NEW p \in Passengers, NEW r \in Routes, NEW estado, SettleBooking(p, r, estado)
       PROVE  Goal
  <2>1. p = u => Mine(u, r, booking)
    BY <1>10 DEF SettleBooking, Mine
  <2>. QED  BY <1>8, <1>10, <2>1 DEF SettleBooking
<1>11. ASSUME NEW w \in Workers, SaveCancelled(w)
       PROVE  Goal
  <2> DEFINE r == proc[w].r
  <2>1. r \in Routes /\ \A x \in Routes \ {r} : route'[x] = route[x] /\ booking'[x] = booking[x]
    BY <1>2, <1>11, UserOf DEF SaveCancelled
  <2>2. route'[r].estado = "CANCELADA"
    BY <1>2, <1>11, <2>1 DEF SaveCancelled
  <2>3. UNCHANGED <<now, profile>>
    BY <1>11 DEF SaveCancelled
  <2> HIDE DEF r
  <2>4. Over(route'[r], now')
    BY <2>2 DEF Over
  <2>. QED  BY <1>1, <2>1, <2>3, <2>4 DEF Mine
<1>12. ASSUME NEW w \in Workers, FlushProfile(w)
       PROVE  Goal
  <2>1. proc[w].u # u
    BY <1>0, <1>12 DEF FlushProfile
  <2>2. profile'[u] = profile[u]
    BY <1>2, <1>12, <2>1, FlushIs
  <2>. QED  BY <1>5, <1>12, <2>2 DEF FlushProfile
<1>13. CASE Tick
  <2>1. now \in Nat /\ now' = now + 1 /\ RatingWindow \in Nat /\ UNCHANGED <<profile, route, booking>>
    BY <1>2, <1>13, RatingAssumption DEF Tick
  <2>2. ASSUME NEW r \in Routes, Over(route[r], now)
        PROVE  Over(route'[r], now')
    <3>1. PICK at \in Nat : at = route[r].updatedAt
      BY <1>2
    <3>2. PICK time \in Nat : time = now
      BY <2>1
    <3>3. time - at > RatingWindow => time + 1 - at > RatingWindow
      BY <2>1, <3>2
    <3>. QED  BY <2>1, <2>2, <3>1, <3>2, <3>3 DEF Over
  <2>. QED  BY <1>1, <2>1, <2>2
<1>14. ASSUME NEW w \in Workers,
              \/ \E r \in Routes :
                   \/ \E late \in BOOLEAN : CancelRoute(w, r, late)
                   \/ \E f, t \in Users, score \in Scores : CreateRating(w, f, t, r, score)
              \/ \E v \in Users : UpdateProfile(w, v)
              \/ InsertRating(w) \/ AverageRatings(w) \/ SaveProfile(w) \/ Fail(w)
       PROVE  Goal
  BY <1>5, <1>14 DEF CancelRoute, CreateRating, UpdateProfile, InsertRating, AverageRatings,
     SaveProfile, Fail
<1>15. CASE UNCHANGED vars
  BY <1>5, <1>15 DEF vars
<1> HIDE DEF Goal
<1>. QED
  BY <1>6, <1>7, <1>9, <1>10, <1>11, <1>12, <1>13, <1>14, <1>15 DEF Next

(* BlockIsForGood: who is blocked, and has no route left that could be rated,  *)
(* stays so, since only a rating lifts a block.                                *)
THEOREM BlockedForGood == Spec => BlockIsForGood
<1>1. Inv /\ [Next]_vars =>
        [\A u \in Users :
            LowRated(profile[u]) /\ OutOfRatings(u) /\ u \notin disturbed' =>
                LowRated(profile'[u]) /\ (Written(u)' \/ OutOfRatings(u)')]_vars
  BY BlockedStay
<1>. QED  BY <1>1, RatingsInvariant, PTL DEF Spec, BlockIsForGood

-----------------------------------------------------------------------------
(* What a profile should say. *)

SumOf(S, f) == (CHOOSE g : Sums(g, S, f))[S]

LEMMA SumsSame ==
    ASSUME NEW S, NEW f1, NEW f2, \A x \in S : f1[x] = f2[x]
    PROVE  SumOf(S, f1) = SumOf(S, f2)
<1>1. ASSUME NEW g
      PROVE  Sums(g, S, f1) <=> Sums(g, S, f2)
  <2>1. \A s \in SUBSET S : s # {} => f1[CHOOSE x \in s : TRUE] = f2[CHOOSE x \in s : TRUE]
    OBVIOUS
  <2> DEFINE body(f) == [s \in SUBSET S |->
            IF s = {} THEN 0
            ELSE LET x == CHOOSE x \in s : TRUE IN f[x] + g[s \ {x}]]
  <2>2. body(f1) = body(f2)
    BY <2>1
  <2>. QED  BY <2>2 DEF Sums
<1>2. (CHOOSE g : Sums(g, S, f1)) = (CHOOSE g : Sums(g, S, f2))
  BY <1>1
<1>. QED  BY <1>2 DEF SumOf

LEMMA ReceivedStay ==
    ASSUME NEW u, \A x \in Triples : x[2] = u => rating'[x] = rating[x]
    PROVE  Received(u)' = Received(u) /\ Average(u)' = Average(u) /\ Fair(u)' = Fair(u)
<1>1. Received(u)' = Received(u)
  BY DEF Received
<1>2. \A x \in Received(u) : rating'[x] = rating[x]
  BY DEF Received
<1>3. SumOf(Received(u), rating') = SumOf(Received(u), rating)
  BY <1>2, SumsSame
<1>4. Average(u) = (100 * SumOf(Received(u), rating) + Cardinality(Received(u)) \div 2)
                        \div Cardinality(Received(u))
  BY DEF Average, MapThenSumSet, MapThenFoldSet, SumOf, Sums
<1>5. Average(u)' = (100 * SumOf(Received(u)', rating') + Cardinality(Received(u)') \div 2)
                        \div Cardinality(Received(u)')
  BY DEF Average, MapThenSumSet, MapThenFoldSet, SumOf, Sums
<1>6. Average(u)' = Average(u)
  BY <1>1, <1>3, <1>4, <1>5
<1>. QED  BY <1>1, <1>6 DEF Fair

LEMMA DueStays ==
    ASSUME NEW u, \A x \in Triples : x[2] = u => rating'[x] = rating[x],
           penalties'[u] = penalties[u]
    PROVE  Due(u)' = Due(u)
<1>1. Received(u)' = Received(u) /\ Fair(u)' = Fair(u)
  BY ReceivedStay
<1>2. DueAverage(u)' = DueAverage(u)
  BY <1>1 DEF DueAverage
<1>. QED  BY <1>1, <1>2 DEF Due

LEMMA FairIs ==
    ASSUME TypeOK, NEW u
    PROVE  Fair(u) \in 100..500
BY AverageIs DEF Fair

LEMMA Lowered ==
    ASSUME NEW fair \in 100..500, NEW k \in Nat
    PROVE  /\ Max({fair - 100 * k, 100}) = IF fair - 100 * k >= 100 THEN fair - 100 * k ELSE 100
           /\ Max({fair - 100 * k, 100}) \in 100..500
<1>1. fair - 100 * k \in Int /\ fair - 100 * k <= 500
  OBVIOUS
<1>2. Max({fair - 100 * k, 100}) = IF fair - 100 * k >= 100 THEN fair - 100 * k ELSE 100
  BY <1>1, MaxOfTwo
<1>. QED  BY <1>1, <1>2

LEMMA DueType ==
    ASSUME TypeOK, NEW u \in Users
    PROVE  Due(u) \in Profile /\ DueAverage(u) \in 100..500
<1>1. penalties[u] \in Nat /\ Fair(u) \in 100..500
  BY FairIs DEF TypeOK
<1>2. DueAverage(u) \in 100..500
  <2>1. Max({Fair(u) - 100 * penalties[u], 100}) \in 100..500
    BY <1>1, Lowered, ZenonT(60)
  <2>. QED  BY <1>1, <2>1 DEF DueAverage
<1>3. Cardinality(Received(u)) \in 0..Cardinality(Triples)
  BY ReceivedIs
<1>4. DueAverage(u) \in 0..500 /\ (DueAverage(u) < 300) \in BOOLEAN
  BY <1>2
<1>. QED  BY <1>2, <1>3, <1>4 DEF Due, Profile

(* One late cancellation more is one star less, down to one star. *)
LEMMA OncePenalized ==
    ASSUME Inv, NEW u \in Users, UNCHANGED rating, penalties'[u] = penalties[u] + 1
    PROVE  Due(u)' = Penalized(Due(u))
<1>1. penalties[u] \in Nat /\ Fair(u) \in 100..500
  BY FairIs DEF Inv, TypeOK
<1>2. Received(u)' = Received(u) /\ Fair(u)' = Fair(u)
  BY ReceivedStay
<1>3. Due(u) \in Profile /\ DueAverage(u) \in 100..500 /\ Due(u).ratingPromedio = DueAverage(u)
      /\ Due(u).totalCalificaciones = Cardinality(Received(u))
  BY DueType DEF Inv, Due
<1> DEFINE k == penalties[u]
           fair == Fair(u)
           due == DueAverage(u)
           next == DueAverage(u)'
<1>4. next = Max({fair - 100 * (k + 1), 100})
  <2>1. penalties'[u] # 0
    BY <1>1
  <2>. QED  BY <1>2, <2>1 DEF DueAverage
<1>5. due = IF k = 0 THEN fair ELSE Max({fair - 100 * k, 100})
  BY DEF DueAverage
<1> HIDE DEF k, fair, due, next
<1>6. k \in Nat /\ k + 1 \in Nat /\ fair \in 100..500
  BY <1>1 DEF k, fair
<1>7. next = IF fair - 100 * (k + 1) >= 100 THEN fair - 100 * (k + 1) ELSE 100
  BY <1>4, <1>6, Lowered, ZenonT(60)
<1>8. due = IF fair - 100 * k >= 100 THEN fair - 100 * k ELSE 100
  <2>1. k # 0 => due = IF fair - 100 * k >= 100 THEN fair - 100 * k ELSE 100
    BY <1>5, <1>6, Lowered, ZenonT(60)
  <2>2. k = 0 => due = fair /\ fair - 100 * k = fair
    BY <1>5, <1>6
  <2>. QED  BY <1>6, <2>1, <2>2
<1>9. next = IF due >= 200 THEN due - 100 ELSE 100
  BY <1>6, <1>7, <1>8
<1>10. /\ Penalized(Due(u)).ratingPromedio = next
       /\ Penalized(Due(u)).totalCalificaciones = Cardinality(Received(u))
       /\ Penalized(Due(u)).isBloqueadoPorRating = (next < 300)
       /\ Penalized(Due(u)) \in Profile
  BY <1>3, <1>9, PenalizedIs DEF due
<1>11. Penalized(Due(u)) = [ratingPromedio |-> next, totalCalificaciones |-> Cardinality(Received(u)),
                            isBloqueadoPorRating |-> next < 300]
  BY <1>10 DEF Profile
<1>12. Due(u)' = [ratingPromedio |-> next, totalCalificaciones |-> Cardinality(Received(u)),
                  isBloqueadoPorRating |-> next < 300]
  BY <1>2 DEF Due, next
<1>. QED  BY <1>11, <1>12

-----------------------------------------------------------------------------
(* The profile of a user follows what it should say, step by step. *)

LEMMA NothingWritten ==
    ASSUME Inv, NEW u \in Users, Follows(u), UNCHANGED <<profile, rating, proc, penalties>>
    PROVE  Follows(u)'
<1>1. Due(u)' = Due(u)
  BY DueStays
<1>2. \A w : Busy(w, u)' <=> Busy(w, u)
  BY DEF Busy
<1>3. Written(u)' <=> Written(u)
  BY DEF Written
<1>. QED  BY <1>1, <1>2, <1>3 DEF Follows

(* Somebody else's handler. *)
LEMMA OthersStay ==
    ASSUME Inv, NEW u \in Users, Follows(u), NEW w \in Workers, NEW p \in Proc, Become(w, p),
           ~Busy(w, u), ~(p.at # "idle" /\ p.u = u),
           profile'[u] = profile[u], penalties'[u] = penalties[u],
           \A x \in Triples : x[2] = u => rating'[x] = rating[x]
    PROVE  Follows(u)'
<1>1. Due(u)' = Due(u)
  BY DueStays
<1>2. proc' = [proc EXCEPT ![w] = p] /\ proc \in [Workers -> Proc]
  BY DEF Become, Inv, TypeOK
<1>3. \A v \in Workers : (v # w => proc'[v] = proc[v]) /\ proc'[w] = p
  BY <1>2
<1>4. \A v \in Workers : (Busy(v, u)' <=> Busy(v, u)) /\ (Busy(v, u) => proc'[v] = proc[v])
  BY <1>3 DEF Busy
<1>5. Written(u)' <=> Written(u)
  BY <1>4 DEF Written, Busy
<1>. QED  BY <1>1, <1>4, <1>5 DEF Follows

(* A step of the one handler of u, the first and the last one included. *)
LEMMA OwnStep ==
    ASSUME Inv, NEW u \in Users, NEW w \in Workers, NEW p \in Proc, Become(w, p),
           \A v \in Workers : Busy(v, u) => v = w,
           p.at # "idle" /\ p.u = u => Tracks(p, profile'[u], Due(u)', penalties'[u]),
           ~(p.at # "idle" /\ p.u = u) => profile'[u] = Due(u)'
    PROVE  Follows(u)'
<1>1. proc' = [proc EXCEPT ![w] = p] /\ proc \in [Workers -> Proc]
  BY DEF Become, Inv, TypeOK
<1>2. \A v \in Workers : (v # w => proc'[v] = proc[v]) /\ proc'[w] = p
  BY <1>1
<1>3. \A v \in Workers : Busy(v, u)' => v = w /\ p.at # "idle" /\ p.u = u
  BY <1>2 DEF Busy
<1>4. ~Written(u)' => ~(p.at # "idle" /\ p.u = u)
  BY <1>2 DEF Written
<1>5. \A v \in Workers : Busy(v, u)' => Tracks(proc'[v], profile'[u], Due(u)', penalties'[u])
  BY <1>2, <1>3
<1>. QED  BY <1>3, <1>4, <1>5 DEF Follows

LEMMA CallFollows ==
    ASSUME Inv, NEW u \in Users, Follows(u), NEW w \in Workers, NEW p \in Proc, NEW op, NEW t \in Users,
           Called(w, op, t), Become(w, p), p.u = t, u \notin disturbed',
           UNCHANGED <<profile, rating, penalties>>,
           t = u /\ profile[u] = Due(u) => Tracks(p, profile[u], Due(u), penalties[u])
    PROVE  Follows(u)'
<1>1. ~Busy(w, u)
  BY DEF Called, Busy
<1>2. CASE t # u
  BY <1>1, <1>2, OthersStay
<1>3. CASE t = u
  <2>1. \A v \in Workers : ~Busy(v, u)
    BY <1>3 DEF Called, Busy
  <2>2. profile[u] = Due(u)
    BY <2>1 DEF Follows, Written, Busy
  <2>3. Due(u)' = Due(u)
    BY DueStays
  <2>. QED  BY <1>3, <2>1, <2>2, <2>3, OwnStep
<1>. QED  BY <1>2, <1>3

LEMMA CallsFollow ==
    ASSUME Inv, NEW u \in Users, Follows(u), u \notin disturbed', NEW w \in Workers,
           \/ \E r \in Routes :
                \/ \E late \in BOOLEAN : CancelRoute(w, r, late)
                \/ \E f, t \in Users, score \in Scores : CreateRating(w, f, t, r, score)
           \/ \E t \in Users : UpdateProfile(w, t)
    PROVE  Follows(u)'
<1>1. ASSUME NEW r \in Routes, NEW late \in BOOLEAN, CancelRoute(w, r, late)
      PROVE  Follows(u)'
  <2>1. PICK p \in Proc : /\ Become(w, p) /\ p.op = "cancelRoute" /\ p.u = Driver
                          /\ p.copy = Penalized(profile[Driver]) /\ p.at \in {"save", "cancel"}
    BY <1>1, CancelRouteIs
  <2>2. Driver = u /\ profile[u] = Due(u) => Tracks(p, profile[u], Due(u), penalties[u])
    BY <2>1 DEF Tracks
  <2>3. Driver \in Users /\ Called(w, "cancelRoute", Driver) /\ UNCHANGED <<profile, rating, penalties>>
    BY <1>1 DEF CancelRoute, Users
  <2>. QED  BY <2>1, <2>2, <2>3, CallFollows
<1>2. ASSUME NEW r \in Routes, NEW f \in Users, NEW t \in Users, NEW score \in Scores,
             CreateRating(w, f, t, r, score)
      PROVE  Follows(u)'
  <2>1. PICK p \in Proc : Become(w, p) /\ p.at = "insert" /\ p.op = "createRating" /\ p.u = t
    BY <1>2, CreateRatingIs
  <2>2. t = u /\ profile[u] = Due(u) => Tracks(p, profile[u], Due(u), penalties[u])
    BY <2>1 DEF Tracks
  <2>3. Called(w, "createRating", t) /\ UNCHANGED <<profile, rating, penalties>>
    BY <1>2 DEF CreateRating
  <2>. QED  BY <2>1, <2>2, <2>3, CallFollows
<1>3. ASSUME NEW t \in Users, UpdateProfile(w, t)
      PROVE  Follows(u)'
  <2>1. PICK p \in Proc : /\ Become(w, p) /\ p.at = "save" /\ p.op = "updateProfile" /\ p.u = t
                          /\ p.copy = profile[t]
    BY <1>3, UpdateProfileIs
  <2>2. t = u /\ profile[u] = Due(u) => Tracks(p, profile[u], Due(u), penalties[u])
    BY <2>1 DEF Tracks
  <2>3. Called(w, "updateProfile", t) /\ UNCHANGED <<profile, rating, penalties>>
    BY <1>3 DEF UpdateProfile
  <2>. QED  BY <2>1, <2>2, <2>3, CallFollows
<1>. QED  BY <1>1, <1>2, <1>3

(* What the one handler of u knows of it. *)
LEMMA OwnTracks ==
    ASSUME Inv, NEW u \in Users, Follows(u), NEW w \in Workers, proc[w].at # "idle", proc[w].u = u
    PROVE  /\ \A v \in Workers : Busy(v, u) => v = w
           /\ Tracks(proc[w], profile[u], Due(u), penalties[u])
BY DEF Follows, Busy

LEMMA SaveCancelledFollows ==
    ASSUME Inv, NEW u \in Users, Follows(u), NEW w \in Workers, SaveCancelled(w)
    PROVE  Follows(u)'
<1>1. Become(w, Idle) /\ UNCHANGED <<profile, rating, penalties>> /\ proc[w].at = "cancel"
  BY DEF SaveCancelled, Done
<1>2. CASE proc[w].u # u
  BY <1>1, <1>2, IdleType, OthersStay DEF Busy
<1>3. CASE proc[w].u = u
  <2>1. profile[u] = Due(u) /\ \A v \in Workers : Busy(v, u) => v = w
    BY <1>1, <1>3, OwnTracks DEF Tracks
  <2>2. Due(u)' = Due(u)
    BY <1>1, DueStays
  <2>. QED  BY <1>1, <2>1, <2>2, IdleType, OwnStep
<1>. QED  BY <1>2, <1>3

LEMMA InsertFollows ==
    ASSUME Inv, NEW u \in Users, Follows(u), NEW w \in Workers, InsertRating(w)
    PROVE  Follows(u)'
<1> DEFINE x == <<proc[w].f, proc[w].u, proc[w].r>>
<1>1. UNCHANGED profile /\ proc[w].at = "insert" /\ x \in Triples /\ x[2] = proc[w].u
  BY UserOf DEF InsertRating
<1>2. CASE rating[x] = 0
  <2>1. PICK p \in Proc : Become(w, p) /\ p.at = "average" /\ p.op = "createRating" /\ p.u = proc[w].u
    BY <1>2, InsertIs
  <2>2. /\ rating' = [rating EXCEPT ![x] = proc[w].score]
        /\ penalties' = [penalties EXCEPT ![proc[w].u] = 0]
    BY <1>2, InsertIs
  <2>3. rating \in [Triples -> {0} \cup Scores] /\ penalties \in [Users -> Nat]
    BY DEF Inv, TypeOK
  <2> HIDE DEF x
  <2>4. CASE proc[w].u # u
    <3>1. penalties'[u] = penalties[u] /\ \A y \in Triples : y[2] = u => rating'[y] = rating[y]
      BY <1>1, <2>2, <2>3, <2>4
    <3>. QED  BY <1>1, <2>1, <2>4, <3>1, OthersStay DEF Busy
  <2>5. CASE proc[w].u = u
    <3>1. penalties'[u] = 0
      BY <2>2, <2>3, <2>5
    <3>2. Tracks(p, profile'[u], Due(u)', penalties'[u])
      BY <2>1, <3>1 DEF Tracks
    <3>3. \A v \in Workers : Busy(v, u) => v = w
      BY <1>1, <2>5, OwnTracks
    <3>. QED  BY <2>1, <2>5, <3>2, <3>3, OwnStep
  <2>. QED  BY <2>4, <2>5
<1>3. CASE rating[x] # 0
  <2>1. Become(w, Idle) /\ UNCHANGED <<rating, penalties>>
    BY <1>3, InsertIs DEF Done
  <2>2. CASE proc[w].u # u
    BY <1>1, <2>1, <2>2, IdleType, OthersStay DEF Busy
  <2>3. CASE proc[w].u = u
    <3>1. profile[u] = Due(u) /\ \A v \in Workers : Busy(v, u) => v = w
      BY <1>1, <2>3, OwnTracks DEF Tracks
    <3>2. Due(u)' = Due(u)
      BY <2>1, DueStays
    <3>. QED  BY <1>1, <2>1, <3>1, <3>2, IdleType, OwnStep
  <2>. QED  BY <2>2, <2>3
<1>. QED  BY <1>2, <1>3

LEMMA AverageFollows ==
    ASSUME Inv, NEW u \in Users, Follows(u), NEW w \in Workers, AverageRatings(w)
    PROVE  Follows(u)'
<1>1. PICK p \in Proc : /\ Become(w, p) /\ p.at = "save" /\ p.op = "createRating" /\ p.u = proc[w].u
                        /\ p.copy = Rated(proc[w].u) /\ Received(proc[w].u) # {}
  BY AverageRatingsIs
<1>2. UNCHANGED <<profile, rating, penalties>> /\ proc[w].at = "average"
  BY DEF AverageRatings
<1>3. CASE proc[w].u # u
  BY <1>1, <1>2, <1>3, OthersStay DEF Busy
<1>4. CASE proc[w].u = u
  <2>1. penalties[u] = 0 /\ \A v \in Workers : Busy(v, u) => v = w
    BY <1>2, <1>4, OwnTracks DEF Tracks
  <2>2. Rated(u) = Due(u)
    BY <1>1, <1>4, <2>1 DEF Rated, Due, DueAverage, Fair
  <2>3. Due(u)' = Due(u)
    BY <1>2, DueStays
  <2>4. Tracks(p, profile'[u], Due(u)', penalties'[u])
    BY <1>1, <1>4, <2>2, <2>3 DEF Tracks
  <2>. QED  BY <1>1, <1>4, <2>1, <2>4, OwnStep
<1>. QED  BY <1>3, <1>4

LEMMA SaveFollows ==
    ASSUME Inv, NEW u \in Users, Follows(u), NEW w \in Workers, SaveProfile(w)
    PROVE  Follows(u)'
<1>1. PICK p \in Proc : /\ Become(w, p) /\ p.at = "flush" /\ p.op = proc[w].op /\ p.u = proc[w].u
                        /\ p.copy = proc[w].copy /\ p.cols = Differing(proc[w].copy, profile[proc[w].u])
  BY SaveProfileIs
<1>2. UNCHANGED <<profile, rating, penalties>> /\ proc[w].at = "save"
  BY DEF SaveProfile
<1>3. CASE proc[w].u # u
  BY <1>1, <1>2, <1>3, OthersStay DEF Busy
<1>4. CASE proc[w].u = u
  <2>1. Tracks(proc[w], profile[u], Due(u), penalties[u]) /\ \A v \in Workers : Busy(v, u) => v = w
    BY <1>2, <1>4, OwnTracks
  <2>2. Due(u)' = Due(u)
    BY <1>2, DueStays
  <2>3. Tracks(p, profile'[u], Due(u)', penalties'[u])
    BY <1>1, <1>2, <1>4, <2>1, <2>2 DEF Tracks
  <2>. QED  BY <1>1, <1>4, <2>1, <2>3, OwnStep
<1>. QED  BY <1>3, <1>4

LEMMA FlushFollows ==
    ASSUME Inv, NEW u \in Users, Follows(u), NEW w \in Workers, FlushProfile(w)
    PROVE  Follows(u)'
<1> DEFINE cancelling == proc[w].op = "cancelRoute"
           row == Updated(proc[w].copy, profile[proc[w].u], proc[w].cols)
<1>1. PICK p \in Proc : /\ Become(w, p)
                        /\ IF cancelling THEN p.at = "cancel" /\ p.u = Driver ELSE p = Idle
  BY FlushIs
<1>2. /\ profile' = [profile EXCEPT ![proc[w].u] = row]
      /\ penalties' = [penalties EXCEPT ![proc[w].u] = @ + (IF cancelling THEN 1 ELSE 0)]
      /\ UNCHANGED rating /\ proc[w].at = "flush"
  BY FlushIs DEF FlushProfile
<1>3. /\ profile \in [Users -> Profile] /\ penalties \in [Users -> Nat]
      /\ proc[w].op \in Ops /\ (cancelling => proc[w].u = Driver)
  BY <1>2 DEF Inv, TypeOK, Shape
<1>4. CASE proc[w].u # u
  <2>1. profile'[u] = profile[u] /\ penalties'[u] = penalties[u]
    BY <1>2, <1>3, <1>4
  <2>2. ~(p.at # "idle" /\ p.u = u)
    BY <1>1, <1>3, <1>4, IdleType
  <2>. QED  BY <1>1, <1>2, <1>4, <2>1, <2>2, OthersStay DEF Busy
<1>5. CASE proc[w].u = u
  <2>1. Tracks(proc[w], profile[u], Due(u), penalties[u]) /\ \A v \in Workers : Busy(v, u) => v = w
    BY <1>2, <1>5, OwnTracks
  <2>2. profile'[u] = proc[w].copy
    <3>1. proc[w].cols = Differing(proc[w].copy, profile[u])
      BY <1>2, <2>1 DEF Tracks
    <3>2. row = proc[w].copy
      <4>1. proc[w].copy \in Profile /\ profile[proc[w].u] \in Profile
        BY UserOf
      <4>2. proc[w].cols = Differing(proc[w].copy, profile[proc[w].u])
        BY <1>5, <3>1
      <4>. QED  BY <4>1, <4>2, RowOperators
    <3> HIDE DEF row
    <3>. QED  BY <1>2, <1>3, <1>5, <3>2
  <2>3. profile'[u] = Due(u)'
    <3>1. CASE cancelling
      <4>1. profile'[u] = Penalized(Due(u))
        BY <1>2, <2>1, <2>2, <3>1 DEF Tracks
      <4>2. penalties'[u] = penalties[u] + 1
        BY <1>2, <1>3, <1>5, <3>1
      <4>. QED  BY <1>2, <4>1, <4>2, OncePenalized
    <3>2. CASE ~cancelling
      <4>1. profile'[u] = Due(u)
        BY <1>2, <1>3, <2>1, <2>2, <3>2 DEF Tracks, Ops
      <4>2. penalties'[u] = penalties[u]
        BY <1>2, <1>3, <1>5, <3>2
      <4>. QED  BY <1>2, <4>1, <4>2, DueStays
    <3>. QED  BY <3>1, <3>2
  <2>4. p.at # "idle" => p.at = "cancel"
    BY <1>1, IdleType
  <2>5. p.at # "idle" => Tracks(p, profile'[u], Due(u)', penalties'[u])
    BY <2>3, <2>4 DEF Tracks
  <2>. QED  BY <1>1, <2>1, <2>3, <2>5, OwnStep
<1>. QED  BY <1>4, <1>5

LEMMA FailFollows ==
    ASSUME Inv, NEW u \in Users, Follows(u), u \notin disturbed', NEW w \in Workers, Fail(w)
    PROVE  Follows(u)'
<1>1. Become(w, Idle) /\ UNCHANGED <<profile, rating, penalties>> /\ proc[w].u # u
  BY DEF Fail, Done
<1>. QED  BY <1>1, IdleType, OthersStay DEF Busy

LEMMA NextFollows == Inv /\ FollowsInv /\ [Next]_vars => FollowsInv'
<1> SUFFICES ASSUME Inv, FollowsInv, [Next]_vars, NEW u \in Users, u \notin disturbed'
             PROVE  Follows(u)'
  BY DEF FollowsInv
<1>1. disturbed \subseteq disturbed'
  BY ZenonT(60) DEF Next, vars, CreateRoute, FinalizeRoute, CreateBooking, SettleBooking, CancelRoute, CreateRating,
     UpdateProfile, Called, SaveCancelled, InsertRating, AverageRatings, SaveProfile, FlushProfile,
     Fail, Tick
<1>2. Follows(u)
  BY <1>1 DEF FollowsInv
<1>3. ASSUME NEW r \in Routes,
             \/ CreateRoute(r) \/ FinalizeRoute(r)
             \/ \E p \in Passengers :
                  \/ CreateBooking(p, r)
                  \/ \E estado \in Settled \cup {"CANCELADA"} : SettleBooking(p, r, estado)
      PROVE  Follows(u)'
  BY <1>2, <1>3, NothingWritten DEF CreateRoute, FinalizeRoute, CreateBooking, SettleBooking
<1>4. ASSUME NEW w \in Workers,
             \/ \E r \in Routes :
                  \/ \E late \in BOOLEAN : CancelRoute(w, r, late)
                  \/ \E f, t \in Users, score \in Scores : CreateRating(w, f, t, r, score)
             \/ \E t \in Users : UpdateProfile(w, t)
      PROVE  Follows(u)'
  BY <1>2, <1>4, CallsFollow
<1>5. ASSUME NEW w \in Workers,
             \/ SaveCancelled(w) \/ InsertRating(w) \/ AverageRatings(w)
             \/ SaveProfile(w) \/ FlushProfile(w) \/ Fail(w)
      PROVE  Follows(u)'
  BY <1>2, <1>5, SaveCancelledFollows, InsertFollows, AverageFollows, SaveFollows, FlushFollows,
     FailFollows
<1>6. CASE Tick \/ UNCHANGED vars
  BY <1>2, <1>6, NothingWritten DEF Tick, vars
<1>. QED  BY <1>3, <1>4, <1>5, <1>6 DEF Next

LEMMA InitFollows == Init => FollowsInv
<1> SUFFICES ASSUME Init, NEW u \in Users
             PROVE  Follows(u)
  BY DEF FollowsInv
<1>1. \A w \in Workers : ~Busy(w, u)
  BY IdleType DEF Init, Busy
<1>2. Received(u) = {} /\ penalties[u] = 0
  BY DEF Init, Received
<1>3. Cardinality(Received(u)) = 0
  BY <1>2, FS_EmptySet
<1>4. DueAverage(u) = 500
  BY <1>2 DEF DueAverage, Fair
<1>5. Due(u) = NewProfile
  <2>1. (DueAverage(u) < 300) = FALSE
    BY <1>4
  <2>. QED  BY <1>3, <1>4, <2>1 DEF Due, NewProfile
<1>6. profile[u] = NewProfile
  BY DEF Init
<1>. QED  BY <1>1, <1>5, <1>6 DEF Follows

(* ProfileFollowsRatings: the profile of a user who was written by one handler *)
(* at a time, and none of whose handlers was lost, says what his ratings and   *)
(* the penalties since the last of them make, however the steps of the other   *)
(* users' handlers come between.                                               *)
THEOREM ProfileFollows == Spec => []ProfileFollowsRatings
<1>1. Init => FollowsInv
  BY InitFollows
<1>2. Inv /\ FollowsInv /\ [Next]_vars => FollowsInv'
  BY NextFollows
<1>3. FollowsInv => ProfileFollowsRatings
  <2> SUFFICES ASSUME FollowsInv, NEW u \in Users, u \notin disturbed, ~Written(u)
               PROVE  /\ profile[u].ratingPromedio = DueAverage(u)
                      /\ profile[u].totalCalificaciones = Cardinality(Received(u))
                      /\ profile[u].isBloqueadoPorRating = (profile[u].ratingPromedio < 300)
    BY DEF ProfileFollowsRatings, DueAverage, Fair
  <2>1. profile[u] = Due(u)
    BY DEF FollowsInv, Follows
  <2>. QED  BY <2>1 DEF Due
<1>. QED  BY <1>1, <1>2, <1>3, RatingsInvariant, PTL DEF Spec
=============================================================================
