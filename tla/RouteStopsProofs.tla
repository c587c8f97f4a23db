--------------------------- MODULE RouteStopsProofs ---------------------------
(* What is proved of RouteStops, for any numbers of stops and slots, whatever *)
(* runs beside what and wherever a handler is lost.                           *)
EXTENDS RouteStops, FiniteSetTheorems, SequenceTheorems, TLAPS

-----------------------------------------------------------------------------
(* The UNIQUE constraint, and what a handler keeps to itself: the published   *)
(* stops are never the one it adds or removes.                                *)

Unique(o) == \A s, t \in Stops : o[s] # 0 /\ o[s] = o[t] => s = t

Shape(p) ==
    /\ p.at = "idle" <=> p.op = "none"
    /\ p.at # "idle" => /\ p.stop \in Stops \ Range(Published)
                        /\ p.newOrder # 0
    /\ p.at = "commit" => p.op = "createBooking"
    /\ p.at = "insert" => p.op = "addRouteStop"
    /\ p.at \in {"reload", "flush"} => p.op \in {"addRouteStop", "markNoShow"}
    /\ p.at \in {"delete", "remaining"} => p.op = "markNoShow"

Inv ==
    /\ TypeOK /\ Unique(orden)
    /\ \A w \in Workers : Shape(proc[w])
    /\ Range(Published) \subseteq Present(orden) \ pickups

-----------------------------------------------------------------------------
(* While no two handlers renumber at a time, what one is about to write is    *)
(* made of the numbers as they are, and the stop it adds is not there yet.    *)

Renumbering(w) == proc[w].at \in Busy.renumbering

Adding(p) == p.at = "insert" \/ (p.at \in {"reload", "flush", "commit"} /\ p.op # "markNoShow")
Removing(p) == p.at = "remaining" \/ (p.at \in {"reload", "flush"} /\ p.op = "markNoShow")

Fresh(p, o) ==
    /\ Adding(p) => o[p.stop] = 0
    /\ p.at \in {"reload", "flush", "commit"} =>
          p.updates = IF p.op = "markNoShow" THEN ClosedUp(o, p.newOrder)
                                             ELSE Shifted(o, p.newOrder)
    /\ p.at = "flush" => p.known = Present(o)

PlacesInv ==
    "renumbering" \notin overlapped =>
        /\ \A v, w \in Workers : Renumbering(v) /\ Renumbering(w) => v = w
        /\ \A w \in Workers : Fresh(proc[w], orden)

-----------------------------------------------------------------------------
(* If none is lost either, there is at most one gap, which is the place of    *)
(* the stop that is about to be added or has been removed.                    *)

Values(o) == {o[s] : s \in Present(o)}
Whole(o) == \E n \in Nat : Values(o) = 1..n
Insertable(o, k) == \E n \in Nat : k \in 1..(n + 1) /\ Values(o) = 1..n
Gapped(o, k) == \E n \in Nat : k \in 1..n /\ Values(o) = (1..n) \ {k}

Opened(p) == p.at = "insert" \/ Removing(p)

Gaps(p, o) ==
    /\ Opened(p) => Gapped(o, p.newOrder)
    /\ Adding(p) /\ ~Opened(p) => Insertable(o, p.newOrder)
    /\ p.at = "delete" => Whole(o) /\ o[p.stop] = p.newOrder

NumberInv ==
    faults = 0 /\ "renumbering" \notin overlapped =>
        /\ \A w \in Workers : Gaps(proc[w], orden)
        /\ (\A w \in Workers : ~Opened(proc[w])) => Whole(orden)

(* And if nobody is called while another draws, the stored polyline follows   *)
(* but for the handler that is about to draw it.                              *)

Unwritten(p) == p.at = "idle" \/ (Adding(p) /\ ~Opened(p))

PolylineInv ==
    faults = 0 /\ overlapped = {} =>
        /\ \A v, w \in Workers : proc[v].at # "idle" /\ proc[w].at # "idle" => v = w
        /\ (\A w \in Workers : Unwritten(proc[w])) => polyline = Path(orden)
        /\ \A w \in Workers : proc[w].at = "draw" => proc[w].path = Path(orden)

-----------------------------------------------------------------------------
(* Lists of stops. *)

LEMMA PublishedIs ==
    /\ Len(Published) \in Nat /\ Len(Published) \in 2..MaxOrden
    /\ DOMAIN Published = 1..Len(Published)
    /\ \A i \in 1..Len(Published) : Published[i] \in Stops
    /\ \A i, j \in 1..Len(Published) : Published[i] = Published[j] => i = j
    /\ Range(Published) \subseteq Stops
<1>1. /\ Len(Published) \in Nat /\ DOMAIN Published = 1..Len(Published)
      /\ \A i \in 1..Len(Published) : Published[i] \in Stops
  BY RouteStopAssumption, LenProperties, ElementOfSeq
<1>. QED  BY <1>1, RouteStopAssumption DEF IsInjective, Range

(* What UNIQUE makes of the numbers: as many as there are stops.              *)
LEMMA FewStops ==
    ASSUME NEW o \in [Stops -> Ordenes], Unique(o), NEW m \in Nat, \A s \in Stops : o[s] <= m
    PROVE  /\ IsFiniteSet(Present(o))
           /\ Cardinality(Present(o)) \in 0..m
<1> DEFINE f == [s \in Present(o) |-> o[s]]
<1>1. f \in Injection(Present(o), 1..m)
  BY RouteStopAssumption DEF Injection, IsInjective, Present, Unique, Ordenes
<1>2. IsFiniteSet(1..m) /\ Cardinality(1..m) = m
  BY FS_Interval
<1>3. IsFiniteSet(Present(o)) /\ Cardinality(Present(o)) <= m
  BY <1>1, <1>2, FS_Injection
<1>. QED  BY <1>3, FS_CardinalityType

(* Every place in the path is that of one stop.                               *)
LEMMA PlacesAre ==
    ASSUME NEW o \in [Stops -> Ordenes], Unique(o)
    PROVE  /\ Cardinality(Present(o)) \in Nat
           /\ \A s \in Present(o) : Place(o, s) \in 1..Cardinality(Present(o))
           /\ \A s, t \in Present(o) : o[s] < o[t] => Place(o, s) < Place(o, t)
           /\ \A i \in 1..Cardinality(Present(o)) : \E s \in Present(o) : Place(o, s) = i
<1> DEFINE P == Present(o)
           Below(s) == {t \in P : o[t] <= o[s]}
           f == [s \in P |-> Place(o, s)]
<1>0. /\ MaxOrden \in Nat /\ \A s \in Stops : o[s] \in Nat /\ o[s] <= MaxOrden
  BY RouteStopAssumption DEF Ordenes
<1>1. IsFiniteSet(P) /\ Cardinality(P) \in Nat
  BY <1>0, FewStops
<1>2. \A s \in P : /\ IsFiniteSet(Below(s)) /\ Cardinality(Below(s)) \in Nat
                    /\ Cardinality(Below(s)) <= Cardinality(P) /\ s \in Below(s)
  <2> SUFFICES ASSUME NEW s \in P
               PROVE  /\ IsFiniteSet(Below(s)) /\ Cardinality(Below(s)) \in Nat
                      /\ Cardinality(Below(s)) <= Cardinality(P) /\ s \in Below(s)
    OBVIOUS
  <2>1. IsFiniteSet(Below(s)) /\ Cardinality(Below(s)) <= Cardinality(P)
    BY <1>1, FS_Subset
  <2>2. s \in Below(s)
    BY <1>0 DEF Present
  <2>. QED  BY <2>1, <2>2, FS_CardinalityType
<1>b. \A s, t \in P : o[s] < o[t] => Below(s) \subseteq Below(t) /\ t \notin Below(s)
  BY <1>0 DEF Present
<1>p. \A s \in P : Place(o, s) = Cardinality(Below(s))
  BY DEF Place
<1> HIDE DEF Below
<1>3. \A s \in P : Place(o, s) \in 1..Cardinality(P)
  <2> SUFFICES ASSUME NEW s \in P PROVE Place(o, s) \in 1..Cardinality(P)
    OBVIOUS
  <2>1. Cardinality(Below(s)) # 0
    BY <1>2, FS_EmptySet
  <2>. QED  BY <1>1, <1>2, <1>p, <2>1
<1>4. \A s, t \in P : o[s] < o[t] => Place(o, s) < Place(o, t)
  <2> SUFFICES ASSUME NEW s \in P, NEW t \in P, o[s] < o[t]
               PROVE  Place(o, s) < Place(o, t)
    OBVIOUS
  <2>1. Below(s) \subseteq Below(t) /\ t \in Below(t) /\ t \notin Below(s)
    BY <1>2, <1>b
  <2>2. Cardinality(Below(s)) <= Cardinality(Below(t)) /\ Cardinality(Below(s)) # Cardinality(Below(t))
    BY <1>2, <2>1, FS_Subset
  <2>. QED  BY <1>2, <1>p, <2>2
<1>5. f \in Injection(P, 1..Cardinality(P))
  <2>1. \A s, t \in P : Place(o, s) = Place(o, t) => s = t
    <3> SUFFICES ASSUME NEW s \in P, NEW t \in P, Place(o, s) = Place(o, t)
                 PROVE  s = t
      OBVIOUS
    <3>1. ~(o[s] < o[t]) /\ ~(o[t] < o[s])
      BY <1>2, <1>4, <1>p
    <3>2. o[s] = o[t]
      BY <1>0, <3>1 DEF Present
    <3>. QED  BY <3>2 DEF Unique, Present
  <2>. QED  BY <1>3, <2>1 DEF Injection, IsInjective
<1>6. f \in Surjection(P, 1..Cardinality(P))
  <2>1. IsFiniteSet(1..Cardinality(P)) /\ Cardinality(1..Cardinality(P)) = Cardinality(P)
    BY <1>1, FS_Interval
  <2>. QED  BY <1>1, <1>5, <2>1, FS_Injection
<1>. QED  BY <1>1, <1>3, <1>4, <1>6 DEF Surjection

LEMMA PathIs ==
    ASSUME NEW o \in [Stops -> Ordenes], Unique(o)
    PROVE  Path(o) \in Seq(Stops) /\ Len(Path(o)) = Cardinality(Present(o))
<1> DEFINE n == Cardinality(Present(o))
<1>1. n \in Nat /\ \A i \in 1..n : (CHOOSE s \in Present(o) : Place(o, s) = i) \in Stops
  BY PlacesAre DEF Present
<1>2. Path(o) \in [1..n -> Stops]
  BY <1>1 DEF Path
<1>. QED  BY <1>1, <1>2, LenProperties

(* Numbered without a gap, a stop has its number as its place.                *)
LEMMA WholePlaces ==
    ASSUME NEW o \in [Stops -> Ordenes], Unique(o), NEW n \in Nat, Values(o) = 1..n
    PROVE  /\ Cardinality(Present(o)) = n
           /\ \A s \in Present(o) : Place(o, s) = o[s]
<1> DEFINE P == Present(o)
<1>0. MaxOrden \in Nat /\ \A s \in Stops : o[s] \in Nat /\ o[s] <= MaxOrden
  BY RouteStopAssumption DEF Ordenes
<1>1. IsFiniteSet(P)
  BY <1>0, FewStops
<1>2. ASSUME NEW m \in 0..n
      PROVE  Cardinality({t \in P : o[t] <= m}) = m
  <2> DEFINE Q == {t \in P : o[t] <= m}
             g == [t \in Q |-> o[t]]
  <2>1. g \in Injection(Q, 1..m)
    BY <1>0 DEF Injection, IsInjective, Present, Unique
  <2>2. \A i \in 1..m : \E t \in Q : g[t] = i
    <3> SUFFICES ASSUME NEW i \in 1..m PROVE \E t \in Q : g[t] = i
      OBVIOUS
    <3>1. i \in Values(o)
      OBVIOUS
    <3>2. PICK t \in P : i = o[t]
      BY <3>1 DEF Values
    <3>. QED  BY <3>2
  <2>3. g \in Surjection(Q, 1..m)
    BY <2>1, <2>2 DEF Injection, Surjection
  <2>4. IsFiniteSet(1..m) /\ Cardinality(1..m) = m
    BY FS_Interval
  <2>. QED  BY <2>1, <2>3, <2>4, FS_Injection
<1>3. \A s \in P : o[s] \in 1..n
  BY DEF Values
<1>4. {t \in P : o[t] <= n} = P
  BY <1>3
<1>. QED  BY <1>2, <1>3, <1>4 DEF Place

-----------------------------------------------------------------------------
(* Renumbering. *)

LEMMA RenumberIs ==
    ASSUME NEW o \in [Stops -> Ordenes], Unique(o), NEW u \in [Stops -> Ordenes],
           NEW k \in SUBSET Stops
    PROVE  /\ Renumber(o, u, k).o \in [Stops -> Ordenes]
           /\ Renumber(o, u, k).ok => Unique(Renumber(o, u, k).o)
           /\ Present(o) \subseteq Present(Renumber(o, u, k).o)
<1> DEFINE W == {s \in Stops : u[s] # 0 /\ (o[s] # 0 \/ s \notin k)}
           new == [s \in Stops |-> IF s \in W THEN u[s] ELSE o[s]]
           Met(s, t) == IF t \in W /\ u[t] <= u[s] THEN u[t] ELSE o[t]
<1>1. /\ Renumber(o, u, k).o = new
      /\ Renumber(o, u, k).ok <=> \A s \in W : \A t \in Stops \ {s} : Met(s, t) # u[s]
  BY DEF Renumber
<1>2. new \in [Stops -> Ordenes]
  OBVIOUS
<1>3. Present(o) \subseteq Present(new)
  BY DEF Present
<1>4. ASSUME \A s \in W : \A t \in Stops \ {s} : Met(s, t) # u[s]
      PROVE  Unique(new)
  <2>1. \A s \in Stops : u[s] \in Nat
    BY RouteStopAssumption DEF Ordenes
  <2>2. ASSUME NEW s \in Stops, NEW t \in Stops, s # t, new[s] # 0, new[s] = new[t]
        PROVE  FALSE
    <3>1. CASE s \in W /\ t \in W
      BY <1>4, <2>1, <2>2, <3>1
    <3>2. CASE s \in W /\ t \notin W
      BY <1>4, <2>2, <3>2
    <3>3. CASE s \notin W /\ t \in W
      BY <1>4, <2>2, <3>3
    <3>4. CASE s \notin W /\ t \notin W
      BY <2>2, <3>4 DEF Unique
    <3>. QED  BY <3>1, <3>2, <3>3, <3>4
  <2>. QED  BY <2>2 DEF Unique
<1>. QED  BY <1>1, <1>2, <1>3, <1>4

(* What a handler renumbers from the numbers as they are: nothing is left out *)
(* by the save, and no row is missing.                                        *)
LEMMA ShiftedIs ==
    ASSUME NEW o \in [Stops -> Ordenes], NEW k \in Ordenes \ {0}
    PROVE  /\ Changed(o, Shifted(o, k)) = Shifted(o, k)
           /\ Renumber(o, Shifted(o, k), Present(o)).o
                = [s \in Stops |-> IF o[s] >= k THEN o[s] + 1 ELSE o[s]]
           /\ (\A s \in Stops : o[s] < MaxOrden) => Shifted(o, k) \in [Stops -> Ordenes]
<1>0. MaxOrden \in Nat /\ (\A s \in Stops : o[s] \in 0..MaxOrden) /\ k \in 1..MaxOrden
  BY RouteStopAssumption DEF Ordenes
<1> DEFINE W == {s \in Stops : Shifted(o, k)[s] # 0 /\ (o[s] # 0 \/ s \notin Present(o))}
<1>1. W = {s \in Stops : o[s] >= k}
  BY <1>0 DEF Shifted, Present
<1>2. Renumber(o, Shifted(o, k), Present(o)).o
        = [s \in Stops |-> IF s \in W THEN Shifted(o, k)[s] ELSE o[s]]
  BY DEF Renumber
<1>3. Changed(o, Shifted(o, k)) = Shifted(o, k)
  BY <1>0 DEF Changed, Shifted
<1>4. (\A s \in Stops : o[s] < MaxOrden) => Shifted(o, k) \in [Stops -> Ordenes]
  BY <1>0 DEF Shifted, Ordenes
<1>5. [s \in Stops |-> IF s \in W THEN Shifted(o, k)[s] ELSE o[s]]
        = [s \in Stops |-> IF o[s] >= k THEN o[s] + 1 ELSE o[s]]
  BY <1>1 DEF Shifted
<1>. QED  BY <1>2, <1>3, <1>4, <1>5

LEMMA ClosedUpIs ==
    ASSUME NEW o \in [Stops -> Ordenes], Unique(o), NEW k \in Ordenes \ {0}
    PROVE  /\ ClosedUp(o, k) \in [Stops -> Ordenes]
           /\ Changed(o, ClosedUp(o, k)) = ClosedUp(o, k)
           /\ Renumber(o, ClosedUp(o, k), Present(o)).o
                = [s \in Stops |-> IF o[s] > k THEN o[s] - 1 ELSE o[s]]
           /\ (\A s \in Stops : o[s] # k) => Renumber(o, ClosedUp(o, k), Present(o)).ok
<1>0. MaxOrden \in Nat /\ (\A s \in Stops : o[s] \in 0..MaxOrden) /\ k \in 1..MaxOrden
  BY RouteStopAssumption DEF Ordenes
<1> DEFINE u == ClosedUp(o, k)
           W == {s \in Stops : u[s] # 0 /\ (o[s] # 0 \/ s \notin Present(o))}
           Met(s, t) == IF t \in W /\ u[t] <= u[s] THEN u[t] ELSE o[t]
<1>1. W = {s \in Stops : o[s] > k} /\ \A s \in W : u[s] = o[s] - 1
  BY <1>0 DEF ClosedUp, Present
<1>2. /\ Renumber(o, u, Present(o)).o = [s \in Stops |-> IF s \in W THEN u[s] ELSE o[s]]
      /\ Renumber(o, u, Present(o)).ok <=> \A s \in W : \A t \in Stops \ {s} : Met(s, t) # u[s]
  BY DEF Renumber
<1>3. Changed(o, u) = u
  BY <1>0 DEF Changed, ClosedUp
<1>4. u \in [Stops -> Ordenes]
  BY <1>0 DEF ClosedUp, Ordenes
<1>5. [s \in Stops |-> IF s \in W THEN u[s] ELSE o[s]]
        = [s \in Stops |-> IF o[s] > k THEN o[s] - 1 ELSE o[s]]
  BY <1>1
<1>6. ASSUME \A s \in Stops : o[s] # k, NEW s \in W, NEW t \in Stops \ {s}
      PROVE  Met(s, t) # u[s]
  <2>1. o[s] \in 0..MaxOrden /\ o[t] \in 0..MaxOrden /\ o[s] # o[t] /\ o[t] # k
    BY <1>0, <1>1, <1>6 DEF Unique
  <2>2. CASE t \in W
    BY <1>0, <1>1, <2>1, <2>2
  <2>3. CASE t \notin W
    BY <1>0, <1>1, <2>1, <2>3
  <2>. QED  BY <2>2, <2>3
<1>. QED  BY <1>2, <1>3, <1>4, <1>5, <1>6

-----------------------------------------------------------------------------
(* Types, and UNIQUE. *)

LEMMA IdleType == Idle \in Proc /\ Shape(Idle)
  BY RouteStopAssumption DEF Idle, Proc, Stages, NoUpdates, Ordenes, Shape

LEMMA InitInv == Init => Inv
<1> SUFFICES ASSUME Init PROVE Inv
  OBVIOUS
<1>0. MaxOrden \in Nat
  BY RouteStopAssumption
<1> DEFINE At(s) == CHOOSE i \in DOMAIN Published : Published[i] = s
<1>o. orden = [s \in Stops |-> IF s \in Range(Published) THEN At(s) ELSE 0]
  BY DEF Init
<1>a. \A s \in Range(Published) : At(s) \in DOMAIN Published /\ Published[At(s)] = s
  BY DEF Range
<1> HIDE DEF At
<1>1. /\ \A s \in Range(Published) : orden[s] \in 1..Len(Published) /\ Published[orden[s]] = s
      /\ \A s \in Stops \ Range(Published) : orden[s] = 0
  BY <1>o, <1>a, PublishedIs
<1>b. \A s \in Stops : orden[s] \in Ordenes
  BY <1>0, <1>1, PublishedIs DEF Ordenes
<1>2. orden \in [Stops -> Ordenes]
  BY <1>b, <1>o
<1>3. Unique(orden)
  BY <1>1 DEF Unique
<1>i. /\ pickups = {} /\ polyline = Published /\ proc = [w \in Workers |-> Idle]
      /\ faults = 0 /\ overlapped = {}
  BY DEF Init
<1>4. Range(Published) \subseteq Present(orden) \ pickups
  <2>1. \A s \in Range(Published) : s \in Stops /\ orden[s] # 0
    BY <1>1, PublishedIs
  <2>. QED  BY <1>i, <2>1 DEF Present
<1>5. TypeOK
  <2>1. proc \in [Workers -> Proc] /\ polyline \in Seq(Stops) /\ faults \in 0..MaxFaults
    BY <1>i, IdleType, RouteStopAssumption
  <2>. QED  BY <1>2, <1>i, <2>1 DEF TypeOK
<1>6. \A w \in Workers : Shape(proc[w])
  BY <1>i, IdleType
<1>. QED  BY <1>3, <1>4, <1>5, <1>6 DEF Inv

LEMMA Becomes ==
    ASSUME Inv, NEW w \in Workers, NEW p, Become(w, p)
    PROVE  proc'[w] = p /\ \A v \in Workers \ {w} : proc'[v] = proc[v]
  BY DEF Become, Inv, TypeOK

LEMMA SlotKeepsInv ==
    ASSUME Inv, NEW w \in Workers, NEW p \in Proc, Become(w, p), Shape(p),
           orden' \in [Stops -> Ordenes], Unique(orden'),
           Range(Published) \subseteq Present(orden') \ pickups',
           pickups' \subseteq Stops, polyline' \in Seq(Stops),
           faults' \in 0..MaxFaults, overlapped' \subseteq DOMAIN Busy
    PROVE  Inv'
<1>1. proc' \in [Workers -> Proc]
  BY DEF Become, Inv, TypeOK
<1>2. \A v \in Workers : Shape(proc[v])'
  BY Becomes DEF Inv, Shape
<1>. QED  BY <1>1, <1>2 DEF Inv, TypeOK, Unique, Present

LEMMA CalledIs ==
    ASSUME Inv, NEW w \in Workers, NEW op, Called(w, op)
    PROVE  /\ proc[w].at = "idle" /\ overlapped \subseteq overlapped'
           /\ overlapped' \subseteq DOMAIN Busy
           /\ "renumbering" \notin overlapped' => \A v \in Workers : ~Renumbering(v)
           /\ overlapped' = {} => \A v \in Workers : proc[v].at = "idle"
<1>1. /\ overlapped' = overlapped \cup {k \in DOMAIN Busy : \E v \in Workers : proc[v].at \in Busy[k]}
      /\ proc[w].at = "idle" /\ overlapped \subseteq DOMAIN Busy
  BY DEF Called, Inv, TypeOK
<1>2. DOMAIN Busy = {"handlers", "renumbering"} /\ Busy["handlers"] = Stages \ {"idle"}
      /\ Busy["renumbering"] = Busy.renumbering
  BY DEF Busy
<1>3. \A v \in Workers : proc[v].at \in Stages
  BY DEF Inv, TypeOK, Proc
<1>4. "renumbering" \notin overlapped' => \A v \in Workers : ~Renumbering(v)
  BY <1>1, <1>2 DEF Renumbering
<1>5. overlapped' = {} => \A v \in Workers : proc[v].at = "idle"
  BY <1>1, <1>2, <1>3
<1>. QED  BY <1>1, <1>4, <1>5

\* A stop and a place of planStopInsertion, and what the handler makes of them.
LEMMA PlanIs ==
    ASSUME Inv, NEW w \in Workers, NEW s \in Free, NEW op \in {"addRouteStop", "createBooking"},
           NEW at \in {"insert", "reload", "commit"}, NEW i \in InsertIndex(Cardinality(Present(orden))),
           at = "commit" <=> op = "createBooking",
           Plan(w, op, at, s, i)
    PROVE  \E p \in Proc :
              /\ Become(w, p) /\ Shape(p)
              /\ p.op = op /\ p.at = at /\ p.stop = s /\ orden[s] = 0
              /\ p.newOrder = i + 1 /\ p.newOrder \in Ordenes \ {0}
              /\ p.updates = Shifted(orden, i + 1) /\ \A t \in Stops : orden[t] < MaxOrden
<1> DEFINE n == Cardinality(Present(orden))
           p == [Call(op, at) EXCEPT !.stop = s, !.newOrder = i + 1, !.updates = Shifted(orden, i + 1)]
<1>0. /\ MaxOrden \in Nat \ {0} /\ orden \in [Stops -> Ordenes] /\ Unique(orden)
      /\ Become(w, p) /\ \A t \in Stops : orden[t] < MaxOrden
  BY RouteStopAssumption DEF Plan, Inv, TypeOK
<1>1. n \in 0..(MaxOrden - 1)
  <2>1. MaxOrden - 1 \in Nat /\ \A t \in Stops : orden[t] <= MaxOrden - 1
    BY <1>0 DEF Ordenes
  <2>. QED  BY <1>0, <2>1, FewStops
<1>2. i \in Nat /\ i + 1 \in 1..MaxOrden
  BY <1>0, <1>1 DEF InsertIndex
<1>3. s \in Stops /\ orden[s] = 0 /\ s \notin Range(Published)
  BY DEF Free, Inv, Present
<1>4. i + 1 \in Ordenes \ {0}
  BY <1>0, <1>2 DEF Ordenes
<1>5. Shifted(orden, i + 1) \in [Stops -> Ordenes]
  BY <1>0, <1>4, ShiftedIs
<1>6. p \in Proc
  BY <1>3, <1>4, <1>5, IdleType DEF Call, Proc, Idle, Stages, Ops
<1>7. /\ p.op = op /\ p.at = at /\ p.stop = s /\ p.newOrder = i + 1
      /\ p.updates = Shifted(orden, i + 1)
  BY DEF Call, Idle
<1>8. Shape(p)
  BY <1>2, <1>3, <1>7 DEF Shape
<1>. QED  BY <1>0, <1>3, <1>4, <1>6, <1>7, <1>8

LEMMA CallsKeepInv ==
    ASSUME Inv, NEW w \in Workers, NEW s \in Stops,
           \/ \E i \in 0..Cardinality(Stops) : AddRouteStop(w, s, i) \/ BookPickup(w, s, i)
           \/ RemovePickup(w, s)
    PROVE  Inv'
<1>1. ASSUME NEW i, AddRouteStop(w, s, i)
      PROVE  Inv'
  <2>1. PICK p \in Proc : Become(w, p) /\ Shape(p)
    BY <1>1, PlanIs DEF AddRouteStop
  <2>2. overlapped' \subseteq DOMAIN Busy
    BY <1>1, CalledIs DEF AddRouteStop
  <2>. QED  BY <1>1, <2>1, <2>2, SlotKeepsInv DEF AddRouteStop, Inv, TypeOK
<1>2. ASSUME NEW i, BookPickup(w, s, i)
      PROVE  Inv'
  <2>1. PICK p \in Proc : Become(w, p) /\ Shape(p)
    BY <1>2, PlanIs DEF BookPickup
  <2>2. overlapped' \subseteq DOMAIN Busy
    BY <1>2, CalledIs DEF BookPickup
  <2>. QED  BY <1>2, <2>1, <2>2, SlotKeepsInv DEF BookPickup, Inv, TypeOK
<1>3. CASE RemovePickup(w, s)
  <2> DEFINE p == [Call("markNoShow", "delete") EXCEPT !.stop = s, !.newOrder = orden[s]]
  <2>1. overlapped' \subseteq DOMAIN Busy
    BY <1>3, CalledIs DEF RemovePickup
  <2>2. pickups' \subseteq Stops /\ pickups' \subseteq pickups /\ s \notin Range(Published)
    BY <1>3 DEF RemovePickup, Inv, TypeOK
  <2>3. CASE orden[s] = 0
    BY <1>3, <2>1, <2>2, <2>3 DEF RemovePickup, Inv, TypeOK, Unique, Present, Shape
  <2>4. CASE orden[s] # 0
    <3>1. p \in Proc /\ Shape(p)
      BY <2>2, <2>4, IdleType DEF Call, Proc, Idle, Stages, Ops, Shape, Inv, TypeOK
    <3>. QED  BY <1>3, <2>1, <2>2, <2>4, <3>1, SlotKeepsInv DEF RemovePickup, Inv, TypeOK
  <2>. QED  BY <2>3, <2>4
<1>. QED  BY <1>1, <1>2, <1>3

LEMMA ContinuesKeepInv ==
    ASSUME Inv, NEW w \in Workers,
           \/ ReloadStops(w) \/ FlushStops(w) \/ InsertStop(w) \/ CommitPickup(w)
           \/ DeleteStop(w) \/ ReadRemaining(w) \/ ReadPath(w) \/ DrawPolyline(w)
           \/ Fail(w)
    PROVE  Inv'
<1> DEFINE p == proc[w]
<1>0. /\ p \in Proc /\ Shape(p) /\ orden \in [Stops -> Ordenes] /\ Unique(orden)
      /\ pickups \subseteq Stops /\ polyline \in Seq(Stops) /\ faults \in 0..MaxFaults
      /\ overlapped \subseteq DOMAIN Busy
      /\ Range(Published) \subseteq Present(orden) \ pickups
      /\ p.updates \in [Stops -> Ordenes] /\ p.known \subseteq Stops /\ p.newOrder \in Ordenes
      /\ NoUpdates \in [Stops -> Ordenes]
  BY IdleType DEF Inv, TypeOK, Proc, Idle
<1>1. CASE ReloadStops(w)
  <2> DEFINE r == [p EXCEPT !.at = "flush", !.known = Present(orden), !.updates = Changed(orden, @)]
  <2>1. Changed(orden, p.updates) \in [Stops -> Ordenes] /\ Present(orden) \subseteq Stops
    BY <1>0, RouteStopAssumption DEF Changed, Ordenes, Present
  <2>2. r \in Proc /\ Shape(r) /\ Become(w, r)
    BY <1>0, <1>1, <2>1 DEF ReloadStops, Proc, Stages, Shape
  <2>. QED  BY <1>0, <1>1, <2>2, SlotKeepsInv DEF ReloadStops
<1>2. CASE FlushStops(w)
  <2> DEFINE result == Renumber(orden, p.updates, p.known)
             r == [p EXCEPT !.updates = NoUpdates, !.known = {},
                        !.at = IF p.op = "addRouteStop" THEN "insert" ELSE "refresh"]
  <2>1. CASE result.ok
    <3>1. orden' = result.o /\ Become(w, r)
      BY <1>2, <2>1 DEF FlushStops
    <3>2. orden' \in [Stops -> Ordenes] /\ Unique(orden') /\ Present(orden) \subseteq Present(orden')
      BY <1>0, <2>1, <3>1, RenumberIs
    <3>3. r \in Proc /\ Shape(r)
      BY <1>0, <1>2 DEF FlushStops, Proc, Stages, Shape
    <3>. QED  BY <1>0, <1>2, <3>1, <3>2, <3>3, SlotKeepsInv DEF FlushStops
  <2>2. CASE ~result.ok
    BY <1>0, <1>2, <2>2, IdleType, SlotKeepsInv DEF FlushStops, Done
  <2>. QED  BY <2>1, <2>2
<1>3. CASE InsertStop(w)
  <2> DEFINE r == [p EXCEPT !.at = "refresh"]
  <2>1. CASE \E t \in Stops : orden[t] = p.newOrder
    BY <1>0, <1>3, <2>1, IdleType, SlotKeepsInv DEF InsertStop, Done
  <2>2. CASE \A t \in Stops : orden[t] # p.newOrder
    <3>1. orden' = [orden EXCEPT ![p.stop] = p.newOrder] /\ Become(w, r)
      BY <1>3, <2>2 DEF InsertStop
    <3>2. r \in Proc /\ Shape(r) /\ p.stop \in Stops /\ p.newOrder # 0
      BY <1>0, <1>3 DEF InsertStop, Proc, Stages, Shape
    <3>3. orden' \in [Stops -> Ordenes] /\ Unique(orden') /\ Present(orden) \subseteq Present(orden')
      BY <1>0, <2>2, <3>1, <3>2 DEF Unique, Present
    <3>. QED  BY <1>0, <1>3, <3>1, <3>2, <3>3, SlotKeepsInv DEF InsertStop
  <2>. QED  BY <2>1, <2>2
<1>4. CASE CommitPickup(w)
  <2> DEFINE result == Renumber(orden, Changed(orden, p.updates), Present(orden))
             r == [p EXCEPT !.at = "refresh", !.updates = NoUpdates]
             booked == result.ok /\ \A t \in Stops : result.o[t] # p.newOrder
  <2>1. CASE booked
    <3>1. /\ orden' = [result.o EXCEPT ![p.stop] = p.newOrder]
          /\ pickups' = pickups \cup {p.stop} /\ Become(w, r)
      BY <1>4, <2>1 DEF CommitPickup
    <3>2. /\ r \in Proc /\ Shape(r) /\ p.newOrder # 0
          /\ p.stop \in Stops \ Range(Published)
      BY <1>0, <1>4 DEF CommitPickup, Proc, Stages, Shape
    <3>3. Changed(orden, p.updates) \in [Stops -> Ordenes] /\ Present(orden) \subseteq Stops
      BY <1>0, RouteStopAssumption DEF Changed, Ordenes, Present
    <3>4. /\ result.o \in [Stops -> Ordenes] /\ Unique(result.o)
          /\ Present(orden) \subseteq Present(result.o)
      BY <1>0, <2>1, <3>3, RenumberIs
    <3>5. /\ orden' \in [Stops -> Ordenes] /\ Unique(orden')
          /\ Present(orden) \subseteq Present(orden')
      <4> HIDE DEF result
      <4>. QED  BY <1>0, <2>1, <3>1, <3>2, <3>4 DEF Unique, Present
    <3>. QED  BY <1>0, <1>4, <3>1, <3>2, <3>5, SlotKeepsInv DEF CommitPickup
  <2>2. CASE ~booked
    BY <1>0, <1>4, <2>2, IdleType, SlotKeepsInv DEF CommitPickup, Done
  <2>. QED  BY <2>1, <2>2
<1>5. CASE DeleteStop(w)
  <2> DEFINE r == [p EXCEPT !.at = "remaining"]
  <2>1. orden' = [orden EXCEPT ![p.stop] = 0] /\ Become(w, r)
    BY <1>5 DEF DeleteStop
  <2>2. r \in Proc /\ Shape(r) /\ p.stop \in Stops \ Range(Published)
    BY <1>0, <1>5 DEF DeleteStop, Proc, Stages, Shape
  <2>z. 0 \in Ordenes
    BY RouteStopAssumption DEF Ordenes
  <2>t. orden' \in [Stops -> Ordenes]
    BY <1>0, <2>1, <2>2, <2>z
  <2>3. \A s, t \in Stops : orden'[s] # 0 /\ orden'[s] = orden'[t] => orden[s] # 0 /\ orden[s] = orden[t]
    BY <1>0, <2>1, <2>2
  <2>u. Unique(orden')
    BY <1>0, <2>3 DEF Unique
  <2>4. Range(Published) \subseteq Present(orden')
    BY <1>0, <2>1, <2>2 DEF Present
  <2>. QED  BY <1>0, <1>5, <2>1, <2>2, <2>t, <2>u, <2>4, SlotKeepsInv DEF DeleteStop
<1>6. CASE ReadRemaining(w)
  <2> DEFINE u == ClosedUp(orden, p.newOrder)
             r == [p EXCEPT !.updates = u, !.at = IF u = NoUpdates THEN "refresh" ELSE "reload"]
  <2>1. u \in [Stops -> Ordenes]
    BY <1>0, <1>6, ClosedUpIs DEF Shape, ReadRemaining
  <2>2. r \in Proc /\ Shape(r) /\ Become(w, r)
    BY <1>0, <1>6, <2>1 DEF ReadRemaining, Proc, Stages, Shape
  <2>. QED  BY <1>0, <1>6, <2>2, SlotKeepsInv DEF ReadRemaining
<1>7. CASE ReadPath(w)
  <2> DEFINE r == [p EXCEPT !.at = "draw", !.path = Path(orden)]
  <2>1. r \in Proc /\ Shape(r) /\ Become(w, r)
    BY <1>0, <1>7, PathIs DEF ReadPath, Proc, Stages, Shape
  <2>. QED  BY <1>0, <1>7, <2>1, SlotKeepsInv DEF ReadPath
<1>8. CASE DrawPolyline(w)
  <2>1. polyline' \in Seq(Stops)
    BY <1>0, <1>8, EmptySeq DEF DrawPolyline, Proc
  <2>. QED  BY <1>0, <1>8, <2>1, IdleType, SlotKeepsInv DEF DrawPolyline, Done
<1>9. CASE Fail(w)
  <2>1. faults' \in 0..MaxFaults
    BY <1>0, <1>9, RouteStopAssumption DEF Fail
  <2>. QED  BY <1>0, <1>9, <2>1, IdleType, SlotKeepsInv DEF Fail, Done
<1>. QED  BY <1>1, <1>2, <1>3, <1>4, <1>5, <1>6, <1>7, <1>8, <1>9

LEMMA NextKeepsInv == Inv /\ [Next]_vars => Inv'
<1>1. ASSUME Inv, Next PROVE Inv'
  BY <1>1, CallsKeepInv, ContinuesKeepInv DEF Next
<1>2. ASSUME Inv, UNCHANGED vars PROVE Inv'
  BY <1>2 DEF vars, Inv, TypeOK, Unique, Present, Shape
<1>. QED  BY <1>1, <1>2

(* Whatever handlers meet, whatever lists they renumber from and wherever     *)
(* they are lost, no two stops of the route have one number, and the stops    *)
(* createRoute has published stay.                                            *)
THEOREM StopsInvariant == Spec => []Inv
  BY InitInv, NextKeepsInv, PTL DEF Spec

(* TypeOK: numbers, path and what handlers hold keep their domains; a path    *)
(* is one of stops, and no number is beyond the bound.                        *)
THEOREM TypeCorrect == Spec => []TypeOK
<1>1. Inv => TypeOK
  BY DEF Inv
<1>. QED  BY <1>1, StopsInvariant, PTL

-----------------------------------------------------------------------------
(* One handler renumbering at a time: what it writes. *)

Moved(o, k) == [s \in Stops |-> IF o[s] >= k THEN o[s] + 1 ELSE o[s]]
Closed(o, k) == [s \in Stops |-> IF o[s] > k THEN o[s] - 1 ELSE o[s]]

Ordered(o, o2) ==
    \A s, t \in Present(o) :
        s \in Present(o2) /\ t \in Present(o2) /\ o[s] < o[t] => o2[s] < o2[t]

LEMMA StaysOrdered ==
    ASSUME NEW o \in [Stops -> Ordenes], NEW k \in Ordenes
    PROVE  /\ Ordered(o, Moved(o, k))
           /\ Unique(Closed(o, k)) => Ordered(o, Closed(o, k))
           /\ \A s \in Stops : o[s] = 0 => Ordered(o, [o EXCEPT ![s] = k])
           /\ \A s \in Stops : Ordered(o, [o EXCEPT ![s] = 0])
<1>0. (\A s \in Stops : o[s] \in Nat) /\ k \in Nat
  BY RouteStopAssumption DEF Ordenes
<1>1. Ordered(o, Moved(o, k))
  BY <1>0 DEF Ordered, Present, Moved
<1>2. ASSUME Unique(Closed(o, k)), NEW s \in Stops, NEW t \in Stops,
             Closed(o, k)[s] # 0, Closed(o, k)[t] # 0, o[s] < o[t]
      PROVE  Closed(o, k)[s] < Closed(o, k)[t]
  <2>1. Closed(o, k)[s] # Closed(o, k)[t]
    BY <1>0, <1>2 DEF Unique
  <2>. QED  BY <1>0, <1>2, <2>1 DEF Closed
<1>3. \A s \in Stops : o[s] = 0 => Ordered(o, [o EXCEPT ![s] = k])
  BY DEF Ordered, Present
<1>4. \A s \in Stops : Ordered(o, [o EXCEPT ![s] = 0])
  BY DEF Ordered, Present
<1>. QED  BY <1>1, <1>2, <1>3, <1>4 DEF Ordered, Present

LEMMA SlotIs ==
    ASSUME Inv, NEW w \in Workers
    PROVE  /\ proc[w] \in Proc /\ Shape(proc[w]) /\ proc[w].at \in Stages
           /\ orden \in [Stops -> Ordenes] /\ Unique(orden)
           /\ proc[w].at # "idle" =>
                 proc[w].newOrder \in Ordenes \ {0} /\ proc[w].stop \in Stops \ Range(Published)
  BY DEF Inv, TypeOK, Proc, Shape

\* A handler that does not renumber is about to write nothing.
LEMMA OthersAreFresh ==
    ASSUME Inv, NEW v \in Workers, ~Renumbering(v), NEW o
    PROVE  Fresh(proc[v], o) /\ Gaps(proc[v], o) /\ ~Opened(proc[v])
  BY SlotIs DEF Renumbering, Busy, Stages, Fresh, Gaps, Adding, Opened, Removing

LEMMA OneRenumbers ==
    ASSUME PlacesInv, "renumbering" \notin overlapped, NEW w \in Workers, Renumbering(w)
    PROVE  Fresh(proc[w], orden) /\ \A v \in Workers \ {w} : ~Renumbering(v)
  BY DEF PlacesInv

\* What a handler has read before it writes.
LEMMA ReloadIs ==
    ASSUME Inv, PlacesInv, NEW w \in Workers, ReloadStops(w), "renumbering" \notin overlapped
    PROVE  /\ Changed(orden, proc[w].updates) = proc[w].updates
           /\ Renumbering(w) /\ Fresh(proc[w], orden)
<1>1. Renumbering(w)
  BY DEF ReloadStops, Renumbering, Busy, Stages
<1>2. Fresh(proc[w], orden)
  BY <1>1, OneRenumbers
<1>3. CASE proc[w].op = "markNoShow"
  BY <1>1, <1>2, <1>3, SlotIs, ClosedUpIs DEF ReloadStops, Fresh
<1>4. CASE proc[w].op # "markNoShow"
  BY <1>1, <1>2, <1>4, SlotIs, ShiftedIs DEF ReloadStops, Fresh
<1>. QED  BY <1>1, <1>2, <1>3, <1>4

\* addRouteStop has moved the stops behind its own, or nothing is written.
LEMMA AddFlushIs ==
    ASSUME Inv, PlacesInv, NEW w \in Workers, FlushStops(w), "renumbering" \notin overlapped,
           proc[w].op # "markNoShow"
    PROVE  /\ Renumbering(w) /\ orden[proc[w].stop] = 0 /\ Adding(proc[w]) /\ ~Opened(proc[w])
           /\ \/ UNCHANGED orden /\ Become(w, Idle)
              \/ /\ orden' = Moved(orden, proc[w].newOrder)
                 /\ Become(w, [proc[w] EXCEPT !.updates = NoUpdates, !.known = {}, !.at = "insert"])
<1> DEFINE p == proc[w]
           result == Renumber(orden, p.updates, p.known)
<1>1. Renumbering(w) /\ p.at = "flush" /\ p.op = "addRouteStop"
  BY SlotIs DEF FlushStops, Renumbering, Busy, Stages, Shape
<1>2. Fresh(p, orden) /\ Adding(p) /\ ~Opened(p)
  BY <1>1, OneRenumbers DEF Adding, Opened, Removing
<1>3. orden[p.stop] = 0 /\ p.updates = Shifted(orden, p.newOrder) /\ p.known = Present(orden)
  BY <1>1, <1>2 DEF Fresh
<1>4. result.o = Moved(orden, p.newOrder)
  BY <1>1, <1>3, SlotIs, ShiftedIs DEF Moved
<1>5. CASE result.ok
  BY <1>1, <1>2, <1>3, <1>4, <1>5 DEF FlushStops
<1>6. CASE ~result.ok
  BY <1>1, <1>2, <1>3, <1>6 DEF FlushStops, Done
<1>. QED  BY <1>5, <1>6

\* markNoShow has closed the gap; nothing refuses it where the gap is one.
LEMMA RemoveFlushIs ==
    ASSUME Inv, PlacesInv, NEW w \in Workers, FlushStops(w), "renumbering" \notin overlapped,
           proc[w].op = "markNoShow"
    PROVE  /\ Renumbering(w) /\ Opened(proc[w]) /\ ~Adding(proc[w])
           /\ \/ /\ UNCHANGED orden /\ Become(w, Idle)
                 /\ \E s \in Stops : orden[s] = proc[w].newOrder
              \/ /\ orden' = Closed(orden, proc[w].newOrder)
                 /\ Become(w, [proc[w] EXCEPT !.updates = NoUpdates, !.known = {}, !.at = "refresh"])
<1> DEFINE p == proc[w]
           result == Renumber(orden, p.updates, p.known)
<1>1. Renumbering(w) /\ p.at = "flush"
  BY DEF FlushStops, Renumbering, Busy, Stages
<1>2. Fresh(p, orden) /\ ~Adding(p) /\ Opened(p)
  BY <1>1, OneRenumbers DEF Adding, Opened, Removing
<1>3. p.updates = ClosedUp(orden, p.newOrder) /\ p.known = Present(orden)
  BY <1>1, <1>2 DEF Fresh
<1>4. /\ result.o = Closed(orden, p.newOrder)
      /\ ~result.ok => \E s \in Stops : orden[s] = p.newOrder
  BY <1>1, <1>3, SlotIs, ClosedUpIs DEF Closed
<1>5. CASE result.ok
  BY <1>1, <1>2, <1>4, <1>5 DEF FlushStops
<1>6. CASE ~result.ok
  BY <1>1, <1>2, <1>4, <1>6 DEF FlushStops, Done
<1>. QED  BY <1>5, <1>6

LEMMA InsertIs ==
    ASSUME Inv, PlacesInv, NEW w \in Workers, InsertStop(w), "renumbering" \notin overlapped
    PROVE  /\ Renumbering(w) /\ orden[proc[w].stop] = 0 /\ Opened(proc[w])
           /\ \/ /\ UNCHANGED orden /\ Become(w, Idle)
                 /\ \E s \in Stops : orden[s] = proc[w].newOrder
              \/ /\ orden' = [orden EXCEPT ![proc[w].stop] = proc[w].newOrder]
                 /\ Become(w, [proc[w] EXCEPT !.at = "refresh"])
<1>1. Renumbering(w) /\ proc[w].at = "insert" /\ Opened(proc[w])
  BY DEF InsertStop, Renumbering, Busy, Stages, Opened
<1>2. orden[proc[w].stop] = 0
  BY <1>1, OneRenumbers DEF Fresh, Adding
<1>. QED  BY <1>1, <1>2 DEF InsertStop, Done

LEMMA CommitIs ==
    ASSUME Inv, PlacesInv, NEW w \in Workers, CommitPickup(w), "renumbering" \notin overlapped
    PROVE  /\ Renumbering(w) /\ orden[proc[w].stop] = 0 /\ Adding(proc[w]) /\ ~Opened(proc[w])
           /\ \/ UNCHANGED orden /\ Become(w, Idle)
              \/ /\ orden' = [Moved(orden, proc[w].newOrder) EXCEPT ![proc[w].stop] = proc[w].newOrder]
                 /\ Become(w, [proc[w] EXCEPT !.at = "refresh", !.updates = NoUpdates])
<1> DEFINE p == proc[w]
           result == Renumber(orden, Changed(orden, p.updates), Present(orden))
           booked == result.ok /\ \A t \in Stops : result.o[t] # p.newOrder
<1>1. Renumbering(w) /\ p.at = "commit" /\ p.op = "createBooking"
  BY SlotIs DEF CommitPickup, Renumbering, Busy, Stages, Shape
<1>2. Fresh(p, orden) /\ Adding(p) /\ ~Opened(p)
  BY <1>1, OneRenumbers DEF Adding, Opened, Removing
<1>3. orden[p.stop] = 0 /\ p.updates = Shifted(orden, p.newOrder)
  BY <1>1, <1>2 DEF Fresh
<1>4. result.o = Moved(orden, p.newOrder)
  BY <1>1, <1>3, SlotIs, ShiftedIs DEF Moved
<1>5. CASE booked
  BY <1>1, <1>2, <1>3, <1>4, <1>5 DEF CommitPickup
<1>6. CASE ~booked
  BY <1>1, <1>2, <1>3, <1>6 DEF CommitPickup, Done
<1>. QED  BY <1>5, <1>6

-----------------------------------------------------------------------------
(* Stops keep their places. *)

LEMMA SlotKeepsPlaces ==
    ASSUME Inv, PlacesInv, NEW w \in Workers, NEW p, Become(w, p),
           "renumbering" \notin overlapped' =>
              /\ "renumbering" \notin overlapped
              /\ Fresh(p, orden')
              /\ \/ \A v \in Workers \ {w} : ~Renumbering(v)
                 \/ p.at \notin Busy.renumbering /\ UNCHANGED orden
    PROVE  PlacesInv'
<1> SUFFICES ASSUME "renumbering" \notin overlapped'
             PROVE  /\ \A u, v \in Workers : Renumbering(u)' /\ Renumbering(v)' => u = v
                    /\ \A v \in Workers : Fresh(proc'[v], orden')
  BY DEF PlacesInv
<1>1. \A v \in Workers \ {w} : (Renumbering(v)' <=> Renumbering(v)) /\ proc'[v] = proc[v]
  BY Becomes DEF Renumbering
<1>2. proc'[w] = p /\ (Renumbering(w)' <=> p.at \in Busy.renumbering)
  BY Becomes DEF Renumbering
<1>3. \A v \in Workers \ {w} : Fresh(proc[v], orden')
  BY OthersAreFresh DEF PlacesInv
<1>. QED  BY <1>1, <1>2, <1>3 DEF PlacesInv

LEMMA InitPlaces == Init => PlacesInv
  BY DEF Init, PlacesInv, Fresh, Adding, Renumbering, Busy, Stages, Idle

LEMMA IdleIsFresh == \A o : Fresh(Idle, o) /\ Idle.at = "idle" /\ Idle.at \notin Busy.renumbering
  BY DEF Fresh, Adding, Idle, Busy, Stages

LEMMA CallsKeepPlaces ==
    ASSUME Inv, PlacesInv, NEW w \in Workers, NEW s \in Stops,
           \/ \E i \in 0..Cardinality(Stops) : AddRouteStop(w, s, i) \/ BookPickup(w, s, i)
           \/ RemovePickup(w, s)
    PROVE  PlacesInv'
<1>1. ASSUME NEW i, NEW op \in {"addRouteStop", "createBooking"},
             NEW at \in {"insert", "reload", "commit"}, at = "commit" <=> op = "createBooking",
             Called(w, op), s \in Free, i \in InsertIndex(Cardinality(Present(orden))),
             Plan(w, op, at, s, i), UNCHANGED orden
      PROVE  PlacesInv'
  <2>1. PICK p \in Proc : /\ Become(w, p) /\ p.op = op /\ p.at = at /\ p.stop = s /\ orden[s] = 0
                          /\ p.newOrder = i + 1 /\ p.updates = Shifted(orden, i + 1)
    BY <1>1, PlanIs
  <2>2. Fresh(p, orden')
    BY <1>1, <2>1 DEF Fresh, Adding
  <2>. QED  BY <1>1, <2>1, <2>2, CalledIs, SlotKeepsPlaces
<1>2. ASSUME NEW i, AddRouteStop(w, s, i) PROVE PlacesInv'
  BY <1>1, <1>2 DEF AddRouteStop
<1>3. ASSUME NEW i, BookPickup(w, s, i) PROVE PlacesInv'
  BY <1>1, <1>3 DEF BookPickup
<1>4. CASE RemovePickup(w, s)
  <2> DEFINE p == [Call("markNoShow", "delete") EXCEPT !.stop = s, !.newOrder = orden[s]]
  <2>1. CASE orden[s] = 0
    BY <1>4, <2>1, CalledIs DEF RemovePickup, PlacesInv, Fresh, Adding, Present, Renumbering
  <2>2. CASE orden[s] # 0
    <3>1. Fresh(p, orden')
      BY DEF Fresh, Adding, Call, Idle
    <3>. QED  BY <1>4, <2>2, <3>1, CalledIs, SlotKeepsPlaces DEF RemovePickup
  <2>. QED  BY <2>1, <2>2
<1>. QED  BY <1>2, <1>3, <1>4

LEMMA ContinuesKeepPlaces ==
    ASSUME Inv, PlacesInv, NEW w \in Workers,
           \/ ReloadStops(w) \/ FlushStops(w) \/ InsertStop(w) \/ CommitPickup(w)
           \/ DeleteStop(w) \/ ReadRemaining(w) \/ ReadPath(w) \/ DrawPolyline(w)
           \/ Fail(w)
    PROVE  PlacesInv'
<1> DEFINE p == proc[w]
<1>0. UNCHANGED overlapped
  BY DEF ReloadStops, FlushStops, InsertStop, CommitPickup, DeleteStop, ReadRemaining,
         ReadPath, DrawPolyline, Fail
<1>1. CASE "renumbering" \in overlapped
  BY <1>0, <1>1 DEF PlacesInv
<1>2. CASE "renumbering" \notin overlapped
  <2>1. CASE ReloadStops(w)
    <3> DEFINE r == [p EXCEPT !.at = "flush", !.known = Present(orden), !.updates = Changed(orden, @)]
    <3>1. Become(w, r) /\ UNCHANGED orden
      BY <2>1 DEF ReloadStops
    <3>2. Fresh(r, orden) /\ Renumbering(w)
      BY <1>2, <2>1, ReloadIs, SlotIs DEF ReloadStops, Fresh, Adding, Proc
    <3>. QED  BY <1>0, <1>2, <3>1, <3>2, OneRenumbers, SlotKeepsPlaces
  <2>2. CASE FlushStops(w)
    <3>1. CASE UNCHANGED orden /\ Become(w, Idle)
      BY <1>0, <1>2, <3>1, IdleIsFresh, SlotKeepsPlaces
    <3>2. CASE proc[w].op # "markNoShow"
      <4> DEFINE r == [p EXCEPT !.updates = NoUpdates, !.known = {}, !.at = "insert"]
      <4>1. SUFFICES ASSUME orden' = Moved(orden, p.newOrder), Become(w, r),
                            Renumbering(w), orden[p.stop] = 0
                     PROVE  PlacesInv'
        BY <1>2, <2>2, <3>1, <3>2, AddFlushIs
      <4>2. p \in Proc /\ orden'[p.stop] = 0
        BY <4>1, SlotIs DEF Moved, Ordenes, Renumbering, Busy
      <4>3. Fresh(r, orden')
        BY <4>2 DEF Fresh, Adding, Proc
      <4>. QED  BY <1>0, <1>2, <4>1, <4>3, OneRenumbers, SlotKeepsPlaces
    <3>3. CASE proc[w].op = "markNoShow"
      <4> DEFINE r == [p EXCEPT !.updates = NoUpdates, !.known = {}, !.at = "refresh"]
      <4>1. SUFFICES ASSUME Become(w, r), Renumbering(w) PROVE PlacesInv'
        BY <1>2, <2>2, <3>1, <3>3, RemoveFlushIs
      <4>2. Fresh(r, orden')
        BY SlotIs DEF Fresh, Adding, Proc
      <4>. QED  BY <1>0, <1>2, <4>1, <4>2, OneRenumbers, SlotKeepsPlaces
    <3>. QED  BY <3>2, <3>3
  <2>3. CASE InsertStop(w)
    <3> DEFINE r == [p EXCEPT !.at = "refresh"]
    <3>1. Fresh(r, orden')
      BY SlotIs DEF Fresh, Adding, Proc
    <3>. QED  BY <1>0, <1>2, <2>3, <3>1, InsertIs, IdleIsFresh, OneRenumbers, SlotKeepsPlaces
  <2>4. CASE CommitPickup(w)
    <3> DEFINE r == [p EXCEPT !.at = "refresh", !.updates = NoUpdates]
    <3>1. Fresh(r, orden')
      BY SlotIs DEF Fresh, Adding, Proc
    <3>. QED  BY <1>0, <1>2, <2>4, <3>1, CommitIs, IdleIsFresh, OneRenumbers, SlotKeepsPlaces
  <2>5. CASE DeleteStop(w)
    <3> DEFINE r == [p EXCEPT !.at = "remaining"]
    <3>1. Fresh(r, orden') /\ Renumbering(w) /\ Become(w, r)
      BY <2>5, SlotIs DEF Fresh, Adding, Proc, DeleteStop, Renumbering, Busy, Stages
    <3>. QED  BY <1>0, <1>2, <3>1, OneRenumbers, SlotKeepsPlaces
  <2>6. CASE ReadRemaining(w)
    <3> DEFINE u == ClosedUp(orden, p.newOrder)
               r == [p EXCEPT !.updates = u, !.at = IF u = NoUpdates THEN "refresh" ELSE "reload"]
    <3>1. Become(w, r) /\ UNCHANGED orden /\ Renumbering(w) /\ p.op = "markNoShow"
      BY <2>6, SlotIs DEF ReadRemaining, Renumbering, Busy, Stages, Shape
    <3>2. Fresh(r, orden)
      BY <3>1, SlotIs DEF Fresh, Adding, Proc
    <3>. QED  BY <1>0, <1>2, <3>1, <3>2, OneRenumbers, SlotKeepsPlaces
  <2>7. CASE ReadPath(w)
    <3> DEFINE r == [p EXCEPT !.at = "draw", !.path = Path(orden)]
    <3>1. Fresh(r, orden') /\ r.at \notin Busy.renumbering
      BY SlotIs DEF Fresh, Adding, Proc, Busy
    <3>. QED  BY <1>0, <1>2, <2>7, <3>1, SlotKeepsPlaces DEF ReadPath
  <2>8. CASE DrawPolyline(w) \/ Fail(w)
    BY <1>0, <1>2, <2>8, IdleIsFresh, SlotKeepsPlaces DEF DrawPolyline, Fail, Done
  <2>. QED  BY <2>1, <2>2, <2>3, <2>4, <2>5, <2>6, <2>7, <2>8
<1>. QED  BY <1>1, <1>2

LEMMA NextKeepsPlaces == Inv /\ PlacesInv /\ [Next]_vars => PlacesInv'
<1>1. ASSUME Inv, PlacesInv, Next PROVE PlacesInv'
  BY <1>1, CallsKeepPlaces, ContinuesKeepPlaces DEF Next
<1>2. ASSUME PlacesInv, UNCHANGED vars PROVE PlacesInv'
  BY <1>2 DEF vars, PlacesInv, Fresh, Renumbering, Present
<1>. QED  BY <1>1, <1>2

THEOREM PlacesInvariant == Spec => []PlacesInv
<1>. QED  BY StopsInvariant, InitPlaces, NextKeepsPlaces, PTL DEF Spec

(* StopsKeepTheirPlaces: as long as no two handlers renumber at a time, no    *)
(* step puts a stop in front of one it came after.                            *)
THEOREM PlacesKept == Spec => StopsKeepTheirPlaces
<1> DEFINE Kept == "renumbering" \notin overlapped => Ordered(orden, orden')
<1>1. ASSUME Inv, PlacesInv, Next, orden' # orden PROVE Kept
  <2> SUFFICES ASSUME "renumbering" \notin overlapped PROVE Ordered(orden, orden')
    OBVIOUS
  <2>1. PICK w \in Workers :
           FlushStops(w) \/ InsertStop(w) \/ CommitPickup(w) \/ DeleteStop(w)
    BY <1>1 DEF Next, AddRouteStop, BookPickup, RemovePickup, ReloadStops, ReadRemaining,
                ReadPath, DrawPolyline, Fail
  <2>2. /\ proc[w].at # "idle" /\ orden \in [Stops -> Ordenes] /\ Unique(orden')
        /\ proc[w].newOrder \in Ordenes /\ proc[w].stop \in Stops
    BY <1>1, <2>1, SlotIs, NextKeepsInv
       DEF FlushStops, InsertStop, CommitPickup, DeleteStop, Inv
  <2>3. CASE FlushStops(w)
    BY <1>1, <2>2, <2>3, AddFlushIs, RemoveFlushIs, StaysOrdered
  <2>4. CASE InsertStop(w)
    <3>1. /\ orden' = [orden EXCEPT ![proc[w].stop] = proc[w].newOrder]
          /\ orden[proc[w].stop] = 0
      BY <1>1, <2>4, InsertIs
    <3>. QED  BY <2>2, <3>1, StaysOrdered
  <2>5. CASE CommitPickup(w)
    <3> DEFINE k == proc[w].newOrder
               s == proc[w].stop
    <3>1. orden' = [Moved(orden, k) EXCEPT ![s] = k] /\ orden[s] = 0
      BY <1>1, <2>5, CommitIs
    <3>2. Ordered(orden, Moved(orden, k))
      BY <2>2, StaysOrdered
    <3>3. \A t \in Present(orden) : t # s /\ orden'[t] = Moved(orden, k)[t] /\ Moved(orden, k)[t] # 0
      BY <2>2, <3>1, RouteStopAssumption DEF Present, Moved, Ordenes
    <3>. QED  BY <3>2, <3>3 DEF Ordered, Present
  <2>6. CASE DeleteStop(w)
    BY <2>2, <2>6, StaysOrdered DEF DeleteStop
  <2>. QED  BY <2>1, <2>3, <2>4, <2>5, <2>6
<1>2. Inv /\ PlacesInv /\ [Next]_vars =>
        [ "renumbering" \notin overlapped =>
          \A s, t \in Present(orden) :
              s \in Present(orden') /\ t \in Present(orden') /\ orden[s] < orden[t] =>
                  orden'[s] < orden'[t]]_orden
  BY <1>1 DEF Ordered, vars
<1>. QED  BY <1>2, StopsInvariant, PlacesInvariant, PTL DEF Spec, StopsKeepTheirPlaces

-----------------------------------------------------------------------------
(* The numbers of the stops, as each step leaves them. *)

LEMMA ValuesAre ==
    ASSUME NEW o \in [Stops -> Ordenes]
    PROVE  \A v : v \in Values(o) <=> v # 0 /\ \E s \in Stops : o[s] = v
  BY DEF Values, Present

(* planStopInsertion takes the place in the list for the number.              *)
LEMMA PlannedFits ==
    ASSUME NEW o \in [Stops -> Ordenes], Unique(o), Whole(o),
           NEW i \in InsertIndex(Cardinality(Present(o)))
    PROVE  Insertable(o, i + 1)
<1>1. PICK n \in Nat : Values(o) = 1..n
  BY DEF Whole
<1>2. Cardinality(Present(o)) = n
  BY <1>1, WholePlaces
<1>3. i + 1 \in 1..(n + 1)
  BY <1>2 DEF InsertIndex
<1>. QED  BY <1>1, <1>3 DEF Insertable

(* No stop behind the new one: its number is the next.                        *)
LEMMA LastFits ==
    ASSUME NEW o \in [Stops -> Ordenes], NEW k \in Ordenes \ {0}, Insertable(o, k),
           Shifted(o, k) = NoUpdates
    PROVE  Gapped(o, k)
<1>1. PICK n \in Nat : k \in 1..(n + 1) /\ Values(o) = 1..n
  BY DEF Insertable
<1>2. \A s \in Stops : ~(o[s] >= k)
  <2> SUFFICES ASSUME NEW s \in Stops, o[s] >= k PROVE FALSE
    OBVIOUS
  <2>1. Shifted(o, k)[s] = o[s] + 1 /\ NoUpdates[s] = 0
    BY DEF Shifted, NoUpdates
  <2>. QED  BY <2>1, RouteStopAssumption DEF Ordenes
<1>3. k = n + 1
  <2> SUFFICES ASSUME k \in 1..n PROVE FALSE
    BY <1>1
  <2>1. k \in Values(o)
    BY <1>1
  <2>2. PICK s \in Stops : o[s] = k
    BY <2>1, ValuesAre
  <2>. QED  BY <1>2, <2>2, RouteStopAssumption DEF Ordenes
<1>4. n + 1 \in Nat /\ 1..n = (1..(n + 1)) \ {n + 1} /\ k \in 1..(n + 1)
  BY <1>3
<1>. QED  BY <1>1, <1>3, <1>4 DEF Gapped

LEMMA MovedOpens ==
    ASSUME NEW o \in [Stops -> Ordenes], NEW k, Insertable(o, k)
    PROVE  Gapped(Moved(o, k), k) /\ \A s \in Stops : Moved(o, k)[s] \in Nat
<1>1. PICK n \in Nat : k \in 1..(n + 1) /\ Values(o) = 1..n
  BY DEF Insertable
<1>0. (\A s \in Stops : o[s] \in Nat) /\ k \in Nat /\ k # 0
  BY <1>1, RouteStopAssumption DEF Ordenes
<1>2. ASSUME NEW s \in Stops, Moved(o, k)[s] # 0
      PROVE  Moved(o, k)[s] \in (1..(n + 1)) \ {k}
  <2>1. o[s] # 0
    BY <1>0, <1>2 DEF Moved
  <2>2. o[s] \in 1..n
    BY <1>1, <2>1, ValuesAre
  <2>. QED  BY <1>0, <2>2 DEF Moved
<1>3. ASSUME NEW v \in (1..(n + 1)) \ {k}
      PROVE  \E s \in Stops : Moved(o, k)[s] = v
  <2>1. CASE v < k
    <3>1. v \in 1..n
      BY <1>1, <2>1
    <3>2. PICK s \in Stops : o[s] = v
      BY <1>1, <3>1, ValuesAre
    <3>. QED  BY <1>0, <2>1, <3>2 DEF Moved
  <2>2. CASE v > k
    <3>1. v - 1 \in 1..n /\ v - 1 >= k
      BY <1>0, <1>1, <2>2
    <3>2. PICK s \in Stops : o[s] = v - 1
      BY <1>1, <3>1, ValuesAre
    <3>. QED  BY <1>0, <3>1, <3>2 DEF Moved
  <2>. QED  BY <1>0, <2>1, <2>2
<1>4. Values(Moved(o, k)) = (1..(n + 1)) \ {k}
  <2>1. \A v : v \in Values(Moved(o, k)) => v \in (1..(n + 1)) \ {k}
    BY <1>2 DEF Values, Present
  <2>2. \A v \in (1..(n + 1)) \ {k} : v \in Values(Moved(o, k))
    BY <1>3 DEF Values, Present
  <2>. QED  BY <2>1, <2>2
<1>. QED  BY <1>0, <1>1, <1>4 DEF Gapped, Moved

LEMMA InsertFills ==
    ASSUME NEW o, DOMAIN o = Stops, o = [s \in Stops |-> o[s]], NEW k, Gapped(o, k), NEW s \in Stops, o[s] = 0
    PROVE  Whole([o EXCEPT ![s] = k])
<1>1. PICK n \in Nat : k \in 1..n /\ Values(o) = (1..n) \ {k}
  BY DEF Gapped
<1> DEFINE o2 == [o EXCEPT ![s] = k]
<1>2. o2[s] = k /\ \A t \in Stops \ {s} : o2[t] = o[t]
  OBVIOUS
<1>3. k # 0
  BY <1>1
<1>4. Present(o2) = Present(o) \cup {s} /\ s \notin Present(o)
  BY <1>2, <1>3 DEF Present
<1>5. Values(o2) = Values(o) \cup {k}
  <2>1. \A t \in Present(o) : o2[t] = o[t]
    BY <1>2, <1>4 DEF Present
  <2> HIDE DEF o2
  <2>. QED  BY <1>2, <1>4, <2>1 DEF Values
<1>6. Values(o2) = 1..n
  BY <1>1, <1>5
<1>. QED  BY <1>6 DEF Whole

LEMMA DeleteOpens ==
    ASSUME NEW o \in [Stops -> Ordenes], Unique(o), Whole(o), NEW s \in Present(o)
    PROVE  Gapped([o EXCEPT ![s] = 0], o[s])
<1>1. PICK n \in Nat : Values(o) = 1..n
  BY DEF Whole
<1> DEFINE o2 == [o EXCEPT ![s] = 0]
<1>2. o2[s] = 0 /\ \A t \in Stops \ {s} : o2[t] = o[t]
  BY DEF Present
<1>3. Present(o2) = Present(o) \ {s}
  BY <1>2 DEF Present
<1>4. \A t \in Present(o2) : o2[t] = o[t] /\ o[t] # o[s]
  BY <1>2, <1>3 DEF Unique, Present
<1>5. Values(o2) = Values(o) \ {o[s]}
  <2> HIDE DEF o2
  <2>. QED  BY <1>3, <1>4 DEF Values
<1>6. o[s] \in Values(o)
  BY DEF Values
<1>. QED  BY <1>1, <1>5, <1>6 DEF Gapped

LEMMA LastCloses ==
    ASSUME NEW o \in [Stops -> Ordenes], NEW k, Gapped(o, k), ClosedUp(o, k) = NoUpdates
    PROVE  Whole(o)
<1>1. PICK n \in Nat : k \in 1..n /\ Values(o) = (1..n) \ {k}
  BY DEF Gapped
<1>2. \A s \in Stops : ~(o[s] > k)
  <2> SUFFICES ASSUME NEW s \in Stops, o[s] > k PROVE FALSE
    OBVIOUS
  <2>1. ClosedUp(o, k)[s] = o[s] - 1 /\ NoUpdates[s] = 0
    BY DEF ClosedUp, NoUpdates
  <2>. QED  BY <1>1, <2>1, RouteStopAssumption DEF Ordenes
<1>3. k = n
  <2> SUFFICES ASSUME n \in Values(o) PROVE FALSE
    BY <1>1
  <2>1. PICK s \in Stops : o[s] = n
    BY ValuesAre
  <2>. QED  BY <1>1, <1>2, <2>1
<1>4. n - 1 \in Nat /\ (1..n) \ {n} = 1..(n - 1)
  BY <1>1
<1>. QED  BY <1>1, <1>3, <1>4 DEF Whole

LEMMA ClosedIsWhole ==
    ASSUME NEW o \in [Stops -> Ordenes], NEW k, Gapped(o, k)
    PROVE  Whole(Closed(o, k))
<1>1. PICK n \in Nat : k \in 1..n /\ Values(o) = (1..n) \ {k}
  BY DEF Gapped
<1>0. (\A s \in Stops : o[s] \in Nat) /\ k \in Nat
  BY <1>1, RouteStopAssumption DEF Ordenes
<1>2. ASSUME NEW s \in Stops, Closed(o, k)[s] # 0
      PROVE  Closed(o, k)[s] \in 1..(n - 1)
  <2>1. o[s] # 0
    BY <1>0, <1>2 DEF Closed
  <2>2. o[s] \in (1..n) \ {k}
    BY <1>1, <2>1, ValuesAre
  <2>. QED  BY <1>0, <1>1, <2>2 DEF Closed
<1>3. ASSUME NEW v \in 1..(n - 1)
      PROVE  \E s \in Stops : Closed(o, k)[s] = v
  <2>1. CASE v < k
    <3>1. v \in (1..n) \ {k}
      BY <1>0, <1>1, <2>1
    <3>2. PICK s \in Stops : o[s] = v
      BY <1>1, <3>1, ValuesAre
    <3>. QED  BY <1>0, <2>1, <3>2 DEF Closed
  <2>2. CASE v >= k
    <3>1. v + 1 \in (1..n) \ {k} /\ v + 1 > k
      BY <1>0, <1>1, <2>2
    <3>2. PICK s \in Stops : o[s] = v + 1
      BY <1>1, <3>1, ValuesAre
    <3>. QED  BY <1>0, <3>1, <3>2 DEF Closed
  <2>. QED  BY <1>0, <2>1, <2>2
<1>4. Values(Closed(o, k)) = 1..(n - 1)
  <2>1. \A v : v \in Values(Closed(o, k)) => v \in 1..(n - 1)
    BY <1>2 DEF Values, Present
  <2>2. \A v \in 1..(n - 1) : v \in Values(Closed(o, k))
    BY <1>3 DEF Values, Present
  <2>. QED  BY <2>1, <2>2
<1>. QED  BY <1>1, <1>4 DEF Whole

LEMMA SlotKeepsNumbers ==
    ASSUME Inv, PlacesInv, NumberInv, NEW w \in Workers, NEW p, Become(w, p),
           faults' = 0 /\ "renumbering" \notin overlapped' =>
              /\ faults = 0 /\ "renumbering" \notin overlapped
              /\ Gaps(p, orden')
              /\ \/ /\ \A v \in Workers \ {w} : ~Renumbering(v)
                    /\ ~Opened(p) => Whole(orden')
                 \/ ~Opened(proc[w]) /\ UNCHANGED orden
    PROVE  NumberInv'
<1> SUFFICES ASSUME faults' = 0, "renumbering" \notin overlapped'
             PROVE  /\ \A v \in Workers : Gaps(proc'[v], orden')
                    /\ (\A v \in Workers : ~Opened(proc'[v])) => Whole(orden')
  BY DEF NumberInv
<1>1. proc'[w] = p /\ \A v \in Workers \ {w} : proc'[v] = proc[v]
  BY Becomes
<1>2. CASE \A v \in Workers \ {w} : ~Renumbering(v)
  <2>1. \A v \in Workers \ {w} : Gaps(proc[v], orden')
    BY <1>2, OthersAreFresh
  <2>2. CASE ~Opened(p) => Whole(orden')
    BY <1>1, <2>1, <2>2
  <2>3. CASE ~Opened(proc[w]) /\ UNCHANGED orden
    <3>1. \A v \in Workers : ~Opened(proc[v])
      BY <1>2, <2>3, OthersAreFresh
    <3>. QED  BY <1>1, <2>1, <2>3, <3>1 DEF NumberInv
  <2>. QED  BY <2>2, <2>3
<1>3. CASE ~Opened(proc[w]) /\ UNCHANGED orden
  BY <1>1, <1>3 DEF NumberInv
<1>. QED  BY <1>2, <1>3

LEMMA InitialNumbers ==
    ASSUME Init
    PROVE  /\ Values(orden) = 1..Len(Published)
           /\ \A i \in 1..Len(Published) : Published[i] \in Present(orden) /\ orden[Published[i]] = i
<1> DEFINE n == Len(Published)
           At(s) == CHOOSE i \in DOMAIN Published : Published[i] = s
<1>0. orden = [s \in Stops |-> IF s \in Range(Published) THEN At(s) ELSE 0]
  BY DEF Init
<1>1. /\ \A s \in Range(Published) : At(s) \in DOMAIN Published /\ Published[At(s)] = s
      /\ \A i \in DOMAIN Published : Published[i] \in Range(Published)
  BY DEF Range
<1> HIDE DEF At
<1>2. /\ \A s \in Stops : orden[s] # 0 => orden[s] \in 1..n
      /\ \A i \in 1..n : Published[i] \in Stops /\ orden[Published[i]] = i
  BY <1>0, <1>1, PublishedIs
<1>3. Values(orden) = 1..n
  <2>1. \A v : v \in Values(orden) => v \in 1..n
    BY <1>2 DEF Values, Present
  <2>2. \A v \in 1..n : v \in Values(orden)
    BY <1>2 DEF Values, Present
  <2>. QED  BY <2>1, <2>2
<1>. QED  BY <1>2, <1>3 DEF Present

LEMMA InitNumbers == Init => NumberInv
<1> SUFFICES ASSUME Init PROVE NumberInv
  OBVIOUS
<1>1. proc = [w \in Workers |-> Idle] /\ Inv
  BY InitInv DEF Init
<1>2. \A w \in Workers : ~Renumbering(w)
  BY <1>1, IdleIsFresh DEF Renumbering
<1>3. Whole(orden)
  BY InitialNumbers, PublishedIs DEF Whole
<1>. QED  BY <1>1, <1>2, <1>3, OthersAreFresh DEF NumberInv

LEMMA CallsKeepNumbers ==
    ASSUME Inv, PlacesInv, NumberInv, NEW w \in Workers, NEW s \in Stops,
           \/ \E i \in 0..Cardinality(Stops) : AddRouteStop(w, s, i) \/ BookPickup(w, s, i)
           \/ RemovePickup(w, s)
    PROVE  NumberInv'
<1>1. ASSUME NEW op, Called(w, op), faults = 0, "renumbering" \notin overlapped'
      PROVE  /\ Whole(orden) /\ "renumbering" \notin overlapped
             /\ \A v \in Workers : ~Renumbering(v)
  <2>1. \A v \in Workers : ~Renumbering(v)
    BY <1>1, CalledIs
  <2>. QED  BY <1>1, <2>1, CalledIs, OthersAreFresh DEF NumberInv
<1>2. ASSUME NEW i, NEW op \in {"addRouteStop", "createBooking"},
             NEW at \in {"insert", "reload", "commit"}, at = "commit" <=> op = "createBooking",
             at = "insert" => Shifted(orden, i + 1) = NoUpdates,
             Called(w, op), s \in Free, i \in InsertIndex(Cardinality(Present(orden))),
             Plan(w, op, at, s, i), UNCHANGED <<orden, faults>>
      PROVE  NumberInv'
  <2>1. PICK p \in Proc : /\ Become(w, p) /\ p.op = op /\ p.at = at
                          /\ p.newOrder = i + 1 /\ p.newOrder \in Ordenes \ {0}
    BY <1>2, PlanIs
  <2>2. ASSUME Whole(orden) PROVE Gaps(p, orden)
    <3>1. Insertable(orden, i + 1) /\ orden \in [Stops -> Ordenes]
      BY <1>2, <2>2, PlannedFits, SlotIs
    <3>2. at = "insert" => Gapped(orden, i + 1)
      BY <1>2, <2>1, <3>1, LastFits
    <3>. QED  BY <1>2, <2>1, <3>1, <3>2 DEF Gaps, Opened, Removing
  <2>. QED  BY <1>1, <1>2, <2>1, <2>2, SlotKeepsNumbers
<1>3. ASSUME NEW i, AddRouteStop(w, s, i) PROVE NumberInv'
  BY <1>2, <1>3 DEF AddRouteStop
<1>4. ASSUME NEW i, BookPickup(w, s, i) PROVE NumberInv'
  BY <1>2, <1>4 DEF BookPickup
<1>5. CASE RemovePickup(w, s)
  <2> DEFINE p == [Call("markNoShow", "delete") EXCEPT !.stop = s, !.newOrder = orden[s]]
  <2>0. Called(w, "markNoShow") /\ UNCHANGED <<orden, faults>>
    BY <1>5 DEF RemovePickup
  <2>1. CASE orden[s] = 0
    <3>1. UNCHANGED proc
      BY <1>5, <2>1 DEF RemovePickup
    <3>. QED  BY <2>0, <3>1, CalledIs DEF NumberInv
  <2>2. CASE orden[s] # 0
    <3>1. Whole(orden) => Gaps(p, orden)
      BY DEF Gaps, Opened, Removing, Adding, Call, Idle
    <3>2. ~Opened(p) /\ Become(w, p)
      BY <1>5, <2>2 DEF RemovePickup, Opened, Removing, Call, Idle
    <3>. QED  BY <1>1, <2>0, <3>1, <3>2, SlotKeepsNumbers
  <2>. QED  BY <2>1, <2>2
<1>. QED  BY <1>3, <1>4, <1>5

LEMMA IdleHasNoGap == \A o : Gaps(Idle, o) /\ ~Opened(Idle)
  BY DEF Gaps, Opened, Removing, Adding, Idle

\* The number of an opened gap is that of no stop.
LEMMA GapIsFree ==
    ASSUME Inv, NEW k, Gapped(orden, k)
    PROVE  ~\E s \in Stops : orden[s] = k
<1>1. k # 0 /\ k \notin Values(orden)
  BY DEF Gapped
<1>. QED  BY <1>1, SlotIs, ValuesAre DEF Inv, TypeOK

LEMMA ContinuesKeepNumbers ==
    ASSUME Inv, PlacesInv, NumberInv, NEW w \in Workers,
           \/ ReloadStops(w) \/ FlushStops(w) \/ InsertStop(w) \/ CommitPickup(w)
           \/ DeleteStop(w) \/ ReadRemaining(w) \/ ReadPath(w) \/ DrawPolyline(w)
           \/ Fail(w)
    PROVE  NumberInv'
<1> DEFINE p == proc[w]
           k == p.newOrder
<1>1. CASE Fail(w)
  <2>1. faults' # 0
    BY <1>1, RouteStopAssumption DEF Fail, Inv, TypeOK
  <2>. QED  BY <2>1 DEF NumberInv
<1>2. CASE ~Fail(w)
  <2>0. UNCHANGED <<faults, overlapped>>
    BY <1>2 DEF ReloadStops, FlushStops, InsertStop, CommitPickup, DeleteStop, ReadRemaining,
                ReadPath, DrawPolyline
  <2>1. CASE ~(faults = 0 /\ "renumbering" \notin overlapped)
    BY <2>0, <2>1 DEF NumberInv
  <2>2. CASE faults = 0 /\ "renumbering" \notin overlapped
    <3>0. /\ Gaps(p, orden) /\ p \in Proc /\ Shape(p)
          /\ orden \in [Stops -> Ordenes] /\ Unique(orden)
      BY <2>2, SlotIs DEF NumberInv, Inv, TypeOK
    <3>a. ASSUME UNCHANGED orden, Become(w, Idle), ~Opened(p) PROVE NumberInv'
      BY <2>0, <2>2, <3>a, IdleHasNoGap, SlotKeepsNumbers
    <3>1. CASE ReloadStops(w)
      <4> DEFINE r == [p EXCEPT !.at = "flush", !.known = Present(orden), !.updates = Changed(orden, @)]
      <4>1. Become(w, r) /\ UNCHANGED orden /\ p.at = "reload" /\ Renumbering(w)
        BY <2>2, <3>1, ReloadIs DEF ReloadStops
      <4>2. /\ r.at = "flush" /\ r.op = p.op /\ r.newOrder = p.newOrder
            /\ (Opened(r) <=> Opened(p)) /\ Gaps(r, orden)
        BY <3>0, <4>1 DEF Proc, Opened, Removing, Adding, Gaps
      <4>3. \A v \in Workers \ {w} : ~Renumbering(v)
        BY <2>2, <4>1, OneRenumbers
      <4>4. ~Opened(r) => Whole(orden)
        <5>1. (\A v \in Workers : ~Opened(proc[v])) => Whole(orden)
          BY <2>2 DEF NumberInv
        <5>. QED  BY <4>2, <4>3, <5>1, OthersAreFresh
      <4>. QED  BY <2>0, <2>2, <4>1, <4>2, <4>3, <4>4, SlotKeepsNumbers
    <3>2. CASE FlushStops(w) /\ p.op # "markNoShow"
      <4> DEFINE r == [p EXCEPT !.updates = NoUpdates, !.known = {}, !.at = "insert"]
      <4>1. SUFFICES ASSUME orden' = Moved(orden, k), Become(w, r)
                     PROVE  NumberInv'
        BY <2>2, <3>2, <3>a, AddFlushIs
      <4>2. Renumbering(w) /\ Insertable(orden, k)
        BY <2>2, <3>0, <3>2, AddFlushIs DEF Gaps
      <4>3. Gapped(orden', k)
        BY <3>0, <4>1, <4>2, MovedOpens
      <4>4. Opened(r) /\ Gaps(r, orden')
        BY <3>0, <4>3 DEF Opened, Gaps, Proc
      <4>. QED  BY <2>0, <2>2, <4>1, <4>2, <4>4, OneRenumbers, SlotKeepsNumbers
    <3>3. CASE FlushStops(w) /\ p.op = "markNoShow"
      <4> DEFINE r == [p EXCEPT !.updates = NoUpdates, !.known = {}, !.at = "refresh"]
      <4>1. Renumbering(w) /\ Gapped(orden, k)
        BY <2>2, <3>0, <3>3, RemoveFlushIs DEF Gaps
      <4>2. orden' = Closed(orden, k) /\ Become(w, r)
        BY <2>2, <3>3, <4>1, GapIsFree, RemoveFlushIs
      <4>3. Whole(orden')
        BY <3>0, <4>1, <4>2, ClosedIsWhole
      <4>4. Gaps(r, orden')
        BY <3>0 DEF Opened, Gaps, Proc, Removing, Adding
      <4>. QED  BY <2>0, <2>2, <4>1, <4>2, <4>3, <4>4, OneRenumbers, SlotKeepsNumbers
    <3>4. CASE InsertStop(w)
      <4> DEFINE r == [p EXCEPT !.at = "refresh"]
      <4>1. Renumbering(w) /\ Gapped(orden, k) /\ orden[p.stop] = 0 /\ p.stop \in Stops
        BY <2>2, <3>0, <3>4, InsertIs, SlotIs DEF Gaps, InsertStop
      <4>2. orden' = [orden EXCEPT ![p.stop] = k] /\ Become(w, r)
        BY <2>2, <3>4, <4>1, GapIsFree, InsertIs
      <4>3. Whole(orden')
        BY <3>0, <4>1, <4>2, InsertFills
      <4>4. Gaps(r, orden')
        BY <3>0 DEF Opened, Gaps, Proc, Removing, Adding
      <4>. QED  BY <2>0, <2>2, <4>1, <4>2, <4>3, <4>4, OneRenumbers, SlotKeepsNumbers
    <3>5. CASE CommitPickup(w)
      <4> DEFINE r == [p EXCEPT !.at = "refresh", !.updates = NoUpdates]
                 moved == Moved(orden, k)
      <4>1. SUFFICES ASSUME orden' = [moved EXCEPT ![p.stop] = k], Become(w, r)
                     PROVE  NumberInv'
        BY <2>2, <3>5, <3>a, CommitIs
      <4>2. /\ Renumbering(w) /\ Insertable(orden, k) /\ orden[p.stop] = 0
            /\ p.stop \in Stops /\ k \in Ordenes \ {0}
        BY <2>2, <3>0, <3>5, CommitIs, SlotIs DEF Gaps, CommitPickup
      <4>3. Gapped(moved, k)
        BY <3>0, <4>2, MovedOpens
      <4>4. DOMAIN moved = Stops /\ moved = [s \in Stops |-> moved[s]] /\ moved[p.stop] = 0
        BY <4>2, RouteStopAssumption DEF Moved, Ordenes
      <4>5. Whole(orden')
        BY <4>1, <4>2, <4>3, <4>4, InsertFills
      <4>6. Gaps(r, orden')
        BY <3>0 DEF Opened, Gaps, Proc, Removing, Adding
      <4>. QED  BY <2>0, <2>2, <4>1, <4>2, <4>5, <4>6, OneRenumbers, SlotKeepsNumbers
    <3>6. CASE DeleteStop(w)
      <4> DEFINE r == [p EXCEPT !.at = "remaining"]
      <4>1. /\ orden' = [orden EXCEPT ![p.stop] = 0] /\ Become(w, r)
            /\ p.at = "delete" /\ Renumbering(w)
        BY <3>6 DEF DeleteStop, Renumbering, Busy, Stages
      <4>2. Whole(orden) /\ orden[p.stop] = k /\ p.stop \in Present(orden)
        BY <3>0, <4>1, SlotIs DEF Gaps, Present
      <4>3. Gapped(orden', k)
        BY <3>0, <4>1, <4>2, DeleteOpens
      <4>4. Opened(r) /\ Gaps(r, orden')
        BY <3>0, <4>3 DEF Opened, Removing, Gaps, Proc
      <4>. QED  BY <2>0, <2>2, <4>1, <4>4, OneRenumbers, SlotKeepsNumbers
    <3>7. CASE ReadRemaining(w)
      <4> DEFINE u == ClosedUp(orden, k)
                 r == [p EXCEPT !.updates = u, !.at = IF u = NoUpdates THEN "refresh" ELSE "reload"]
      <4>1. /\ Become(w, r) /\ UNCHANGED orden /\ Renumbering(w)
            /\ p.op = "markNoShow" /\ p.at = "remaining"
        BY <3>7, SlotIs DEF ReadRemaining, Renumbering, Busy, Stages, Shape
      <4>2. Gapped(orden, k)
        BY <3>0, <4>1 DEF Gaps, Opened, Removing
      <4>3. Gaps(r, orden) /\ (~Opened(r) => Whole(orden))
        <5>1. CASE u = NoUpdates
          BY <3>0, <4>2, <5>1, LastCloses DEF Gaps, Opened, Removing, Adding, Proc
        <5>2. CASE u # NoUpdates
          BY <3>0, <4>1, <4>2, <5>2 DEF Gaps, Opened, Removing, Adding, Proc
        <5>. QED  BY <5>1, <5>2
      <4>. QED  BY <2>0, <2>2, <4>1, <4>3, OneRenumbers, SlotKeepsNumbers
    <3>8. CASE ReadPath(w)
      <4> DEFINE r == [p EXCEPT !.at = "draw", !.path = Path(orden)]
      <4>1. Become(w, r) /\ UNCHANGED orden /\ p.at = "refresh"
        BY <3>8 DEF ReadPath
      <4>2. Gaps(r, orden) /\ ~Opened(p)
        BY <3>0, <4>1 DEF Gaps, Opened, Removing, Adding, Proc
      <4>. QED  BY <2>0, <2>2, <4>1, <4>2, SlotKeepsNumbers
    <3>9. CASE DrawPolyline(w)
      <4>1. ~Opened(p) /\ UNCHANGED orden /\ Become(w, Idle)
        BY <3>9 DEF DrawPolyline, Opened, Removing, Done
      <4>. QED  BY <3>a, <4>1
    <3>. QED  BY <1>2, <3>1, <3>2, <3>3, <3>4, <3>5, <3>6, <3>7, <3>8, <3>9
  <2>. QED  BY <2>1, <2>2
<1>. QED  BY <1>1, <1>2

LEMMA NextKeepsNumbers == Inv /\ PlacesInv /\ NumberInv /\ [Next]_vars => NumberInv'
<1>1. ASSUME Inv, PlacesInv, NumberInv, Next PROVE NumberInv'
  BY <1>1, CallsKeepNumbers, ContinuesKeepNumbers DEF Next
<1>2. ASSUME NumberInv, UNCHANGED vars PROVE NumberInv'
  BY <1>2 DEF vars, NumberInv
<1>. QED  BY <1>1, <1>2

THEOREM NumbersInvariant == Spec => []NumberInv
<1>. QED  BY StopsInvariant, PlacesInvariant, InitNumbers, NextKeepsNumbers, PTL DEF Spec

-----------------------------------------------------------------------------
(* The polyline. *)

\* The published stops are two at least, and a path through them is drawn.
LEMMA PathIsDrawn ==
    ASSUME Inv
    PROVE  Len(Path(orden)) \in Nat /\ Len(Path(orden)) >= 2
<1> DEFINE a == Published[1]
           b == Published[2]
<1>1. a \in Range(Published) /\ b \in Range(Published) /\ a # b
  BY PublishedIs DEF Range
<1>2. a \in Present(orden) /\ b \in Present(orden) /\ orden[a] # orden[b]
  BY <1>1 DEF Inv, Unique, Present
<1>3. orden \in [Stops -> Ordenes] /\ Unique(orden) /\ orden[a] \in Nat /\ orden[b] \in Nat
  BY <1>2, RouteStopAssumption DEF Inv, TypeOK, Present, Ordenes
<1>4. orden[a] < orden[b] \/ orden[b] < orden[a]
  BY <1>2, <1>3
<1>5. /\ Place(orden, a) \in 1..Cardinality(Present(orden))
      /\ Place(orden, b) \in 1..Cardinality(Present(orden))
      /\ Place(orden, a) < Place(orden, b) \/ Place(orden, b) < Place(orden, a)
  BY <1>2, <1>3, <1>4, PlacesAre
<1>6. Cardinality(Present(orden)) \in Nat
  BY <1>3, PlacesAre
<1>7. Cardinality(Present(orden)) >= 2
  BY <1>5, <1>6
<1>. QED  BY <1>3, <1>6, <1>7, PathIs

LEMMA InitPolyline == Init => PolylineInv
<1> SUFFICES ASSUME Init PROVE PolylineInv
  OBVIOUS
<1> DEFINE n == Len(Published)
<1>1. /\ proc = [w \in Workers |-> Idle] /\ polyline = Published
      /\ Inv /\ orden \in [Stops -> Ordenes] /\ Unique(orden)
  BY InitInv DEF Init, Inv, TypeOK
<1>2. n \in Nat /\ Cardinality(Present(orden)) = n /\ \A s \in Present(orden) : Place(orden, s) = orden[s]
  BY <1>1, InitialNumbers, WholePlaces, PublishedIs
<1>3. ASSUME NEW i \in 1..n PROVE (CHOOSE s \in Present(orden) : Place(orden, s) = i) = Published[i]
  <2>1. Published[i] \in Present(orden) /\ Place(orden, Published[i]) = i
    BY <1>2, InitialNumbers
  <2>2. \A s \in Present(orden) : Place(orden, s) = i => s = Published[i]
    BY <1>1, <1>2, <2>1 DEF Unique, Present
  <2>. QED  BY <2>1, <2>2
<1>4. Path(orden) = [i \in 1..n |-> Published[i]]
  BY <1>2, <1>3 DEF Path
<1>5. Published = [i \in 1..n |-> Published[i]]
  BY RouteStopAssumption
<1>6. \A w \in Workers : proc[w].at = "idle"
  BY <1>1, IdleIsFresh
<1>. QED  BY <1>1, <1>4, <1>5, <1>6 DEF PolylineInv

LEMMA SlotKeepsPolyline ==
    ASSUME Inv, NEW w \in Workers, NEW p, Become(w, p),
           faults' = 0 /\ overlapped' = {} =>
              /\ \A v \in Workers \ {w} : proc[v].at = "idle"
              /\ Unwritten(p) => polyline' = Path(orden')
              /\ p.at = "draw" => p.path = Path(orden')
    PROVE  PolylineInv'
<1>1. proc'[w] = p /\ \A v \in Workers \ {w} : proc'[v] = proc[v]
  BY Becomes
<1>. QED  BY <1>1 DEF PolylineInv

LEMMA CallsKeepPolyline ==
    ASSUME Inv, PolylineInv, NEW w \in Workers, NEW s \in Stops,
           \/ \E i \in 0..Cardinality(Stops) : AddRouteStop(w, s, i) \/ BookPickup(w, s, i)
           \/ RemovePickup(w, s)
    PROVE  PolylineInv'
<1>1. ASSUME NEW op, Called(w, op), faults = 0, overlapped' = {}
      PROVE  polyline = Path(orden) /\ \A v \in Workers : proc[v].at = "idle"
  <2>1. overlapped = {} /\ \A v \in Workers : proc[v].at = "idle"
    BY <1>1, CalledIs
  <2>. QED  BY <1>1, <2>1 DEF PolylineInv, Unwritten
<1>2. ASSUME NEW op, Called(w, op), UNCHANGED <<orden, polyline, faults>>,
             NEW p, Become(w, p), p.at # "draw"
      PROVE  PolylineInv'
  BY <1>1, <1>2, SlotKeepsPolyline
<1>3. ASSUME NEW i, AddRouteStop(w, s, i) PROVE PolylineInv'
  <2>1. PICK p \in Proc : Become(w, p) /\ p.at # "draw"
    BY <1>3, PlanIs DEF AddRouteStop
  <2>. QED  BY <1>2, <1>3, <2>1 DEF AddRouteStop
<1>4. ASSUME NEW i, BookPickup(w, s, i) PROVE PolylineInv'
  <2>1. PICK p \in Proc : Become(w, p) /\ p.at # "draw"
    BY <1>4, PlanIs DEF BookPickup
  <2>. QED  BY <1>2, <1>4, <2>1 DEF BookPickup
<1>5. CASE RemovePickup(w, s)
  <2> DEFINE p == [Call("markNoShow", "delete") EXCEPT !.stop = s, !.newOrder = orden[s]]
  <2>0. Called(w, "markNoShow") /\ UNCHANGED <<orden, polyline, faults>>
    BY <1>5 DEF RemovePickup
  <2>1. CASE orden[s] = 0
    <3>1. UNCHANGED proc
      BY <1>5, <2>1 DEF RemovePickup
    <3>. QED  BY <1>1, <2>0, <3>1 DEF PolylineInv
  <2>2. CASE orden[s] # 0
    <3>1. Become(w, p) /\ p.at # "draw"
      BY <1>5, <2>2 DEF RemovePickup, Call, Idle
    <3>. QED  BY <1>2, <2>0, <3>1
  <2>. QED  BY <2>1, <2>2
<1>. QED  BY <1>3, <1>4, <1>5

LEMMA ContinuesKeepPolyline ==
    ASSUME Inv, PlacesInv, NumberInv, PolylineInv, NEW w \in Workers,
           \/ ReloadStops(w) \/ FlushStops(w) \/ InsertStop(w) \/ CommitPickup(w)
           \/ DeleteStop(w) \/ ReadRemaining(w) \/ ReadPath(w) \/ DrawPolyline(w)
           \/ Fail(w)
    PROVE  PolylineInv'
<1> DEFINE p == proc[w]
<1>1. CASE Fail(w)
  <2>1. faults' # 0
    BY <1>1, RouteStopAssumption DEF Fail, Inv, TypeOK
  <2>. QED  BY <2>1 DEF PolylineInv
<1>2. CASE ~Fail(w)
  <2>0. UNCHANGED <<faults, overlapped>> /\ p.at # "idle"
    BY <1>2 DEF ReloadStops, FlushStops, InsertStop, CommitPickup, DeleteStop, ReadRemaining,
                ReadPath, DrawPolyline
  <2>1. CASE ~(faults = 0 /\ overlapped = {})
    BY <2>0, <2>1 DEF PolylineInv
  <2>2. CASE faults = 0 /\ overlapped = {}
    <3>0. /\ Gaps(p, orden) /\ "renumbering" \notin overlapped
          /\ p \in Proc /\ Shape(p)
      BY <2>2, SlotIs DEF NumberInv
    <3>1. /\ \A v \in Workers \ {w} : proc[v].at = "idle"
          /\ Unwritten(p) => polyline = Path(orden)
      BY <2>0, <2>2 DEF PolylineInv, Unwritten
    <3>2. ASSUME NEW r, Become(w, r), ~Unwritten(r), r.at # "draw" PROVE PolylineInv'
      BY <3>1, <3>2, SlotKeepsPolyline
    <3>3. ASSUME NEW r, Become(w, r), UNCHANGED <<orden, polyline>>, Unwritten(p), r.at # "draw"
          PROVE  PolylineInv'
      BY <3>1, <3>3, SlotKeepsPolyline
    <3>4. CASE ReloadStops(w)
      <4> DEFINE r == [p EXCEPT !.at = "flush", !.known = Present(orden), !.updates = Changed(orden, @)]
      <4>1. Become(w, r) /\ UNCHANGED <<orden, polyline>> /\ r.at = "flush" /\ r.op = p.op
        BY <3>0, <3>4 DEF ReloadStops, Proc
      <4>2. CASE Unwritten(p)
        BY <3>3, <4>1, <4>2
      <4>3. CASE ~Unwritten(p)
        <5>1. ~Unwritten(r)
          BY <3>0, <3>4, <4>1, <4>3 DEF ReloadStops, Unwritten, Adding, Opened, Removing
        <5>. QED  BY <3>2, <4>1, <5>1
      <4>. QED  BY <4>2, <4>3
    <3>5. CASE FlushStops(w) /\ p.op # "markNoShow"
      <4> DEFINE r == [p EXCEPT !.updates = NoUpdates, !.known = {}, !.at = "insert"]
      <4>1. UNCHANGED polyline /\ Unwritten(p)
        BY <3>0, <3>5, AddFlushIs DEF FlushStops, Unwritten
      <4>2. CASE UNCHANGED orden /\ Become(w, Idle)
        BY <3>3, <4>1, <4>2, IdleIsFresh
      <4>3. CASE Become(w, r)
        <5>1. ~Unwritten(r) /\ r.at # "draw"
          BY <3>0 DEF Unwritten, Opened, Proc
        <5>. QED  BY <3>2, <4>3, <5>1
      <4>. QED  BY <3>0, <3>5, <4>2, <4>3, AddFlushIs
    <3>6. CASE FlushStops(w) /\ p.op = "markNoShow"
      <4> DEFINE r == [p EXCEPT !.updates = NoUpdates, !.known = {}, !.at = "refresh"]
      <4>1. Gapped(orden, p.newOrder)
        BY <3>0, <3>6, RemoveFlushIs DEF Gaps
      <4>2. Become(w, r)
        BY <3>0, <3>6, <4>1, GapIsFree, RemoveFlushIs
      <4>3. ~Unwritten(r) /\ r.at # "draw"
        BY <3>0 DEF Unwritten, Adding, Proc
      <4>. QED  BY <3>2, <4>2, <4>3
    <3>7. CASE InsertStop(w)
      <4> DEFINE r == [p EXCEPT !.at = "refresh"]
      <4>1. Gapped(orden, p.newOrder)
        BY <3>0, <3>7, InsertIs DEF Gaps
      <4>2. Become(w, r)
        BY <3>0, <3>7, <4>1, GapIsFree, InsertIs
      <4>3. ~Unwritten(r) /\ r.at # "draw"
        BY <3>0 DEF Unwritten, Adding, Proc
      <4>. QED  BY <3>2, <4>2, <4>3
    <3>8. CASE CommitPickup(w)
      <4> DEFINE r == [p EXCEPT !.at = "refresh", !.updates = NoUpdates]
      <4>1. UNCHANGED polyline /\ Unwritten(p)
        BY <3>0, <3>8, CommitIs DEF CommitPickup, Unwritten
      <4>2. CASE UNCHANGED orden /\ Become(w, Idle)
        BY <3>3, <4>1, <4>2, IdleIsFresh
      <4>3. CASE Become(w, r)
        <5>1. ~Unwritten(r) /\ r.at # "draw"
          BY <3>0 DEF Unwritten, Adding, Proc
        <5>. QED  BY <3>2, <4>3, <5>1
      <4>. QED  BY <3>0, <3>8, <4>2, <4>3, CommitIs
    <3>9. CASE DeleteStop(w)
      <4> DEFINE r == [p EXCEPT !.at = "remaining"]
      <4>1. Become(w, r) /\ ~Unwritten(r) /\ r.at # "draw"
        BY <3>0, <3>9 DEF DeleteStop, Unwritten, Adding, Proc
      <4>. QED  BY <3>2, <4>1
    <3>10. CASE ReadRemaining(w)
      <4> DEFINE u == ClosedUp(orden, p.newOrder)
                 r == [p EXCEPT !.updates = u, !.at = IF u = NoUpdates THEN "refresh" ELSE "reload"]
      <4>1. Become(w, r) /\ p.op = "markNoShow"
        BY <3>0, <3>10 DEF ReadRemaining, Shape
      <4>2. ~Unwritten(r) /\ r.at # "draw"
        BY <3>0, <4>1 DEF Unwritten, Adding, Proc
      <4>. QED  BY <3>2, <4>1, <4>2
    <3>11. CASE ReadPath(w)
      <4> DEFINE r == [p EXCEPT !.at = "draw", !.path = Path(orden)]
      <4>1. Become(w, r) /\ UNCHANGED orden /\ ~Unwritten(r) /\ r.path = Path(orden)
        BY <3>0, <3>11 DEF ReadPath, Unwritten, Adding, Proc
      <4>. QED  BY <3>1, <4>1, SlotKeepsPolyline
    <3>12. CASE DrawPolyline(w)
      <4>1. p.path = Path(orden) /\ UNCHANGED orden /\ Become(w, Idle)
        BY <2>2, <3>12 DEF DrawPolyline, PolylineInv, Done
      <4>2. polyline' = Path(orden)
        BY <3>12, <4>1, PathIsDrawn DEF DrawPolyline
      <4>. QED  BY <3>1, <4>1, <4>2, IdleIsFresh, SlotKeepsPolyline
    <3>. QED  BY <1>2, <3>4, <3>5, <3>6, <3>7, <3>8, <3>9, <3>10, <3>11, <3>12
  <2>. QED  BY <2>1, <2>2
<1>. QED  BY <1>1, <1>2

LEMMA NextKeepsPolyline ==
    Inv /\ PlacesInv /\ NumberInv /\ PolylineInv /\ [Next]_vars => PolylineInv'
<1>1. ASSUME Inv, PlacesInv, NumberInv, PolylineInv, Next PROVE PolylineInv'
  BY <1>1, CallsKeepPolyline, ContinuesKeepPolyline DEF Next
<1>2. ASSUME PolylineInv, UNCHANGED vars PROVE PolylineInv'
  BY <1>2 DEF vars, PolylineInv
<1>. QED  BY <1>1, <1>2

THEOREM PolylineInvariant == Spec => []PolylineInv
<1>. QED  BY StopsInvariant, PlacesInvariant, NumbersInvariant, InitPolyline, NextKeepsPolyline,
             PTL DEF Spec

(* PolylineFollowsStops: with one handler renumbering at a time, and none     *)
(* lost, the stops are numbered 1, 2, 3 once nobody renumbers; with one       *)
(* handler at a time, the polyline is the path through them.                  *)
THEOREM PolylineFollows == Spec => []PolylineFollowsStops
<1>1. Inv /\ NumberInv /\ Numbered => Values(orden) = 1..Cardinality(Present(orden))
  <2> SUFFICES ASSUME Inv, NumberInv, Numbered
               PROVE  Values(orden) = 1..Cardinality(Present(orden))
    OBVIOUS
  <2>1. \A w \in Workers : ~Opened(proc[w])
    BY OthersAreFresh DEF Numbered, Renumbering
  <2>2. PICK n \in Nat : Values(orden) = 1..n
    BY <2>1 DEF Numbered, NumberInv, Whole
  <2>. QED  BY <2>2, SlotIs, WholePlaces DEF Inv, TypeOK
<1>2. PolylineInv /\ Quiet => polyline = Path(orden)
  BY DEF PolylineInv, Quiet, Unwritten
<1>3. Inv /\ NumberInv /\ PolylineInv => PolylineFollowsStops
  BY <1>1, <1>2 DEF PolylineFollowsStops, Values
<1>. QED  BY <1>3, StopsInvariant, NumbersInvariant, PolylineInvariant, PTL

=============================================================================
