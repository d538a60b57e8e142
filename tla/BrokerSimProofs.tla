-------------------------- MODULE BrokerSimProofs ---------------------------
(***************************************************************************)
(* The type invariant of BrokerSim for any runs of the paper broker, and   *)
(* for runs that follow one another (Serial, which is what the lock of the *)
(* job gives): a batch is applied once, its orders reach their targets and *)
(* never overshoot, and cash, positions and fills balance.                 *)
(*                                                                         *)
(* Between two runs the balance is a fact about the tables alone           *)
(* (Settled).  During a run part of it is in the local variables: the cash *)
(* that is not persisted yet, the chunk that is traded and has no fill     *)
(* (Books).  The other parts of IInv say what a run knows: that its batch  *)
(* is not applied yet (Fresh), that the position it read is still the one  *)
(* in the table (Ready), and which orders it has behind it (Progress).     *)
(*                                                                         *)
(* A lemma for each step says what it makes of the local variables; the    *)
(* lemmas on the invariant are over these.  From the invariant it follows  *)
(* that the broker implements Rebalance (ImplementsRebalance).             *)
(***************************************************************************)
EXTENDS BrokerSim, FiniteSetTheorems, TLAPS

-----------------------------------------------------------------------------
(* Sums of the values of a function over a finite set, and the maximum of  *)
(* a bounded set of numbers.                                               *)
(*                                                                         *)
(* SumFunctionOnSet is a recursive function over the subsets of its set.   *)
(* Induction on these is done with the smallest subset that has not the    *)
(* property: strict inclusion among the subsets of a finite set is well    *)
(* founded.                                                                *)

(* One step of the recursion.                                              *)
SumStep(f, g, s) ==
  IF s = {} THEN 0
  ELSE f[CHOOSE x \in s : TRUE] + g[s \ {CHOOSE x \in s : TRUE}]

(* g sums f up over every subset of S.                                     *)
SumsUp(f, S, g) == g = [s \in SUBSET S |-> SumStep(f, g, s)]

(* The fold of the library, as one choice of a recursive function.         *)
LEMMA SumIsChosen ==
  ASSUME NEW f, NEW S
  PROVE  SumFunctionOnSet(f, S) = (CHOOSE g : SumsUp(f, S, g))[S]
BY DEF SumFunctionOnSet, FoldFunctionOnSet, MapThenFoldSet, SumsUp, SumStep

(* A set of subsets of a finite set, if not empty, has a smallest member.  *)
LEMMA SmallestSubset ==
  ASSUME NEW S, IsFiniteSet(S), NEW B, B \subseteq SUBSET S, B # {}
  PROVE  \E s \in B : \A t \in B : t \subseteq s => t = s
<1>1. IsWellFoundedOn(StrictSubsetOrdering(S), SUBSET S)
  BY FS_StrictSubsetOrderingWellFounded, FS_FiniteSubsetsOfFinite
<1>2. PICK s \in B : \A t \in B : <<t, s>> \notin StrictSubsetOrdering(S)
  BY <1>1, WFMin
<1>3. \A t \in B : t \subseteq s => t = s
  BY <1>2 DEF StrictSubsetOrdering
<1> QED BY <1>3

(* Two such functions agree wherever both are defined.                     *)
LEMMA SumsAgree ==
  ASSUME NEW f, NEW S, IsFiniteSet(S), NEW T, NEW U, S \subseteq T, S \subseteq U,
         NEW g, NEW h, SumsUp(f, T, g), SumsUp(f, U, h)
  PROVE  \A s \in SUBSET S : g[s] = h[s]
<1> DEFINE B == {s \in SUBSET S : g[s] # h[s]}
<1> SUFFICES ASSUME B # {}
             PROVE  FALSE
  OBVIOUS
<1>1. PICK s \in B : \A t \in B : t \subseteq s => t = s
  <2> HIDE DEF B
  <2> B \subseteq SUBSET S  BY DEF B
  <2> QED BY SmallestSubset
<1>2. g[s] = SumStep(f, g, s) /\ h[s] = SumStep(f, h, s)
  <2>1. s \in SUBSET T /\ s \in SUBSET U
    OBVIOUS
  <2> QED BY <2>1 DEF SumsUp
<1>3. s # {}
  BY <1>2, <1>1 DEF SumStep
<1> DEFINE x == CHOOSE x \in s : TRUE
<1>4. x \in s
  BY <1>3
<1>5. s \ {x} \notin B
  BY <1>1, <1>4
<1>6. g[s \ {x}] = h[s \ {x}]
  BY <1>5
<1> QED BY <1>1, <1>2, <1>3, <1>6 DEF SumStep

(* There is such a function for every finite set.                          *)
LEMMA SumExists ==
  ASSUME NEW f, NEW S, IsFiniteSet(S)
  PROVE  \E g : SumsUp(f, S, g)
<1> DEFINE B == {s \in SUBSET S : ~\E g : SumsUp(f, s, g)}
<1> SUFFICES ASSUME B # {}
             PROVE  FALSE
  OBVIOUS
<1>1. PICK s \in B : \A t \in B : t \subseteq s => t = s
  <2> HIDE DEF B
  <2> B \subseteq SUBSET S  BY DEF B
  <2> QED BY SmallestSubset
<1> DEFINE G(t) == CHOOSE g : SumsUp(f, t, g)
           Rest(t) == t \ {CHOOSE x \in t : TRUE}
           h == [t \in SUBSET s |->
                   IF t = {} THEN 0
                   ELSE f[CHOOSE x \in t : TRUE] + G(Rest(t))[Rest(t)]]
<1>2. ASSUME NEW t \in SUBSET s, t # s
      PROVE  SumsUp(f, t, G(t)) /\ IsFiniteSet(t)
  <2>1. t \in SUBSET S /\ t \notin B
    BY <1>1, <1>2
  <2>2. IsFiniteSet(t)
    BY <2>1, FS_Subset
  <2> QED BY <2>1, <2>2
<1>3. ASSUME NEW t \in SUBSET s, t # {}
      PROVE  Rest(t) \in SUBSET s /\ Rest(t) # s
  BY <1>3
<1> HIDE DEF G
<1>4. ASSUME NEW t \in SUBSET s, t # s
      PROVE  h[t] = G(t)[t]
  <2>1. SumsUp(f, t, G(t)) /\ IsFiniteSet(t)
    BY <1>2, <1>4
  <2>2. G(t)[t] = SumStep(f, G(t), t)
    <3>1. t \in SUBSET t
      OBVIOUS
    <3> QED BY <2>1, <3>1 DEF SumsUp
  <2>3. CASE t = {}
    BY <2>2, <2>3 DEF SumStep
  <2>4. CASE t # {}
    <3>1. Rest(t) \in SUBSET s /\ Rest(t) # s /\ Rest(t) \subseteq t
      BY <1>3, <2>4
    <3>2. SumsUp(f, Rest(t), G(Rest(t))) /\ IsFiniteSet(Rest(t))
      BY <1>2, <3>1
    <3>3. Rest(t) \in SUBSET Rest(t)
      OBVIOUS
    <3>4. G(Rest(t))[Rest(t)] = G(t)[Rest(t)]
      <4> HIDE DEF Rest
      <4> QED BY <2>1, <3>1, <3>2, <3>3, SumsAgree
    <3> QED BY <2>2, <2>4, <3>4 DEF SumStep
  <2> QED BY <2>3, <2>4
<1>5. SumsUp(f, s, h)
  <2>1. \A t \in SUBSET s : h[t] = SumStep(f, h, t)
    <3> SUFFICES ASSUME NEW t \in SUBSET s
                 PROVE  h[t] = SumStep(f, h, t)
      OBVIOUS
    <3>1. CASE t = {}
      BY <3>1 DEF SumStep
    <3>2. CASE t # {}
      <4>1. h[Rest(t)] = G(Rest(t))[Rest(t)]
        BY <1>3, <1>4, <3>2
      <4> QED BY <3>2, <4>1 DEF SumStep
    <3> QED BY <3>1, <3>2
  <2> QED BY <2>1 DEF SumsUp
<1> QED BY <1>1, <1>5

(* The recursion: one term, and the sum of the others.                     *)
LEMMA SumUnfolds ==
  ASSUME NEW f, NEW S, IsFiniteSet(S)
  PROVE  SumFunctionOnSet(f, S) =
           IF S = {} THEN 0
           ELSE f[CHOOSE x \in S : TRUE] +
                SumFunctionOnSet(f, S \ {CHOOSE x \in S : TRUE})
<1> DEFINE G(t) == CHOOSE g : SumsUp(f, t, g)
           R == S \ {CHOOSE x \in S : TRUE}
<1>1. SumsUp(f, S, G(S))
  BY SumExists
<1>2. IsFiniteSet(R)
  BY FS_Subset
<1>3. SumsUp(f, R, G(R))
  BY <1>2, SumExists
<1>4. SumFunctionOnSet(f, S) = G(S)[S] /\ SumFunctionOnSet(f, R) = G(R)[R]
  BY SumIsChosen
<1> HIDE DEF G
<1>5. G(S)[S] = SumStep(f, G(S), S)
  <2>1. S \in SUBSET S
    OBVIOUS
  <2> QED BY <1>1, <2>1 DEF SumsUp
<1>6. G(S)[R] = G(R)[R]
  <2>1. R \subseteq S /\ R \subseteq R /\ R \in SUBSET R
    OBVIOUS
  <2> HIDE DEF R
  <2>2. \A s \in SUBSET R : G(S)[s] = G(R)[s]
    BY <1>1, <1>2, <1>3, <2>1, SumsAgree
  <2> QED BY <2>1, <2>2
<1> QED BY <1>4, <1>5, <1>6 DEF SumStep

(* The empty sum.                                                          *)
LEMMA SumOfNone == ASSUME NEW f PROVE SumFunctionOnSet(f, {}) = 0
BY SumUnfolds, FS_EmptySet

-----------------------------------------------------------------------------
(* A sum of integers is one, and any of its terms may be taken first.      *)
LEMMA SumPick ==
  ASSUME NEW S, IsFiniteSet(S), NEW f, \A x \in S : f[x] \in Int
  PROVE  /\ SumFunctionOnSet(f, S) \in Int
         /\ \A x \in S :
              SumFunctionOnSet(f, S) = f[x] + SumFunctionOnSet(f, S \ {x})
<1> DEFINE Sum(s) == SumFunctionOnSet(f, s)
           Good(s) == Sum(s) \in Int /\ \A x \in s : Sum(s) = f[x] + Sum(s \ {x})
           B == {s \in SUBSET S : ~Good(s)}
<1> SUFFICES ASSUME B # {}
             PROVE  FALSE
  OBVIOUS
<1>1. PICK s \in B : \A t \in B : t \subseteq s => t = s
  <2> HIDE DEF B
  <2> B \subseteq SUBSET S  BY DEF B
  <2> QED BY SmallestSubset
<1>2. IsFiniteSet(s)
  BY <1>1, FS_Subset
<1>3. Sum({}) = 0 /\ Good({})
  BY SumOfNone
<1>4. s # {}
  BY <1>1, <1>3
<1>5. PICK c \in s : Sum(s) = f[c] + Sum(s \ {c})
  BY <1>2, <1>4, SumUnfolds
<1>6. \A t \in SUBSET s : t # s => Good(t)
  BY <1>1
<1>7. \A x \in s : f[x] \in Int
  BY <1>1
<1> HIDE DEF B, Sum
<1>8. Sum(s \ {c}) \in Int /\ Sum(s) \in Int
  BY <1>5, <1>6, <1>7
<1>9. ASSUME NEW x \in s, x # c
      PROVE  Sum(s) = f[x] + Sum(s \ {x})
  <2> DEFINE t == (s \ {x}) \ {c}
  <2>1. Sum(s \ {x}) = f[c] + Sum(t) /\ Sum(t) \in Int
    BY <1>6, <1>9
  <2>2. Sum(s \ {c}) = f[x] + Sum((s \ {c}) \ {x})
    BY <1>6, <1>9
  <2>3. Sum((s \ {c}) \ {x}) = Sum(t)
    <3>1. (s \ {c}) \ {x} = t
      OBVIOUS
    <3> QED BY <3>1, Zenon
  <2>4. f[c] \in Int /\ f[x] \in Int
    BY <1>7, <1>9
  <2> HIDE DEF t
  <2> QED BY <1>5, <2>1, <2>2, <2>3, <2>4
<1>10. Good(s)
  BY <1>5, <1>8, <1>9
<1> QED BY <1>1, <1>10 DEF B

(* Equal terms, equal sums.                                                *)
LEMMA SumExtends ==
  ASSUME NEW S, IsFiniteSet(S), NEW f, NEW g,
         \A x \in S : f[x] \in Int /\ g[x] = f[x]
  PROVE  SumFunctionOnSet(g, S) = SumFunctionOnSet(f, S)
<1> DEFINE F(s) == SumFunctionOnSet(f, s)
           G(s) == SumFunctionOnSet(g, s)
           B == {s \in SUBSET S : F(s) # G(s)}
<1> SUFFICES ASSUME B # {}
             PROVE  FALSE
  OBVIOUS
<1>1. PICK s \in B : \A t \in B : t \subseteq s => t = s
  <2> HIDE DEF B
  <2> B \subseteq SUBSET S  BY DEF B
  <2> QED BY SmallestSubset
<1>2. IsFiniteSet(s)
  BY <1>1, FS_Subset
<1>3. s # {}
  <2>1. F({}) = 0 /\ G({}) = 0
    BY SumOfNone
  <2> QED BY <1>1, <2>1
<1>4. PICK c : c \in s
  BY <1>3
<1>5. F(s) = f[c] + F(s \ {c}) /\ G(s) = g[c] + G(s \ {c})
  <2>1. \A x \in s : f[x] \in Int /\ g[x] \in Int
    BY <1>1
  <2> QED BY <1>2, <1>4, <2>1, SumPick
<1>6. F(s \ {c}) = G(s \ {c})
  <2> HIDE DEF F, G
  <2> QED BY <1>1, <1>4
<1> QED BY <1>1, <1>4, <1>5, <1>6

(* One term changes, and the sum with it.                                  *)
LEMMA SumChanges ==
  ASSUME NEW S, IsFiniteSet(S), NEW f \in [S -> Int], NEW g \in [S -> Int],
         NEW c \in S, \A x \in S : x # c => g[x] = f[x]
  PROVE  SumFunctionOnSet(g, S) = SumFunctionOnSet(f, S) - f[c] + g[c]
<1> DEFINE R == S \ {c}
<1>1. IsFiniteSet(R)
  BY FS_Subset
<1>2. SumFunctionOnSet(g, R) = SumFunctionOnSet(f, R)
  BY <1>1, SumExtends
<1>3. SumFunctionOnSet(f, R) \in Int
  BY <1>1, SumPick
<1>4. SumFunctionOnSet(f, S) = f[c] + SumFunctionOnSet(f, R)
  BY SumPick
<1>5. SumFunctionOnSet(g, S) = g[c] + SumFunctionOnSet(g, R)
  BY SumPick
<1> QED BY <1>2, <1>3, <1>4, <1>5

(* A sum of zeros is zero.                                                 *)
LEMMA SumOfZeros ==
  ASSUME NEW S, IsFiniteSet(S), NEW f, \A x \in S : f[x] = 0
  PROVE  SumFunctionOnSet(f, S) = 0
<1> DEFINE F(s) == SumFunctionOnSet(f, s)
           B == {s \in SUBSET S : F(s) # 0}
<1> SUFFICES ASSUME B # {}
             PROVE  FALSE
  OBVIOUS
<1>1. PICK s \in B : \A t \in B : t \subseteq s => t = s
  <2> HIDE DEF B
  <2> B \subseteq SUBSET S  BY DEF B
  <2> QED BY SmallestSubset
<1>2. IsFiniteSet(s)
  BY <1>1, FS_Subset
<1>3. s # {}
  <2>1. F({}) = 0
    BY SumOfNone
  <2>2. F(s) # 0
    BY <1>1
  <2> QED BY <2>1, <2>2, Zenon
<1>4. PICK c : c \in s
  BY <1>3
<1>5. F(s) = f[c] + F(s \ {c})
  BY <1>1, <1>2, <1>4, SumPick
<1>6. F(s \ {c}) = 0
  <2> HIDE DEF F
  <2> QED BY <1>1, <1>4
<1> QED BY <1>1, <1>4, <1>5, <1>6

-----------------------------------------------------------------------------
(* A bounded set of numbers has its maximum: the one with the fewest       *)
(* numbers between it and the bound.                                       *)
LEMMA MaxOfBounded ==
  ASSUME NEW S \in SUBSET Nat, S # {}, NEW n \in Nat, \A x \in S : x <= n
  PROVE  Max(S) \in S /\ \A y \in S : y <= Max(S)
<1> DEFINE Above(x) == (x + 1)..n
           B == {Above(x) : x \in S}
<1>1. IsFiniteSet(0..n) /\ B \subseteq SUBSET (0..n) /\ B # {}
  <2>1. IsFiniteSet(0..n)
    BY FS_Interval
  <2>2. \A x \in S : Above(x) \in SUBSET (0..n)
    OBVIOUS
  <2>3. B # {}
    OBVIOUS
  <2> HIDE DEF Above
  <2> QED BY <2>1, <2>2, <2>3
<1>2. PICK s \in B : \A t \in B : t \subseteq s => t = s
  <2> DEFINE N == 0..n
  <2> HIDE DEF B, N
  <2>1. IsFiniteSet(N) /\ B \subseteq SUBSET N /\ B # {}
    BY <1>1 DEF N
  <2> QED BY <2>1, SmallestSubset
<1>3. PICK x \in S : s = Above(x)
  BY <1>2
<1>4. ASSUME NEW y \in S, y > x
      PROVE  FALSE
  <2>1. Above(y) \in B /\ Above(y) \subseteq s /\ y \in s /\ y \notin Above(y)
    BY <1>3, <1>4
  <2> HIDE DEF B, Above
  <2> QED BY <1>2, <2>1
<1>5. \A y \in S : x >= y
  BY <1>4
<1> QED BY <1>5 DEF Max

-----------------------------------------------------------------------------

(* The last order of a batch for a symbol is the one that TargetsOf takes. *)
LEMMA LastOrder ==
  ASSUME NEW b \in Batch, NEW s \in DOMAIN TargetsOf(b)
  PROVE  \E j \in DOMAIN Batches[b] :
           /\ Batches[b][j].symbol = s
           /\ \A k \in DOMAIN Batches[b] : k > j => Batches[b][k].symbol # s
           /\ TargetsOf(b)[s] = Batches[b][j].units
<1> DEFINE seq == Batches[b]
           I == {i \in 1..Len(seq) : seq[i].symbol = s}
<1>1. seq \in Seq(Order) /\ Len(seq) \in Nat /\ DOMAIN seq = 1..Len(seq)
  BY BatchesAssumption DEF Batch
<1>2. s \in {seq[i].symbol : i \in DOMAIN seq}
  BY DEF TargetsOf
<1>3. TargetsOf(b)[s] = seq[IF I # {} THEN Max(I) ELSE 0].units
  BY <1>2 DEF TargetsOf, SelectLastInSeq
<1>4. I # {}
  BY <1>1, <1>2
<1>5. Max(I) \in I /\ \A k \in I : k <= Max(I)
  <2>1. I \in SUBSET Nat /\ \A k \in I : k <= Len(seq)
    BY <1>1
  <2> HIDE DEF I
  <2> QED BY <1>1, <1>4, <2>1, MaxOfBounded
<1> DEFINE m == Max(I)
<1>6. m \in I /\ \A k \in I : k <= m
  BY <1>5
<1>7. TargetsOf(b)[s] = seq[m].units
  BY <1>3, <1>4
<1> HIDE DEF m
<1>8. m \in DOMAIN seq /\ seq[m].symbol = s
  BY <1>1, <1>6
<1>9. \A k \in DOMAIN seq : k > m => seq[k].symbol # s
  BY <1>1, <1>6
<1> QED BY <1>7, <1>8, <1>9

-----------------------------------------------------------------------------
(* The types.                                                              *)

(* What a run reads from its batch is there.                               *)
Placed(r) ==
  /\ r.pc \notin {"idle", "mark", "revalue"} => ~r.done
  /\ r.pc # "idle" /\ ~r.done => r.batch \in Batch
  /\ r.pc \in {"decide", "trade", "fill", "filled"} =>
       r.order \in DOMAIN Batches[r.batch]

Typed == TypeOK /\ \A p \in Proc : Placed(run[p])

(* The local variables of a run that has not begun are of their type.      *)
LEMMA IdleTyped == IdleRun \in Run /\ Placed(IdleRun)
<1>1. IdleRun \in Run
  BY SMT DEF IdleRun, Run, Place
<1>2. Placed(IdleRun)
  BY Zenon DEF IdleRun, Placed
<1> QED BY <1>1, <1>2

(* The first state is typed.                                               *)
LEMMA InitTyped == Init => Typed
<1> SUFFICES ASSUME Init
             PROVE  Typed
  OBVIOUS
<1>1. run \in [Proc -> Run] /\ \A p \in Proc : Placed(run[p])
  BY IdleTyped DEF Init
<1>2. /\ latest \in Batch \cup {0} /\ applied \in Batch \cup {0}
      /\ cash \in Int /\ pos \in [Symbol -> Int]
      /\ fills \in [Batch -> [Symbol -> Int]]
      /\ state \in [OrderIds -> SUBSET {"PENDING", "FILLED", "EXPIRED"}]
      /\ aborts \in 0..MaxAborts /\ shared \in Handles
  BY SizesAssumption DEF Init
<1> QED BY <1>1, <1>2 DEF Typed, TypeOK

(* The order of a run that is at one.                                      *)
LEMMA OrderTyped ==
  ASSUME Typed, NEW p \in Proc, run[p].pc \in {"decide", "trade", "fill", "filled"}
  PROVE  /\ run[p] \in Run /\ Placed(run[p]) /\ run[p].batch \in Batch
         /\ OrderOf(p) \in Order /\ Id(p) \in OrderIds
         /\ SymbolOf(p) \in Symbol /\ OrderOf(p).units \in Int
<1>1. run[p] \in Run /\ Placed(run[p])
  BY DEF Typed, TypeOK
<1>2. run[p].batch \in Batch /\ run[p].order \in DOMAIN Batches[run[p].batch]
  BY <1>1 DEF Placed
<1>3. Batches[run[p].batch] \in Seq(Order)
  BY <1>2, BatchesAssumption DEF Batch
<1>4. OrderOf(p) \in Order
  BY <1>2, <1>3 DEF OrderOf
<1>5. Id(p) \in OrderIds
  BY <1>2 DEF Id, OrderIds
<1> QED BY <1>1, <1>2, <1>4, <1>5 DEF SymbolOf, Order

(* The local variables with some of them assigned.                         *)
LEMMA Fields ==
  ASSUME NEW r \in Run, NEW c \in Place
  PROVE  /\ [r EXCEPT !.pc = c] \in Run
         /\ \A b \in BOOLEAN : [r EXCEPT !.pc = c, !.done = b] \in Run
         /\ \A b \in BOOLEAN, i \in Batch \cup {0} :
              [r EXCEPT !.pc = c, !.batch = i, !.done = b] \in Run
         /\ \A b \in BOOLEAN, s \in SUBSET Symbol :
              [r EXCEPT !.pc = c, !.cut = s, !.open = b] \in Run
         /\ \A s \in SUBSET Symbol : [r EXCEPT !.pc = c, !.cut = s] \in Run
         /\ \A n \in Nat : [r EXCEPT !.pc = c, !.order = n] \in Run
         /\ \A x \in Int : [r EXCEPT !.pc = c, !.cash = x] \in Run
         /\ \A x, y \in Int : [r EXCEPT !.pc = c, !.cash = x, !.budget = y] \in Run
         /\ \A x, y \in Int, s \in SUBSET Symbol :
              [r EXCEPT !.pc = c, !.cur = x, !.left = y, !.cut = s] \in Run
         /\ \A x, y, z, u, v \in Int :
              [r EXCEPT !.pc = c, !.last = x, !.cash = y, !.cur = z, !.left = u,
                        !.budget = v] \in Run
BY ZenonT(40) DEF Run

(* What every step of a run makes of its local variables.                  *)
LEMMA RunTyped ==
  ASSUME Typed, NEW p \in Proc, Step(p)
  PROVE  \E r \in Run : Placed(r) /\ Set(p, r)
<1> DEFINE r == run[p]
<1>1. /\ r \in Run /\ Placed(r) /\ Budget \in Int /\ Chunk \in Int
      /\ latest \in Batch \cup {0} /\ cash \in Int /\ pos \in [Symbol -> Int]
  BY SizesAssumption DEF Typed, TypeOK
<1>2. CASE Load(p)
  <2> DEFINE c == IF latest = 0 THEN "mark" ELSE "guard"
             d == latest = 0
             s == [IdleRun EXCEPT !.pc = c, !.batch = latest, !.done = d]
  <2>1. s \in Run
    <3>1. c \in Place /\ d \in BOOLEAN
      BY DEF Place
    <3> HIDE DEF c, d
    <3> QED BY <1>1, <3>1, IdleTyped, Fields
  <2>2. Placed(s)
    <3>1. CASE latest = 0
      BY <3>1, Zenon DEF IdleRun, Placed
    <3>2. CASE latest # 0
      <4>1. latest \in Batch /\ s.pc = "guard" /\ s.batch = latest
        BY <1>1, <3>2, Zenon DEF IdleRun
      <4>2. s.done = FALSE
        BY <3>2, Zenon DEF IdleRun
      <4> HIDE DEF s
      <4> QED BY <4>1, <4>2 DEF Placed
    <3> QED BY <3>1, <3>2
  <2> QED BY <1>2, <2>1, <2>2 DEF Load
<1>3. CASE Guard(p)
  <2>1. /\ [r EXCEPT !.pc = "mark", !.done = TRUE] \in Run
        /\ [r EXCEPT !.pc = "account"] \in Run
    BY <1>1, Fields, Zenon DEF Place
  <2>2. Placed([r EXCEPT !.pc = "mark", !.done = TRUE])
    BY <1>1, Zenon DEF Run, Placed
  <2>3. Placed([r EXCEPT !.pc = "account"])
    BY <1>1, <1>3, SMT DEF Guard, At, Run, Placed
  <2> QED BY <1>3, <2>1, <2>2, <2>3 DEF Guard
<1>4. CASE ReadAccount(p)
  <2> DEFINE s == [r EXCEPT !.pc = "next", !.cash = cash, !.budget = Budget]
  <2>1. s \in Run
    BY <1>1, Fields, Zenon DEF Place
  <2>2. Placed(s)
    BY <1>1, <1>4, SMT DEF ReadAccount, At, Run, Placed
  <2> QED BY <1>4, <2>1, <2>2 DEF ReadAccount
<1>5. CASE SkipBatch(p)
  <2> DEFINE s == [r EXCEPT !.pc = "mark", !.cut = Symbol]
  <2>1. s \in Run
    BY <1>1, Fields, Zenon DEF Place
  <2>2. Placed(s)
    BY <1>1, <1>5, SMT DEF SkipBatch, At, Run, Placed
  <2> QED BY <1>5, <2>1, <2>2 DEF SkipBatch
<1>6. CASE NextOrder(p)
  <2> DEFINE s == [r EXCEPT !.pc = "decide", !.order = @ + 1]
             e == [r EXCEPT !.pc = "cash"]
  <2>1. r.pc = "next" /\ ~r.done /\ r.batch \in Batch /\ r.order \in Nat
    BY <1>1, <1>6, Zenon DEF NextOrder, At, Placed, Run
  <2>2. s \in Run /\ e \in Run
    <3>1. r.order + 1 \in Nat
      BY <2>1
    <3> QED BY <1>1, <3>1, Fields, Zenon DEF Place
  <2>3. ASSUME r.order < Len(Batches[r.batch]) PROVE Placed(s)
    <3>1. Batches[r.batch] \in Seq(Order)
      BY <2>1, BatchesAssumption DEF Batch
    <3>2. r.order + 1 \in DOMAIN Batches[r.batch]
      BY <2>1, <2>3, <3>1
    <3> QED BY <1>1, <2>1, <3>2, SMT DEF Run, Placed
  <2>4. Placed(e)
    BY <1>1, <2>1, SMT DEF Run, Placed
  <2> QED BY <1>6, <2>2, <2>3, <2>4 DEF NextOrder
<1>7. CASE Refuse(p)
  <2> DEFINE d == ~shared
             t == r.cut \cup {SymbolOf(p)}
             s == [r EXCEPT !.pc = "next", !.cut = t, !.open = d]
  <2>1. SymbolOf(p) \in Symbol /\ r.cut \in SUBSET Symbol
    BY <1>7, OrderTyped DEF Refuse, At, Run
  <2>2. d \in BOOLEAN /\ t \in SUBSET Symbol /\ "next" \in Place
    BY <2>1 DEF Place
  <2>3. Set(p, s)
    BY <1>7 DEF Refuse
  <2> HIDE DEF d, t
  <2>4. s \in Run
    BY <1>1, <2>2, Fields
  <2>5. Placed(s)
    BY <1>1, <1>7, SMT DEF Refuse, At, Run, Placed
  <2> QED BY <2>3, <2>4, <2>5
<1>8. CASE ClosedHandle(p) \/ SetMeta(p) \/ Abort(p)
  BY <1>8, IdleTyped DEF ClosedHandle, SetMeta, Abort
<1>9. CASE PassOver(p)
  <2> DEFINE t == r.cut \cup {SymbolOf(p)}
             s == [r EXCEPT !.pc = "next", !.cut = t]
  <2>1. SymbolOf(p) \in Symbol /\ r.cut \in SUBSET Symbol
    BY <1>9, OrderTyped DEF PassOver, At, Run
  <2>2. t \in SUBSET Symbol /\ "next" \in Place /\ Set(p, s)
    BY <1>9, <2>1 DEF PassOver, Place
  <2> HIDE DEF t
  <2>3. s \in Run
    BY <1>1, <2>2, Fields
  <2>4. Placed(s)
    BY <1>1, <1>9, SMT DEF PassOver, At, Run, Placed
  <2> QED BY <2>2, <2>3, <2>4
<1>10. CASE ReadPosition(p)
  <2> DEFINE c == IF Delta(p) = 0 THEN "next" ELSE "trade"
             t == r.cut \ {SymbolOf(p)}
             s == [r EXCEPT !.pc = c, !.cur = pos[SymbolOf(p)], !.left = Delta(p),
                            !.cut = t]
  <2>1. SymbolOf(p) \in Symbol /\ r.cut \in SUBSET Symbol /\ Delta(p) \in Int
    BY <1>1, <1>10, OrderTyped DEF ReadPosition, At, Run, Delta
  <2>2. c \in Place /\ t \in SUBSET Symbol /\ pos[SymbolOf(p)] \in Int
    BY <1>1, <2>1 DEF Place
  <2>3. Set(p, s) /\ c \in {"next", "trade"}
    BY <1>10 DEF ReadPosition
  <2> HIDE DEF c, t
  <2>4. s \in Run
    BY <1>1, <2>1, <2>2, Fields
  <2>5. Placed(s)
    BY <1>1, <1>10, <2>3, SMT DEF ReadPosition, At, Run, Placed
  <2> QED BY <2>3, <2>4, <2>5
<1>11. CASE Expire(p)
  <2> DEFINE t == r.cut \cup {SymbolOf(p)}
             s == [r EXCEPT !.pc = "next", !.cut = t]
  <2>1. SymbolOf(p) \in Symbol /\ r.cut \in SUBSET Symbol
    BY <1>11, OrderTyped DEF Expire, At, Run
  <2>2. t \in SUBSET Symbol /\ "next" \in Place /\ Set(p, s)
    BY <1>11, <2>1 DEF Expire, Place
  <2> HIDE DEF t
  <2>3. s \in Run
    BY <1>1, <2>2, Fields
  <2>4. Placed(s)
    BY <1>1, <1>11, SMT DEF Expire, At, Run, Placed
  <2> QED BY <2>2, <2>3, <2>4
<1>12. CASE EndOrder(p)
  <2> DEFINE t == IF r.left = 0 THEN r.cut ELSE r.cut \cup {SymbolOf(p)}
             s == [r EXCEPT !.pc = "next", !.cut = t]
  <2>1. SymbolOf(p) \in Symbol /\ r.cut \in SUBSET Symbol
    BY <1>12, OrderTyped DEF EndOrder, At, Run
  <2>2. t \in SUBSET Symbol /\ Set(p, s)
    BY <1>12, <2>1 DEF EndOrder
  <2> HIDE DEF t
  <2>3. s \in Run
    BY <1>1, <2>2, Fields DEF Place
  <2>4. Placed(s)
    BY <1>1, <1>12, SMT DEF EndOrder, At, Run, Placed
  <2> QED BY <2>2, <2>3, <2>4
<1>13. ASSUME NEW n \in 1..Chunk, TradeChunk(p, n)
       PROVE  \E s \in Run : Placed(s) /\ Set(p, s)
  <2> DEFINE q == IF r.left > 0 THEN n ELSE -n
             s == [r EXCEPT !.pc = "fill", !.last = q, !.cash = @ - q,
                            !.cur = @ + q, !.left = @ - q, !.budget = @ - n]
  <2>1. /\ q \in Int /\ r.cash - q \in Int /\ r.cur + q \in Int
        /\ r.left - q \in Int /\ r.budget - n \in Int
    BY <1>1 DEF Run
  <2>2. Set(p, s)
    BY <1>13 DEF TradeChunk
  <2> HIDE DEF q
  <2>3. s \in Run
    <3>1. "fill" \in Place
      BY DEF Place
    <3>2. \A x, y, z, u, v \in Int :
            [r EXCEPT !.pc = "fill", !.last = x, !.cash = y, !.cur = z, !.left = u,
                      !.budget = v] \in Run
      BY <1>1, <3>1, Fields, Zenon
    <3> QED BY <2>1, <3>2, Zenon
  <2>4. Placed(s)
    <3>1. r.pc = "trade"
      BY <1>13 DEF TradeChunk, At
    <3>2. s.pc = "fill" /\ s.done = r.done /\ s.batch = r.batch /\ s.order = r.order
      BY <1>1, Zenon DEF Run
    <3> HIDE DEF s
    <3> QED BY <1>1, <3>1, <3>2 DEF Placed
  <2> QED BY <2>2, <2>3, <2>4
<1>14. CASE WriteFill(p)
  <2>1. Placed([r EXCEPT !.pc = "filled"])
    BY <1>1, <1>14, SMT DEF WriteFill, At, Run, Placed
  <2> QED BY <1>1, <1>14, <2>1, Fields DEF WriteFill, Place
<1>15. CASE MarkFilled(p)
  <2>1. Placed([r EXCEPT !.pc = "trade"])
    BY <1>1, <1>15, SMT DEF MarkFilled, At, Run, Placed
  <2> QED BY <1>1, <1>15, <2>1, Fields DEF MarkFilled, Place
<1>16. CASE PersistCash(p)
  <2>1. Placed([r EXCEPT !.pc = "mark"])
    BY <1>1, <1>16, SMT DEF PersistCash, At, Run, Placed
  <2> QED BY <1>1, <1>16, <2>1, Fields DEF PersistCash, Place
<1>17. CASE Mark(p)
  <2>1. Placed([r EXCEPT !.pc = "revalue", !.cash = cash])
    BY <1>1, <1>17, SMT DEF Mark, At, Run, Placed
  <2> QED BY <1>1, <1>17, <2>1, Fields DEF Mark, Place
<1>18. CASE Revalue(p)
  <2>1. ~r.done => Placed([r EXCEPT !.pc = "meta"])
    BY <1>1, <1>18, SMT DEF Revalue, At, Run, Placed
  <2>2. [r EXCEPT !.pc = "meta"] \in Run
    BY <1>1, Fields DEF Place
  <2> QED BY <1>18, <2>1, <2>2, IdleTyped DEF Revalue
<1> QED
  BY <1>2, <1>3, <1>4, <1>5, <1>6, <1>7, <1>8, <1>9, <1>10, <1>11, <1>12,
    <1>13, <1>14, <1>15, <1>16, <1>17, <1>18
  DEF Step

(* Every step keeps the types, of one run or of several that overlap.      *)
LEMMA NextTyped ==
  ASSUME Typed, [Next]_vars
  PROVE  Typed'
<1>1. CASE NewBatch
  BY <1>1, BatchesAssumption, SMT DEF NewBatch, Typed, TypeOK, Batch
<1>2. ASSUME NEW p \in Proc, Step(p)
      PROVE  Typed'
  <2> DEFINE r == run[p]
  <2>1. PICK s \in Run : Placed(s) /\ Set(p, s)
    BY <1>2, RunTyped
  <2>2. run' \in [Proc -> Run] /\ \A q \in Proc : Placed(run'[q])
    BY <2>1, SMT DEF Typed, TypeOK, Set
  <2>3. r \in Run /\ Placed(r) /\ r.cash \in Int /\ r.cur \in Int /\ r.last \in Int
    BY DEF Typed, TypeOK, Run
  <2>4. applied' \in Batch \cup {0} /\ cash' \in Int
    <3>1. CASE SetMeta(p)
      BY <2>3, <3>1, SMT DEF SetMeta, Typed, TypeOK, Placed, Run, At
    <3>2. CASE PersistCash(p) \/ Revalue(p)
      BY <2>3, <3>2 DEF PersistCash, Revalue, Typed, TypeOK
    <3>3. CASE ~SetMeta(p) /\ ~PersistCash(p) /\ ~Revalue(p)
      <4>1. UNCHANGED <<applied, cash>>
        BY <1>2, <3>3, Zenon DEF Step, Load, Guard, ReadAccount, SkipBatch, NextOrder,
          Refuse, ClosedHandle, PassOver, ReadPosition, Expire, EndOrder, TradeChunk,
          WriteFill, MarkFilled, Mark, Abort
      <4> QED BY <4>1 DEF Typed, TypeOK
    <3> QED BY <3>1, <3>2, <3>3
  <2>5. pos' \in [Symbol -> Int] /\ fills' \in [Batch -> [Symbol -> Int]]
    <3>1. ASSUME NEW n \in 1..Chunk, TradeChunk(p, n)
          PROVE  pos' \in [Symbol -> Int] /\ UNCHANGED fills
      <4>1. \E q \in {n, -n} : pos' = [pos EXCEPT ![SymbolOf(p)] = run[p].cur + q]
        BY <3>1, Zenon DEF TradeChunk
      <4>2. \A q \in {n, -n} : run[p].cur + q \in Int
        BY <2>3, SizesAssumption
      <4>3. pos \in [Symbol -> Int] /\ UNCHANGED fills
        BY <3>1 DEF TradeChunk, Typed, TypeOK
      <4> QED BY <4>1, <4>2, <4>3
    <3>2. CASE WriteFill(p)
      BY <2>3, <3>2, OrderTyped, SMT DEF WriteFill, Typed, TypeOK, At
    <3>3. CASE ~WriteFill(p) /\ ~\E n \in 1..Chunk : TradeChunk(p, n)
      <4>1. UNCHANGED <<pos, fills>>
        BY <1>2, <3>3, Zenon DEF Step, Load, Guard, ReadAccount, SkipBatch, NextOrder,
          Refuse, ClosedHandle, PassOver, ReadPosition, Expire, EndOrder, MarkFilled,
          PersistCash, Mark, Revalue, SetMeta, Abort
      <4> QED BY <4>1 DEF Typed, TypeOK
    <3> QED BY <3>1, <3>2, <3>3 DEF Typed, TypeOK
  <2>6. state' \in [OrderIds -> SUBSET {"PENDING", "FILLED", "EXPIRED"}]
    <3> DEFINE States == SUBSET {"PENDING", "FILLED", "EXPIRED"}
    <3>5. state \in [OrderIds -> States]
      BY DEF Typed, TypeOK
    <3>0. ASSUME NEW o, NEW v, state' = [state EXCEPT ![o] = v],
                 o \in OrderIds => v \in States
          PROVE  state' \in [OrderIds -> States]
      <4> HIDE DEF States
      <4> QED BY <3>0, <3>5
    <3>1. CASE NextOrder(p)
      <4> DEFINE o == <<run[p].batch, run[p].order + 1>>
      <4>1. \/ UNCHANGED state
            \/ state' = [state EXCEPT ![o] = state[o] \cup {"PENDING"}]
        BY <3>1, Zenon DEF NextOrder
      <4> HIDE DEF o
      <4> QED BY <3>0, <3>5, <4>1
    <3>2. CASE Expire(p)
      <4>1. \E v \in {state[Id(p)], (state[Id(p)] \ {"PENDING"}) \cup {"EXPIRED"}} :
              state' = [state EXCEPT ![Id(p)] = v]
        BY <3>2, Zenon DEF Expire
      <4> QED BY <3>0, <3>5, <4>1, OrderTyped DEF At
    <3>3. CASE MarkFilled(p)
      <4>1. \E v \in {state[Id(p)], (state[Id(p)] \ {"PENDING"}) \cup {"FILLED"}} :
              state' = [state EXCEPT ![Id(p)] = v]
        BY <3>3, Zenon DEF MarkFilled
      <4> QED BY <3>0, <3>5, <4>1, OrderTyped DEF At
    <3>4. CASE ~NextOrder(p) /\ ~Expire(p) /\ ~MarkFilled(p)
      <4>1. UNCHANGED state
        BY <1>2, <3>4, Zenon DEF Step, Load, Guard, ReadAccount, SkipBatch, Refuse,
          ClosedHandle, PassOver, ReadPosition, EndOrder, TradeChunk, WriteFill,
          PersistCash, Mark, Revalue, SetMeta, Abort
      <4> QED BY <4>1 DEF Typed, TypeOK
    <3> QED BY <3>1, <3>2, <3>3, <3>4
  <2>7. aborts' \in 0..MaxAborts
    <3>1. CASE Abort(p)
      BY <3>1, SizesAssumption, SMT DEF Abort, Typed, TypeOK
    <3>2. CASE ~Abort(p)
      <4>1. UNCHANGED aborts
        BY <1>2, <3>2, Zenon DEF Step, Load, Guard, ReadAccount, SkipBatch, NextOrder,
          Refuse, ClosedHandle, PassOver, ReadPosition, Expire, EndOrder, TradeChunk,
          WriteFill, MarkFilled, PersistCash, Mark, Revalue, SetMeta
      <4> QED BY <4>1 DEF Typed, TypeOK
    <3> QED BY <3>1, <3>2
  <2>8. latest' = latest /\ shared' = shared
    BY <1>2, Zenon DEF Step, Load, Guard, ReadAccount, SkipBatch, NextOrder,
      Refuse, ClosedHandle, PassOver, ReadPosition, Expire, EndOrder, TradeChunk,
      WriteFill, MarkFilled, PersistCash, Mark, Revalue, SetMeta, Abort
  <2> QED BY <2>2, <2>4, <2>5, <2>6, <2>7, <2>8 DEF Typed, TypeOK
<1>3. CASE UNCHANGED vars
  BY <1>3 DEF vars, Typed, TypeOK, Placed
<1> QED BY <1>1, <1>2, <1>3 DEF Next

(* BrokerSim keeps its types, for any runs that overlap or are cut off.    *)
THEOREM TypeCorrect == Spec => []TypeOK
<1>1. Typed => TypeOK
  BY DEF Typed
<1> QED BY <1>1, InitTyped, NextTyped, PTL DEF Spec
-----------------------------------------------------------------------------
(* What the steps of a run do to its local variables and to the tables.    *)

SameOrder(r, s) == s.batch = r.batch /\ s.order = r.order /\ s.done = r.done
SamePass(r, s) == s.cut = r.cut /\ s.open = r.open
SameTrade(r, s) ==
  s.cash = r.cash /\ s.cur = r.cur /\ s.left = r.left /\ s.last = r.last

(* A step assigns the local variables of its own run only.                 *)
LEMMA OneRunMoves ==
  ASSUME Typed, NEW p \in Proc, NEW x, Set(p, x)
  PROVE  run'[p] = x /\ \A q \in Proc : q # p => run'[q] = run[q]
BY SMT DEF Set, Typed, TypeOK

(* A run begins at the guard of its batch, or at the marks if there is     *)
(* none.                                                                   *)
LEMMA LoadDoes ==
  ASSUME Typed, NEW p \in Proc, Load(p)
  PROVE  /\ At(p, "idle") /\ run'[p].pc \in {"guard", "mark"}
         /\ run'[p].order = 0 /\ run'[p].open
         /\ run'[p].pc = "mark" => run'[p].done
<1> DEFINE c == IF latest = 0 THEN "mark" ELSE "guard"
           x == [IdleRun EXCEPT !.pc = c, !.batch = latest, !.done = latest = 0]
<1>1. run'[p] = x /\ At(p, "idle")
  BY OneRunMoves DEF Load
<1>2. x.pc = c /\ x.order = 0 /\ x.open /\ (latest = 0 => x.done)
  BY Zenon DEF IdleRun
<1>3. c \in {"guard", "mark"} /\ (c = "mark" => latest = 0)
  OBVIOUS
<1> HIDE DEF c, x
<1> QED BY <1>1, <1>2, <1>3

(* The guard lets through only a batch newer than the one applied.         *)
LEMMA GuardDoes ==
  ASSUME Typed, NEW p \in Proc, Guard(p)
  PROVE  /\ At(p, "guard") /\ run'[p].order = run[p].order
         /\ run'[p].batch = run[p].batch
         /\ SamePass(run[p], run'[p])
         /\ \/ run'[p].pc = "mark" /\ run'[p].done
            \/ run'[p].pc = "account" /\ ~AlreadyApplied(p)
<1> DEFINE r == run[p]
<1>1. r \in Run
  BY DEF Typed, TypeOK
<1>2. At(p, "guard")
  BY DEF Guard
<1>3. CASE AlreadyApplied(p)
  <2> DEFINE x == [r EXCEPT !.pc = "mark", !.done = TRUE]
  <2>1. run'[p] = x
    BY <1>3, OneRunMoves DEF Guard
  <2>2. /\ x.pc = "mark" /\ x.done /\ x.order = r.order /\ x.batch = r.batch
        /\ SamePass(r, x)
    BY <1>1, Zenon DEF Run, SamePass
  <2> QED BY <1>2, <2>1, <2>2
<1>4. CASE ~AlreadyApplied(p)
  <2> DEFINE x == [r EXCEPT !.pc = "account"]
  <2>1. run'[p] = x
    BY <1>4, OneRunMoves DEF Guard
  <2>2. x.pc = "account" /\ x.order = r.order /\ x.batch = r.batch /\ SamePass(r, x)
    BY <1>1, Zenon DEF Run, SamePass
  <2> QED BY <1>2, <1>4, <2>1, <2>2
<1> QED BY <1>3, <1>4

(* The account is read and the first order is next.                        *)
LEMMA ReadAccountDoes ==
  ASSUME Typed, NEW p \in Proc, ReadAccount(p)
  PROVE  /\ At(p, "account") /\ run'[p].pc = "next" /\ run'[p].cash = cash
         /\ SameOrder(run[p], run'[p]) /\ SamePass(run[p], run'[p])
<1> DEFINE r == run[p]
           x == [r EXCEPT !.pc = "next", !.cash = cash, !.budget = Budget]
<1>1. r \in Run
  BY DEF Typed, TypeOK
<1>2. run'[p] = x /\ At(p, "account")
  BY OneRunMoves DEF ReadAccount
<1> QED BY <1>1, <1>2, SMT DEF Run, SameOrder, SamePass

(* A batch already applied is done: only its marks are written.            *)
LEMMA SkipBatchDoes ==
  ASSUME Typed, NEW p \in Proc, SkipBatch(p)
  PROVE  /\ At(p, "account") /\ run'[p].pc = "mark" /\ run'[p].cut = Symbol
         /\ run'[p].open = run[p].open /\ SameOrder(run[p], run'[p])
<1> DEFINE r == run[p]
           x == [r EXCEPT !.pc = "mark", !.cut = Symbol]
<1>1. r \in Run
  BY DEF Typed, TypeOK
<1>2. run'[p] = x /\ At(p, "account")
  BY OneRunMoves DEF SkipBatch
<1> QED BY <1>1, <1>2, SMT DEF Run, SameOrder

(* The next order is the one after the last, and reopens the account.      *)
LEMMA NextOrderDoes ==
  ASSUME Typed, NEW p \in Proc, NextOrder(p)
  PROVE  /\ At(p, "next") /\ SamePass(run[p], run'[p]) /\ SameTrade(run[p], run'[p])
         /\ run'[p].batch = run[p].batch /\ run'[p].done = run[p].done
         /\ \/ run'[p].pc = "decide" /\ run'[p].order = run[p].order + 1
            \/ /\ run'[p].pc = "cash" /\ run'[p].order = run[p].order
               /\ ~(run[p].order < Len(Batches[run[p].batch]))
<1> DEFINE r == run[p]
           n == Len(Batches[r.batch])
<1>1. r \in Run
  BY DEF Typed, TypeOK
<1>2. At(p, "next")
  BY DEF NextOrder
<1>3. CASE r.order < n
  <2> DEFINE x == [r EXCEPT !.pc = "decide", !.order = @ + 1]
  <2>1. Set(p, x)
    BY <1>3 DEF NextOrder
  <2>2. run'[p] = x
    BY <2>1, OneRunMoves
  <2>3. /\ x.pc = "decide" /\ x.order = r.order + 1 /\ x.batch = r.batch
        /\ x.done = r.done /\ SamePass(r, x) /\ SameTrade(r, x)
    BY <1>1, Zenon DEF Run, SamePass, SameTrade
  <2> QED BY <1>2, <2>2, <2>3
<1>4. CASE ~(r.order < n)
  <2> DEFINE x == [r EXCEPT !.pc = "cash"]
  <2>1. Set(p, x)
    BY <1>4 DEF NextOrder
  <2>2. run'[p] = x
    BY <2>1, OneRunMoves
  <2>3. /\ x.pc = "cash" /\ x.order = r.order /\ x.batch = r.batch
        /\ x.done = r.done /\ SamePass(r, x) /\ SameTrade(r, x)
    BY <1>1, Zenon DEF Run, SamePass, SameTrade
  <2> QED BY <1>2, <1>4, <2>2, <2>3
<1> QED BY <1>3, <1>4

(* The order is left: to the next one, with its symbol cut or at its       *)
(* target.                                                                 *)
LEMMA LeaveDoes ==
  ASSUME Typed, NEW p \in Proc,
         Refuse(p) \/ PassOver(p) \/ Expire(p) \/ EndOrder(p)
  PROVE  /\ run'[p].pc = "next"
         /\ SameOrder(run[p], run'[p]) /\ SameTrade(run[p], run'[p])
         /\ \/ run'[p].cut = run[p].cut \cup {SymbolOf(p)}
            \/ At(p, "trade") /\ run[p].left = 0 /\ run'[p].cut = run[p].cut
         /\ \/ run'[p].open = run[p].open
            \/ run'[p].open = ~shared
<1> DEFINE r == run[p]
           t == r.cut \cup {SymbolOf(p)}
<1>1. r \in Run
  BY DEF Typed, TypeOK
<1>2. ASSUME NEW u, Set(p, [r EXCEPT !.pc = "next", !.cut = u])
      PROVE  /\ run'[p].pc = "next" /\ run'[p].cut = u /\ run'[p].open = r.open
             /\ SameOrder(r, run'[p]) /\ SameTrade(r, run'[p])
  <2>1. run'[p] = [r EXCEPT !.pc = "next", !.cut = u]
    BY <1>2, OneRunMoves
  <2> QED BY <1>1, <2>1, SMT DEF Run, SameOrder, SameTrade
<1>3. CASE Refuse(p)
  <2> DEFINE d == ~shared
             x == [r EXCEPT !.pc = "next", !.cut = t, !.open = d]
  <2>1. Set(p, x)
    BY <1>3 DEF Refuse
  <2>2. run'[p] = x
    BY <2>1, OneRunMoves
  <2> HIDE DEF d, t
  <2>3. /\ x.pc = "next" /\ x.cut = t /\ x.open = d
        /\ SameOrder(r, x) /\ SameTrade(r, x)
    BY <1>1, Zenon DEF Run, SameOrder, SameTrade
  <2> QED BY <2>2, <2>3 DEF d, t
<1>4. CASE PassOver(p) \/ Expire(p)
  BY <1>2, <1>4 DEF PassOver, Expire
<1>5. CASE EndOrder(p)
  BY <1>2, <1>5 DEF EndOrder
<1> QED BY <1>3, <1>4, <1>5

(* The position read fixes what is left to trade.                          *)
LEMMA ReadPositionDoes ==
  ASSUME Typed, NEW p \in Proc, ReadPosition(p)
  PROVE  /\ At(p, "decide") /\ ~shared /\ SameOrder(run[p], run'[p])
         /\ run'[p].pc = IF Delta(p) = 0 THEN "next" ELSE "trade"
         /\ run'[p].cur = pos[SymbolOf(p)] /\ run'[p].left = Delta(p)
         /\ run'[p].cut = run[p].cut \ {SymbolOf(p)}
         /\ run'[p].cash = run[p].cash /\ run'[p].open = run[p].open
<1> DEFINE r == run[p]
           c == IF Delta(p) = 0 THEN "next" ELSE "trade"
           u == pos[SymbolOf(p)]
           d == Delta(p)
           t == r.cut \ {SymbolOf(p)}
           x == [r EXCEPT !.pc = c, !.cur = u, !.left = d, !.cut = t]
<1>1. r \in Run
  BY DEF Typed, TypeOK
<1>2. run'[p] = x /\ At(p, "decide") /\ ~shared
  BY OneRunMoves DEF ReadPosition, MayPass
<1> HIDE DEF c, u, d, t
<1>3. /\ x.pc = c /\ x.cur = u /\ x.left = d /\ x.cut = t /\ SameOrder(r, x)
      /\ x.cash = r.cash /\ x.open = r.open
  BY <1>1, Zenon DEF Run, SameOrder
<1> QED BY <1>2, <1>3 DEF c, u, d, t

(* A chunk moves the position towards the target and never past it.        *)
LEMMA TradeChunkDoes ==
  ASSUME Typed, NEW p \in Proc, NEW n \in 1..Chunk, TradeChunk(p, n)
  PROVE  \E q \in Int :
           /\ At(p, "trade") /\ Units(q) = n /\ n <= Units(run[p].left)
           /\ run[p].left > 0 <=> q > 0
           /\ pos' = [pos EXCEPT ![SymbolOf(p)] = run[p].cur + q]
           /\ run'[p].pc = "fill" /\ run'[p].last = q
           /\ run'[p].cash = run[p].cash - q
           /\ run'[p].cur = run[p].cur + q
           /\ run'[p].left = run[p].left - q
           /\ SameOrder(run[p], run'[p]) /\ SamePass(run[p], run'[p])
<1> DEFINE r == run[p]
           q == IF r.left > 0 THEN n ELSE -n
           cash1 == r.cash - q
           cur1 == r.cur + q
           left1 == r.left - q
           budget1 == r.budget - n
           x == [r EXCEPT !.pc = "fill", !.last = q, !.cash = cash1,
                          !.cur = cur1, !.left = left1, !.budget = budget1]
<1>1. r \in Run /\ r.left \in Int /\ r.budget \in Int
  BY DEF Typed, TypeOK, Run
<1>2. /\ Set(p, x) /\ At(p, "trade") /\ n \in 1..ChunkCap(p)
      /\ pos' = [pos EXCEPT ![SymbolOf(p)] = r.cur + q]
  BY DEF TradeChunk
<1>3. run'[p] = x
  BY <1>2, OneRunMoves
<1>4. n <= Units(r.left)
  BY <1>1, <1>2, SizesAssumption DEF ChunkCap, Smaller, Units
<1>5. q \in Int /\ Units(q) = n /\ (r.left > 0 <=> q > 0)
  BY <1>1, SizesAssumption DEF Units
<1> HIDE DEF q, cash1, cur1, left1, budget1
<1>6. /\ x.pc = "fill" /\ x.last = q /\ x.cash = cash1 /\ x.cur = cur1
      /\ x.left = left1 /\ SameOrder(r, x) /\ SamePass(r, x)
  BY <1>1, Zenon DEF Run, SameOrder, SamePass
<1> QED BY <1>2, <1>3, <1>4, <1>5, <1>6 DEF cash1, cur1, left1

(* The steps that only go to another place.                                *)
LEMMA GoDoes ==
  ASSUME Typed, NEW p \in Proc, NEW c, Set(p, [run[p] EXCEPT !.pc = c])
  PROVE  /\ run'[p].pc = c /\ SameOrder(run[p], run'[p])
         /\ SamePass(run[p], run'[p]) /\ SameTrade(run[p], run'[p])
<1>1. run[p] \in Run
  BY DEF Typed, TypeOK
<1>2. run'[p] = [run[p] EXCEPT !.pc = c]
  BY OneRunMoves
<1> QED BY <1>1, <1>2, SMT DEF Run, SameOrder, SamePass, SameTrade

(* The marks go on to the revaluation.                                     *)
LEMMA MarkDoes ==
  ASSUME Typed, NEW p \in Proc, Mark(p)
  PROVE  /\ At(p, "mark") /\ run'[p].pc = "revalue" /\ run'[p].cash = cash
         /\ SameOrder(run[p], run'[p]) /\ SamePass(run[p], run'[p])
<1> DEFINE r == run[p]
           x == [r EXCEPT !.pc = "revalue", !.cash = cash]
<1>1. r \in Run
  BY DEF Typed, TypeOK
<1>2. run'[p] = x /\ At(p, "mark")
  BY OneRunMoves DEF Mark
<1> QED BY <1>1, <1>2, SMT DEF Run, SameOrder, SamePass

(* A run that ends leaves its local variables as before it began.          *)
LEMMA EndDoes ==
  ASSUME Typed, NEW p \in Proc, Set(p, IdleRun)
  PROVE  run'[p].pc = "idle"
<1>1. IdleRun.pc = "idle"
  BY Zenon DEF IdleRun
<1> QED BY <1>1, OneRunMoves

(* After the revaluation the run marks its batch, or ends if it is done.   *)
LEMMA RevalueDoes ==
  ASSUME Typed, NEW p \in Proc, Revalue(p)
  PROVE  /\ At(p, "revalue") /\ cash' = run[p].cash
         /\ \/ run[p].done /\ run'[p].pc = "idle"
            \/ /\ ~run[p].done /\ run'[p].pc = "meta"
               /\ SameOrder(run[p], run'[p]) /\ SamePass(run[p], run'[p])
<1>1. CASE run[p].done
  <2>1. Set(p, IdleRun)
    BY <1>1 DEF Revalue
  <2> QED BY <1>1, <2>1, EndDoes DEF Revalue
<1>2. CASE ~run[p].done
  <2>1. Set(p, [run[p] EXCEPT !.pc = "meta"])
    BY <1>2 DEF Revalue
  <2> QED BY <1>2, <2>1, GoDoes DEF Revalue
<1> QED BY <1>1, <1>2

-----------------------------------------------------------------------------
(* One run after the other, as the lock of the job has it.                 *)
Serial == \A p, q \in Proc : ~At(p, "idle") /\ ~At(q, "idle") => p = q

(* The batch of a run that got past the guard is not applied yet.          *)
Fresh(p) ==
  ~At(p, "guard") /\ ~run[p].done => applied < run[p].batch

(* What a run knows of the position it trades is true.                     *)
Ready(p) ==
  run[p].pc \in {"trade", "fill", "filled"} =>
    /\ run[p].cur = pos[SymbolOf(p)]
    /\ run[p].left = OrderOf(p).units - run[p].cur

(* Order j of the batch is the last for its symbol among the first n.      *)
Final(b, j, n) ==
  \A k \in (j + 1)..n : Batches[b][k].symbol # Batches[b][j].symbol

(* The symbol of order j is at its target or is cut.                       *)
Met(p, j) ==
  LET o == Batches[run[p].batch][j] IN
  o.symbol \in run[p].cut \/ pos[o.symbol] = o.units

Reached(p, m, n) == \A j \in 1..m : Final(run[p].batch, j, n) => Met(p, j)

(* How many orders of its batch a run has behind it, by its place.         *)
Progress(p) ==
  LET r == run[p]
      n == Len(Batches[r.batch])
  IN
  /\ r.pc \in {"guard", "account"} => r.order = 0
  /\ r.pc = "next" => r.order <= n /\ Reached(p, r.order, r.order)
  /\ r.pc \in {"decide", "trade", "fill", "filled"} =>
       Reached(p, r.order - 1, r.order)
  /\ r.pc = "cash" \/ (r.pc \in {"mark", "revalue", "meta"} /\ ~r.done) =>
       Reached(p, n, n)

(* The chunk that is traded and not yet among the fills.                   *)
Pending(p, s) == IF At(p, "fill") /\ SymbolOf(p) = s THEN run[p].last ELSE 0

(* The cash that counts while run p is open: its own, until it is          *)
(* persisted.                                                              *)
Cash(p) ==
  IF run[p].pc \in {"next", "decide", "trade", "fill", "filled", "cash"}
    THEN run[p].cash ELSE cash

(* Cash and positions balance, and fills explain positions, during a       *)
(* run.                                                                    *)
Books(p) ==
  /\ aborts = 0 => Cash(p) + Held = 0
  /\ At(p, "revalue") => run[p].cash = cash
  /\ ~run[p].open => shared
  /\ shared => /\ run[p].pc \notin {"trade", "fill", "filled"}
               /\ Cash(p) = cash
  /\ At(p, "fill") => Units(run[p].last) <= Chunk
  /\ \A s \in Symbol : Units(pos[s] - Filled(s) - Pending(p, s)) <= aborts * Chunk

(* And between two runs.                                                   *)
Settled ==
  /\ aborts = 0 => cash + Held = 0
  /\ \A s \in Symbol : Units(pos[s] - Filled(s)) <= aborts * Chunk

(* The inductive invariant.                                                *)
IInv ==
  /\ Typed
  /\ \A p \in Proc : ~At(p, "idle") => Fresh(p) /\ Ready(p) /\ Progress(p) /\ Books(p)
  /\ Idle => Settled

(* Past the guard a run stays with its batch.                              *)
LEMMA Onward ==
  ASSUME Typed, NEW p \in Proc, Step(p), ~Load(p), ~Guard(p), ~At(p, "idle")'
  PROVE  /\ ~At(p, "idle") /\ ~At(p, "guard") /\ applied' = applied
         /\ run'[p].batch = run[p].batch /\ run'[p].done = run[p].done
<1> DEFINE r == run[p]
           s == run'[p]
<1>1. CASE ReadAccount(p) \/ SkipBatch(p)
  BY <1>1, ReadAccountDoes, SkipBatchDoes DEF ReadAccount, SkipBatch, At, SameOrder
<1>2. CASE NextOrder(p)
  BY <1>2, NextOrderDoes DEF NextOrder, At
<1>3. CASE Refuse(p) \/ PassOver(p) \/ Expire(p) \/ EndOrder(p)
  BY <1>3, LeaveDoes DEF Refuse, PassOver, Expire, EndOrder, At, SameOrder
<1>4. CASE ReadPosition(p)
  BY <1>4, ReadPositionDoes DEF ReadPosition, At, SameOrder
<1>5. ASSUME NEW n \in 1..Chunk, TradeChunk(p, n)
      PROVE  /\ ~At(p, "idle") /\ ~At(p, "guard") /\ applied' = applied
             /\ s.batch = r.batch /\ s.done = r.done
  BY <1>5, TradeChunkDoes DEF TradeChunk, At, SameOrder
<1>6. CASE WriteFill(p) \/ MarkFilled(p) \/ PersistCash(p)
  BY <1>6, GoDoes DEF WriteFill, MarkFilled, PersistCash, At, SameOrder
<1>7. CASE Mark(p) \/ Revalue(p)
  BY <1>7, MarkDoes, RevalueDoes DEF Mark, Revalue, At, SameOrder
<1>8. CASE ClosedHandle(p) \/ SetMeta(p) \/ Abort(p)
  BY <1>8, EndDoes DEF ClosedHandle, SetMeta, Abort, At
<1> QED BY <1>1, <1>2, <1>3, <1>4, <1>5, <1>6, <1>7, <1>8 DEF Step

(* A run past its guard stays ahead of the batch applied.                  *)
LEMMA FreshStays ==
  ASSUME IInv, NEW p \in Proc, Step(p), ~At(p, "idle")'
  PROVE  Fresh(p)'
<1> DEFINE r == run[p]
           s == run'[p]
<1>1. /\ Typed /\ r \in Run /\ Placed(r)
      /\ ~At(p, "idle") => Fresh(p)
  BY DEF IInv, Typed, TypeOK
<1>2. CASE Load(p)
  <2>1. s.pc \in {"guard", "mark"} /\ (s.pc = "mark" => s.done)
    BY <1>1, <1>2, LoadDoes
  <2> QED BY <2>1 DEF Fresh, At
<1>3. CASE Guard(p)
  <2>1. \/ s.pc = "mark" /\ s.done
        \/ s.pc = "account" /\ ~AlreadyApplied(p) /\ s.batch = r.batch
    BY <1>1, <1>3, GuardDoes
  <2>2. ~AlreadyApplied(p) => applied < r.batch
    <3>1. r.batch \in Int /\ applied \in Int
      BY <1>1 DEF Typed, TypeOK, Run, Batch
    <3> QED BY <3>1 DEF AlreadyApplied
  <2>3. applied' = applied
    BY <1>3 DEF Guard
  <2> QED BY <2>1, <2>2, <2>3 DEF Fresh, At
<1>4. CASE ~Load(p) /\ ~Guard(p)
  BY <1>1, <1>4, Onward DEF Fresh
<1> QED BY <1>2, <1>3, <1>4

(* What is still to trade stays what separates the position from its       *)
(* target.                                                                 *)
LEMMA ReadyStays ==
  ASSUME IInv, NEW p \in Proc, Step(p), ~At(p, "idle")'
  PROVE  Ready(p)'
<1> DEFINE r == run[p]
           s == run'[p]
<1>1. /\ Typed /\ r \in Run /\ Placed(r)
      /\ ~At(p, "idle") => Ready(p)
  BY DEF IInv, Typed, TypeOK
<1>2. CASE Load(p) \/ Guard(p) \/ ReadAccount(p) \/ SkipBatch(p) \/ Mark(p)
  BY <1>1, <1>2, LoadDoes, GuardDoes, ReadAccountDoes, SkipBatchDoes, MarkDoes DEF Ready
<1>3. CASE NextOrder(p) \/ PersistCash(p) \/ Revalue(p)
  BY <1>1, <1>3, NextOrderDoes, GoDoes, RevalueDoes DEF Ready, PersistCash, At
<1>4. CASE Refuse(p) \/ PassOver(p) \/ Expire(p) \/ EndOrder(p)
  BY <1>1, <1>4, LeaveDoes DEF Ready
<1>5. CASE ReadPosition(p)
  <2>1. /\ s.cur = pos[SymbolOf(p)] /\ s.left = OrderOf(p).units - pos[SymbolOf(p)]
        /\ SameOrder(r, s) /\ pos' = pos
    BY <1>1, <1>5, ReadPositionDoes DEF Delta, ReadPosition
  <2> QED BY <2>1 DEF Ready, SymbolOf, OrderOf, SameOrder
<1>6. ASSUME NEW n \in 1..Chunk, TradeChunk(p, n)
      PROVE  Ready(p)'
  <2>1. PICK q \in Int :
           /\ At(p, "trade")
           /\ pos' = [pos EXCEPT ![SymbolOf(p)] = run[p].cur + q]
           /\ s.cur = r.cur + q /\ s.left = r.left - q /\ SameOrder(r, s)
    BY <1>1, <1>6, TradeChunkDoes
  <2>2. /\ r.cur \in Int /\ r.left \in Int /\ SymbolOf(p) \in Symbol
        /\ OrderOf(p).units \in Int /\ pos \in [Symbol -> Int]
    BY <1>1, <2>1, OrderTyped DEF At, Run, Typed, TypeOK
  <2>3. SymbolOf(p)' = SymbolOf(p) /\ OrderOf(p)' = OrderOf(p)
    BY <2>1 DEF SymbolOf, OrderOf, SameOrder
  <2>4. pos'[SymbolOf(p)] = r.cur + q /\ r.left = OrderOf(p).units - r.cur
    BY <1>1, <2>1, <2>2 DEF Ready, At
  <2> QED BY <2>1, <2>2, <2>3, <2>4 DEF Ready
<1>7. CASE WriteFill(p) \/ MarkFilled(p)
  <2>1. /\ SameOrder(r, s) /\ SameTrade(r, s) /\ pos' = pos
        /\ r.pc \in {"fill", "filled"}
    BY <1>1, <1>7, GoDoes DEF WriteFill, MarkFilled, At
  <2> QED BY <1>1, <2>1 DEF Ready, SymbolOf, OrderOf, SameOrder, SameTrade, At
<1>8. CASE ClosedHandle(p) \/ SetMeta(p) \/ Abort(p)
  BY <1>1, <1>8, EndDoes DEF ClosedHandle, SetMeta, Abort, At
<1> QED BY <1>2, <1>3, <1>4, <1>5, <1>6, <1>7, <1>8 DEF Step

(* The orders behind a run stay met by the positions, or cut.              *)
LEMMA ProgressStays ==
  ASSUME IInv, NEW p \in Proc, Step(p), ~At(p, "idle")'
  PROVE  Progress(p)'
<1> DEFINE r == run[p]
           s == run'[p]
           n == Len(Batches[r.batch])
           orders == Batches[r.batch]
<1>1. /\ Typed /\ r \in Run /\ Placed(r) /\ pos \in [Symbol -> Int] /\ r.order \in Nat
      /\ ~At(p, "idle") => Progress(p) /\ Ready(p)
  BY DEF IInv, Typed, TypeOK, Run
<1>2. ASSUME s.batch = r.batch, s.cut = r.cut, pos' = pos
      PROVE  \A m, k \in Int : Reached(p, m, k) <=> Reached(p, m, k)'
  BY <1>2 DEF Reached, Met, Final
<1>3. ASSUME r.pc \in {"decide", "trade", "fill", "filled"}
      PROVE  /\ r.order \in 1..n /\ n \in Nat /\ SymbolOf(p) = orders[r.order].symbol
             /\ OrderOf(p).units = orders[r.order].units
             /\ SymbolOf(p) \in Symbol /\ OrderOf(p).units \in Int
             /\ \A j \in 1..(r.order - 1) : Final(r.batch, j, r.order) =>
                  Met(p, j) /\ orders[j].symbol # SymbolOf(p)
             /\ \A j \in 1..r.order : orders[j] \in Order
  <2>1. r.batch \in Batch /\ r.order \in DOMAIN orders
    BY <1>1, <1>3 DEF Placed
  <2>2. orders \in Seq(Order)
    BY <2>1, BatchesAssumption DEF Batch
  <2>3. r.order \in 1..n /\ n \in Nat /\ \A j \in 1..r.order : orders[j] \in Order
    BY <2>1, <2>2
  <2>4. SymbolOf(p) = orders[r.order].symbol /\ OrderOf(p).units = orders[r.order].units
    BY DEF SymbolOf, OrderOf
  <2>5. Reached(p, r.order - 1, r.order)
    BY <1>1, <1>3 DEF Progress, At
  <2>6. SymbolOf(p) \in Symbol /\ OrderOf(p).units \in Int
    BY <2>3, <2>4 DEF Order
  <2>7. ASSUME NEW j \in 1..(r.order - 1), Final(r.batch, j, r.order)
        PROVE  Met(p, j) /\ orders[j].symbol # SymbolOf(p)
    <3>1. r.order \in (j + 1)..r.order
      BY <2>3
    <3> QED BY <2>4, <2>5, <2>7, <3>1 DEF Reached, Final
  <2> QED BY <2>3, <2>4, <2>6, <2>7
<1>4. CASE Load(p) \/ Guard(p)
  BY <1>1, <1>4, LoadDoes, GuardDoes DEF Progress, At
<1>5. CASE ReadAccount(p)
  <2>1. r.pc = "account" /\ s.pc = "next" /\ s.order = r.order /\ s.batch = r.batch
    BY <1>1, <1>5, ReadAccountDoes DEF At, SameOrder
  <2>2. s.order = 0
    BY <1>1, <2>1 DEF Progress, At
  <2>3. n \in Nat
    <3>1. r.batch \in Batch
      BY <1>1, <2>1 DEF Placed
    <3> QED BY <3>1, BatchesAssumption DEF Batch
  <2> QED BY <2>1, <2>2, <2>3 DEF Progress, Reached
<1>6. CASE SkipBatch(p)
  <2>1. r.pc = "account" /\ s.pc = "mark" /\ s.cut = Symbol /\ s.batch = r.batch
    BY <1>1, <1>6, SkipBatchDoes DEF At, SameOrder
  <2>2. r.batch \in Batch
    BY <1>1, <2>1 DEF Placed
  <2>3. orders \in Seq(Order)
    BY <2>2, BatchesAssumption DEF Batch
  <2>4. \A j \in 1..n : orders[j] \in Order
    BY <2>3
  <2> QED BY <2>1, <2>4 DEF Progress, Reached, Met, Order
<1>7. CASE NextOrder(p)
  <2>1. /\ r.pc = "next" /\ s.batch = r.batch /\ s.cut = r.cut /\ pos' = pos
        /\ \/ s.pc = "decide" /\ s.order = r.order + 1
           \/ s.pc = "cash" /\ s.order = r.order /\ ~(r.order < n)
    BY <1>1, <1>7, NextOrderDoes DEF NextOrder, At, SamePass
  <2>2. r.order <= n /\ Reached(p, r.order, r.order)
    BY <1>1, <2>1 DEF Progress, At
  <2>3. n \in Nat
    <3>1. r.batch \in Batch
      BY <1>1, <2>1 DEF Placed
    <3> QED BY <3>1, BatchesAssumption DEF Batch
  <2>4. CASE s.pc = "decide" /\ s.order = r.order + 1
    <3> PICK o \in Nat : o = r.order
      BY <1>1
    <3>1. \A j \in 1..o : Final(r.batch, j, o + 1) => Final(r.batch, j, o)
      BY DEF Final
    <3>2. Reached(p, o, o + 1)
      BY <2>2, <3>1 DEF Reached
    <3>3. Reached(p, o, o + 1)'
      BY <1>2, <2>1, <3>2
    <3>4. s.order - 1 = o /\ s.order = o + 1
      BY <2>4
    <3> QED BY <2>4, <3>3, <3>4 DEF Progress
  <2>5. CASE s.pc = "cash" /\ s.order = r.order /\ ~(r.order < n)
    <3>1. r.order = n
      BY <1>1, <2>2, <2>3, <2>5
    <3>2. Reached(p, n, n)'
      BY <1>1, <1>2, <2>1, <2>2, <3>1
    <3> QED BY <2>1, <2>5, <3>2 DEF Progress
  <2> QED BY <2>1, <2>4, <2>5
<1>8. CASE Refuse(p) \/ PassOver(p) \/ Expire(p) \/ EndOrder(p)
  <2>1. /\ s.pc = "next" /\ s.batch = r.batch /\ s.order = r.order /\ pos' = pos
        /\ r.pc \in {"decide", "trade"}
        /\ \/ s.cut = r.cut \cup {SymbolOf(p)}
           \/ r.pc = "trade" /\ r.left = 0 /\ s.cut = r.cut
    BY <1>1, <1>8, LeaveDoes DEF Refuse, PassOver, Expire, EndOrder, At, SameOrder
  <2>2. ASSUME r.pc = "trade", r.left = 0
        PROVE  pos[SymbolOf(p)] = OrderOf(p).units
    <3>1. r.cur = pos[SymbolOf(p)] /\ r.left = OrderOf(p).units - r.cur
      BY <1>1, <2>2 DEF Ready, At
    <3> QED BY <1>1, <1>3, <2>2, <3>1
  <2>3. ASSUME NEW j \in 1..r.order, Final(r.batch, j, r.order)
        PROVE  Met(p, j)'
    <3>1. CASE j = r.order
      BY <1>3, <2>1, <2>2, <3>1 DEF Met
    <3>2. CASE j # r.order
      <4>1. j \in 1..(r.order - 1)
        BY <1>1, <3>2
      <4>2. Met(p, j) /\ orders[j].symbol # SymbolOf(p)
        BY <1>3, <2>1, <2>3, <4>1
      <4> QED BY <2>1, <4>2 DEF Met
    <3> QED BY <3>1, <3>2
  <2>4. Reached(p, r.order, r.order)'
    BY <2>1, <2>3 DEF Reached
  <2> QED BY <1>3, <2>1, <2>4 DEF Progress
<1>9. CASE ReadPosition(p)
  <2>1. /\ r.pc = "decide" /\ s.batch = r.batch /\ s.order = r.order /\ pos' = pos
        /\ s.cut = r.cut \ {SymbolOf(p)}
        /\ s.pc = IF Delta(p) = 0 THEN "next" ELSE "trade"
    BY <1>1, <1>9, ReadPositionDoes DEF ReadPosition, At, SameOrder
  <2>2. ASSUME NEW j \in 1..(r.order - 1), Final(r.batch, j, r.order)
        PROVE  Met(p, j)'
    BY <1>1, <1>3, <2>1, <2>2 DEF Met
  <2>3. CASE Delta(p) = 0
    <3>1. pos[SymbolOf(p)] = OrderOf(p).units
      BY <1>1, <1>3, <2>1, <2>3 DEF Delta
    <3>2. ASSUME NEW j \in 1..r.order, Final(r.batch, j, r.order)
          PROVE  Met(p, j)'
      <4>1. CASE j = r.order
        BY <1>3, <2>1, <3>1, <4>1 DEF Met
      <4>2. CASE j # r.order
        <5>1. j \in 1..(r.order - 1)
          BY <1>1, <4>2
        <5> QED BY <2>2, <3>2, <5>1
      <4> QED BY <4>1, <4>2
    <3>3. Reached(p, r.order, r.order)'
      BY <2>1, <3>2 DEF Reached
    <3> QED BY <1>3, <2>1, <2>3, <3>3 DEF Progress
  <2>4. CASE Delta(p) # 0
    <3>1. Reached(p, r.order - 1, r.order)'
      BY <2>1, <2>2 DEF Reached
    <3> QED BY <2>1, <2>4, <3>1 DEF Progress
  <2> QED BY <2>3, <2>4
<1>10. ASSUME NEW c \in 1..Chunk, TradeChunk(p, c)
       PROVE  Progress(p)'
  <2>1. PICK q \in Int :
           /\ r.pc = "trade" /\ s.pc = "fill" /\ SameOrder(r, s) /\ SamePass(r, s)
           /\ pos' = [pos EXCEPT ![SymbolOf(p)] = r.cur + q]
    BY <1>1, <1>10, TradeChunkDoes DEF At
  <2>2. ASSUME NEW j \in 1..(r.order - 1), Final(r.batch, j, r.order)
        PROVE  Met(p, j)'
    <3>1. Met(p, j) /\ orders[j].symbol # SymbolOf(p) /\ orders[j].symbol \in Symbol
      <4>1. j \in 1..r.order
        BY <1>1
      <4>2. orders[j] \in Order
        BY <1>3, <2>1, <4>1
      <4> QED BY <1>3, <2>1, <2>2, <4>2 DEF Order
    <3>2. pos'[orders[j].symbol] = pos[orders[j].symbol]
      BY <1>1, <2>1, <3>1
    <3> QED BY <2>1, <3>1, <3>2 DEF Met, SameOrder, SamePass
  <2>3. Reached(p, r.order - 1, r.order)'
    BY <2>1, <2>2 DEF Reached, SameOrder
  <2> QED BY <2>1, <2>3 DEF Progress, SameOrder
<1>11. CASE WriteFill(p) \/ MarkFilled(p)
  <2>1. /\ SameOrder(r, s) /\ SamePass(r, s) /\ pos' = pos
        /\ r.pc \in {"fill", "filled"} /\ s.pc \in {"filled", "trade"}
    BY <1>1, <1>11, GoDoes DEF WriteFill, MarkFilled, At
  <2>2. Reached(p, r.order - 1, r.order)
    BY <1>1, <2>1 DEF Progress, At
  <2>3. Reached(p, r.order - 1, r.order)'
    BY <1>1, <1>2, <2>1, <2>2 DEF SameOrder, SamePass
  <2> QED BY <2>1, <2>3 DEF Progress, SameOrder
<1>12. CASE PersistCash(p) \/ Mark(p) \/ Revalue(p)
  <2>1. /\ SameOrder(r, s) /\ SamePass(r, s) /\ pos' = pos
        /\ r.pc \in {"cash", "mark", "revalue"} /\ s.pc \in {"mark", "revalue", "meta"}
    BY <1>1, <1>12, GoDoes, MarkDoes, RevalueDoes DEF PersistCash, Mark, Revalue, At
  <2>2. CASE r.done /\ r.pc # "cash"
    BY <2>1, <2>2 DEF Progress, SameOrder
  <2>3. CASE ~r.done \/ r.pc = "cash"
    <3>1. n \in Int
      <4>1. r.batch \in Batch
        BY <1>1, <2>1, <2>3 DEF Placed
      <4> QED BY <4>1, BatchesAssumption DEF Batch
    <3>2. Reached(p, n, n)
      BY <1>1, <2>1, <2>3 DEF Progress, At
    <3>3. Reached(p, n, n)'
      BY <1>2, <2>1, <3>1, <3>2 DEF SameOrder, SamePass
    <3> QED BY <2>1, <3>3 DEF Progress, SameOrder
  <2> QED BY <2>2, <2>3
<1>13. CASE ClosedHandle(p) \/ SetMeta(p) \/ Abort(p)
  BY <1>1, <1>13, EndDoes DEF ClosedHandle, SetMeta, Abort, At
<1> QED
  BY <1>4, <1>5, <1>6, <1>7, <1>8, <1>9, <1>10, <1>11, <1>12, <1>13 DEF Step

-----------------------------------------------------------------------------
(* The sums.                                                               *)
LEMMA SumsTyped ==
  ASSUME Typed
  PROVE  Held \in Int /\ \A s \in Symbol : Filled(s) \in Int
<1>1. IsFiniteSet(Batch)
  BY BatchesAssumption, FS_Interval DEF Batch
<1>2. Held \in Int
  BY SymbolAssumption, SumPick DEF Typed, TypeOK, Held
<1>3. ASSUME NEW s \in Symbol
      PROVE  Filled(s) \in Int
  <2> DEFINE f == [b \in Batch |-> fills[b][s]]
  <2>1. \A b \in Batch : f[b] \in Int
    BY DEF Typed, TypeOK
  <2> HIDE DEF f
  <2>2. SumFunctionOnSet(f, Batch) \in Int
    BY <1>1, <2>1, SumPick
  <2> QED BY <2>2 DEF Filled, f
<1> QED BY <1>2, <1>3

(* One position changes, and the units held with it.                       *)
LEMMA HeldChanges ==
  ASSUME Typed, NEW c \in Symbol, NEW v \in Int, pos' = [pos EXCEPT ![c] = v]
  PROVE  Held' = Held - pos[c] + v
<1>1. pos \in [Symbol -> Int] /\ pos' \in [Symbol -> Int] /\ pos'[c] = v
  BY DEF Typed, TypeOK
<1>2. \A x \in Symbol : x # c => pos'[x] = pos[x]
  BY <1>1
<1>3. \A f, g \in [Symbol -> Int] :
        (\A x \in Symbol : x # c => g[x] = f[x]) =>
        SumFunctionOnSet(g, Symbol) = SumFunctionOnSet(f, Symbol) - f[c] + g[c]
  BY SymbolAssumption, SumChanges
<1> QED BY <1>1, <1>2, <1>3, Zenon DEF Held

(* One fill is written, and the sum of its symbol changes by it.           *)
LEMMA FilledChanges ==
  ASSUME Typed, NEW i \in Batch, NEW c \in Symbol, NEW v \in Int,
         fills' = [fills EXCEPT ![i][c] = fills[i][c] + v]
  PROVE  /\ Filled(c)' = Filled(c) + v
         /\ \A s \in Symbol : s # c => Filled(s)' = Filled(s)
<1>1. fills \in [Batch -> [Symbol -> Int]] /\ IsFiniteSet(Batch)
  BY BatchesAssumption, FS_Interval DEF Batch, Typed, TypeOK
<1> DEFINE f(s) == [b \in Batch |-> fills[b][s]]
           g(s) == [b \in Batch |-> fills'[b][s]]
<1>2. /\ f(c) \in [Batch -> Int] /\ g(c) \in [Batch -> Int]
      /\ \A b \in Batch : b # i => g(c)[b] = f(c)[b]
      /\ g(c)[i] = f(c)[i] + v
  BY <1>1
<1>3. \A s \in Symbol : s # c => g(s) = f(s)
  BY <1>1
<1>4. /\ Filled(c)' = SumFunctionOnSet(g(c), Batch)
      /\ Filled(c) = SumFunctionOnSet(f(c), Batch)
  BY DEF Filled
<1>5. Filled(c)' = Filled(c) + v
  <2> HIDE DEF f, g
  <2>1. SumFunctionOnSet(g(c), Batch) =
          SumFunctionOnSet(f(c), Batch) - f(c)[i] + g(c)[i]
    BY <1>1, <1>2, SumChanges
  <2>2. Filled(c) \in Int /\ f(c)[i] \in Int
    BY <1>2, SumsTyped
  <2> QED BY <1>2, <1>4, <2>1, <2>2
<1>6. \A s \in Symbol : s # c => Filled(s)' = Filled(s)
  BY <1>3, Zenon DEF Filled
<1> QED BY <1>5, <1>6

(* At first nothing is held, filled or paid.                               *)
LEMMA InitSettled ==
  ASSUME Init
  PROVE  Settled
<1>1. Held = 0
  BY SymbolAssumption, SumOfZeros DEF Init, Held
<1>2. ASSUME NEW s \in Symbol
      PROVE  Filled(s) = 0
  <2> DEFINE f == [b \in Batch |-> fills[b][s]]
  <2>1. \A b \in Batch : f[b] = 0
    BY DEF Init
  <2>2. IsFiniteSet(Batch)
    BY BatchesAssumption, FS_Interval DEF Batch
  <2> HIDE DEF f
  <2>3. SumFunctionOnSet(f, Batch) = 0
    BY <2>1, <2>2, SumOfZeros
  <2> QED BY <2>3 DEF Filled, f
<1>3. cash = 0 /\ aborts * Chunk = 0 /\ \A s \in Symbol : pos[s] = 0
  BY SizesAssumption DEF Init
<1> QED BY <1>1, <1>2, <1>3 DEF Settled, Units

(* An account that no step of the run writes.                              *)
Untouched == UNCHANGED <<cash, pos, fills, shared>>

(* Where positions and fills stay, so do their sums.                       *)
LEMMA SumsStay ==
  ASSUME UNCHANGED <<pos, fills>>
  PROVE  Held' = Held /\ \A s \in Symbol : Filled(s)' = Filled(s)
BY DEF Held, Filled

(* Every step keeps the books of the run that is open, or settles them.    *)
LEMMA BooksStay ==
  ASSUME IInv, NEW p \in Proc, Step(p), At(p, "idle") => Settled
  PROVE  IF At(p, "idle")' THEN Settled' ELSE Books(p)'
<1> DEFINE r == run[p]
           s == run'[p]
<1>1. /\ Typed /\ r \in Run /\ aborts \in Nat /\ Chunk \in Nat /\ aborts * Chunk \in Nat
      /\ cash \in Int /\ pos \in [Symbol -> Int]
      /\ r.cash \in Int /\ r.cur \in Int /\ r.left \in Int /\ r.last \in Int
      /\ ~At(p, "idle") => Books(p) /\ Ready(p)
  BY SizesAssumption DEF IInv, Typed, TypeOK, Run
<1>2. Held \in Int /\ \A c \in Symbol : Filled(c) \in Int
  BY <1>1, SumsTyped
<1>3. UNCHANGED <<pos, fills>> => Held' = Held /\ \A c \in Symbol : Filled(c)' = Filled(c)
  BY SumsStay
<1>4. CASE Load(p)
  <2>1. /\ r.pc = "idle" /\ s.pc \in {"guard", "mark"} /\ s.open
        /\ UNCHANGED <<cash, pos, fills, shared, aborts>>
    BY <1>1, <1>4, LoadDoes DEF Load, At
  <2>2. \A c \in Symbol : Pending(p, c)' = 0
    BY <2>1 DEF Pending, At
  <2>3. Settled
    BY <1>4 DEF Load
  <2>4. \A c \in Symbol : Units(pos'[c] - Filled(c)' - Pending(p, c)') <= aborts' * Chunk
    BY <1>1, <1>2, <1>3, <2>1, <2>2, <2>3 DEF Settled
  <2> QED BY <1>3, <2>1, <2>3, <2>4 DEF Settled, Books, Cash, At
<1>5. CASE Guard(p) \/ ReadAccount(p) \/ SkipBatch(p)
  <2>1. /\ r.pc \in {"guard", "account"} /\ s.pc \in {"mark", "account", "next"}
        /\ s.pc = "next" => s.cash = cash
        /\ s.open = r.open
        /\ UNCHANGED <<cash, pos, fills, shared, aborts>>
    BY <1>1, <1>5, GuardDoes, ReadAccountDoes, SkipBatchDoes
    DEF Guard, ReadAccount, SkipBatch, At, SamePass
  <2>2. \A c \in Symbol : Pending(p, c)' = 0 /\ Pending(p, c) = 0
    BY <2>1 DEF Pending, At
  <2>3. Books(p) /\ ~At(p, "idle")
    BY <1>1, <2>1 DEF At
  <2>4. \A c \in Symbol : Units(pos'[c] - Filled(c)' - Pending(p, c)') <= aborts' * Chunk
    BY <1>1, <1>2, <1>3, <2>1, <2>2, <2>3 DEF Books
  <2> QED BY <1>3, <2>1, <2>3, <2>4 DEF Books, Cash, At
<1>6. CASE NextOrder(p) \/ Refuse(p) \/ PassOver(p) \/ Expire(p) \/ EndOrder(p)
             \/ ReadPosition(p)
  <2>1. /\ r.pc \in {"next", "decide", "trade"} /\ s.pc \in {"next", "decide", "cash", "trade"}
        /\ s.pc = "trade" => ~shared
        /\ s.cash = r.cash /\ (s.open = r.open \/ s.open = ~shared)
        /\ UNCHANGED <<cash, pos, fills, shared, aborts>>
    <3>1. CASE NextOrder(p)
      BY <1>1, <3>1, NextOrderDoes DEF NextOrder, At, SamePass, SameTrade
    <3>2. CASE ReadPosition(p)
      BY <1>1, <3>2, ReadPositionDoes DEF ReadPosition, At
    <3>3. CASE Refuse(p) \/ PassOver(p) \/ Expire(p) \/ EndOrder(p)
      BY <1>1, <3>3, LeaveDoes DEF Refuse, PassOver, Expire, EndOrder, At, SameTrade
    <3> QED BY <1>6, <3>1, <3>2, <3>3
  <2>2. \A c \in Symbol : Pending(p, c)' = 0 /\ Pending(p, c) = 0
    BY <2>1 DEF Pending, At
  <2>3. Books(p) /\ ~At(p, "idle")
    BY <1>1, <2>1 DEF At
  <2>4. \A c \in Symbol : Units(pos'[c] - Filled(c)' - Pending(p, c)') <= aborts' * Chunk
    BY <1>1, <1>2, <1>3, <2>1, <2>2, <2>3 DEF Books
  <2> QED BY <1>3, <2>1, <2>3, <2>4 DEF Books, Cash, At
<1>7. ASSUME NEW n \in 1..Chunk, TradeChunk(p, n)
      PROVE  ~At(p, "idle")' /\ Books(p)'
  <2>1. PICK q \in Int :
           /\ r.pc = "trade" /\ Units(q) = n /\ s.pc = "fill" /\ s.last = q
           /\ pos' = [pos EXCEPT ![SymbolOf(p)] = r.cur + q]
           /\ s.cash = r.cash - q /\ SameOrder(r, s) /\ s.open = r.open
    BY <1>1, <1>7, TradeChunkDoes DEF At, SamePass
  <2>2. UNCHANGED <<cash, fills, shared, aborts>>
    BY <1>7 DEF TradeChunk
  <2>3. Books(p) /\ ~At(p, "idle") /\ r.cur = pos[SymbolOf(p)]
    BY <1>1, <2>1 DEF At, Ready
  <2>4. SymbolOf(p) \in Symbol /\ SymbolOf(p)' = SymbolOf(p)
    BY <1>1, <2>1, OrderTyped DEF SymbolOf, OrderOf, SameOrder
  <2>5. Held' = Held + q
    <3>1. PICK y \in Symbol : y = SymbolOf(p)
      BY <2>4
    <3>2. PICK v \in Int : v = r.cur + q
      BY <1>1
    <3>3. pos' = [pos EXCEPT ![y] = v]
      BY <2>1, <3>1, <3>2
    <3>4. Held' = Held - pos[y] + v
      BY <1>1, <3>3, HeldChanges
    <3> QED BY <1>1, <1>2, <2>3, <3>1, <3>2, <3>4
  <2>6. \A c \in Symbol : Filled(c)' = Filled(c)
    BY <2>2 DEF Filled
  <2>7. \A c \in Symbol : /\ Pending(p, c) = 0
                          /\ Pending(p, c)' = IF c = SymbolOf(p) THEN q ELSE 0
                          /\ pos'[c] = IF c = SymbolOf(p) THEN pos[c] + q ELSE pos[c]
    BY <1>1, <2>1, <2>3, <2>4 DEF Pending, At
  <2>8. \A c \in Symbol : Units(pos'[c] - Filled(c)' - Pending(p, c)') <= aborts' * Chunk
    <3> SUFFICES ASSUME NEW c \in Symbol
                 PROVE  Units(pos'[c] - Filled(c)' - Pending(p, c)') <= aborts * Chunk
      BY <2>2
    <3>1. pos'[c] - Filled(c)' - Pending(p, c)' = pos[c] - Filled(c) - Pending(p, c)
      BY <1>1, <1>2, <2>6, <2>7
    <3> QED BY <2>3, <3>1 DEF Books
  <2>9. ~shared /\ aborts = 0 => r.cash + Held = 0
    BY <2>1, <2>3 DEF Books, Cash
  <2>10. aborts = 0 => s.cash + Held' = 0
    BY <1>1, <1>2, <2>1, <2>3, <2>5 DEF Books, Cash
  <2>11. ~shared
    BY <2>1, <2>3 DEF Books
  <2> QED BY <2>1, <2>2, <2>3, <2>8, <2>10, <2>11 DEF Books, Cash, At
<1>8. CASE WriteFill(p)
  <2>1. /\ r.pc = "fill" /\ s.pc = "filled" /\ SameTrade(r, s) /\ SameOrder(r, s)
        /\ s.open = r.open /\ UNCHANGED <<cash, pos, shared, aborts>>
        /\ fills' = [fills EXCEPT ![r.batch][SymbolOf(p)] =
                       fills[r.batch][SymbolOf(p)] + r.last]
    BY <1>1, <1>8, GoDoes DEF WriteFill, At, SamePass
  <2>2. SymbolOf(p) \in Symbol /\ r.batch \in Batch
    BY <1>1, <2>1, OrderTyped
  <2>3. PICK y \in Symbol : y = SymbolOf(p)
    BY <2>2
  <2>4. Books(p) /\ ~At(p, "idle")
    BY <1>1, <2>1 DEF At
  <2>5. ASSUME NEW c \in Symbol
        PROVE  Units(pos'[c] - Filled(c)' - Pending(p, c)') <= aborts' * Chunk
    <3>1. fills' = [fills EXCEPT ![r.batch][y] = fills[r.batch][y] + r.last]
      BY <2>1, <2>3
    <3>2. Filled(c)' = IF c = y THEN Filled(c) + r.last ELSE Filled(c)
      BY <1>1, <2>2, <3>1, FilledChanges
    <3>3. Pending(p, c)' = 0 /\ Pending(p, c) = IF c = y THEN r.last ELSE 0
      BY <2>1, <2>3 DEF Pending, At
    <3>4. pos[c] - Filled(c)' - Pending(p, c)' = pos[c] - Filled(c) - Pending(p, c)
      BY <1>1, <1>2, <3>2, <3>3
    <3> QED BY <2>1, <2>4, <3>4 DEF Books
  <2>6. Held' = Held
    BY <2>1 DEF Held
  <2> QED BY <2>1, <2>4, <2>5, <2>6 DEF Books, Cash, At, SameTrade
<1>9. CASE MarkFilled(p) \/ PersistCash(p) \/ Mark(p)
  <2>1. /\ r.pc \in {"filled", "cash", "mark"} /\ s.open = r.open
        /\ UNCHANGED <<pos, fills, shared, aborts>>
        /\ \/ r.pc = "filled" /\ s.pc = "trade" /\ s.cash = r.cash /\ cash' = cash
           \/ r.pc = "cash" /\ s.pc = "mark" /\ cash' = r.cash
           \/ r.pc = "mark" /\ s.pc = "revalue" /\ s.cash = cash /\ cash' = cash
    BY <1>1, <1>9, GoDoes, MarkDoes
    DEF MarkFilled, PersistCash, Mark, At, SamePass, SameTrade
  <2>2. \A c \in Symbol : Pending(p, c)' = 0 /\ Pending(p, c) = 0
    BY <2>1 DEF Pending, At
  <2>3. Books(p) /\ ~At(p, "idle")
    BY <1>1, <2>1 DEF At
  <2>4. \A c \in Symbol : Units(pos'[c] - Filled(c)' - Pending(p, c)') <= aborts' * Chunk
    BY <1>1, <1>2, <1>3, <2>1, <2>2, <2>3 DEF Books
  <2> QED BY <1>3, <2>1, <2>3, <2>4 DEF Books, Cash, At
<1>10. CASE Revalue(p) \/ SetMeta(p) \/ ClosedHandle(p)
  <2>1. /\ r.pc \in {"revalue", "meta", "next"} /\ (s.pc = "idle" \/ (s.pc = "meta" /\ s.open = r.open))
        /\ UNCHANGED <<pos, fills, shared, aborts>>
        /\ \/ r.pc = "revalue" /\ cash' = r.cash
           \/ r.pc = "meta" /\ cash' = cash
           \/ r.pc = "next" /\ ~r.open /\ s.pc = "idle" /\ cash' = cash
    BY <1>1, <1>10, RevalueDoes, EndDoes
    DEF Revalue, SetMeta, ClosedHandle, At, SamePass
  <2>2. \A c \in Symbol : Pending(p, c)' = 0 /\ Pending(p, c) = 0
    BY <2>1 DEF Pending, At
  <2>3. Books(p) /\ ~At(p, "idle")
    BY <1>1, <2>1 DEF At
  <2>4. \A c \in Symbol : Units(pos'[c] - Filled(c)' - Pending(p, c)') <= aborts' * Chunk
    BY <1>1, <1>2, <1>3, <2>1, <2>2, <2>3 DEF Books
  <2>5. cash' = cash /\ (aborts = 0 => cash + Held = 0)
    BY <2>1, <2>3 DEF Books, Cash, At
  <2>6. \A c \in Symbol : Units(pos'[c] - Filled(c)') <= aborts' * Chunk
    BY <1>1, <1>2, <1>3, <2>1, <2>2, <2>4
  <2> QED BY <1>3, <2>1, <2>3, <2>4, <2>5, <2>6 DEF Books, Settled, Cash, At
<1>11. CASE Abort(p)
  <2>1. s.pc = "idle" /\ aborts' = aborts + 1 /\ UNCHANGED <<cash, pos, fills, shared>>
    BY <1>1, <1>11, EndDoes DEF Abort
  <2>2. Books(p) /\ ~At(p, "idle")
    BY <1>1, <1>11 DEF Abort
  <2>3. \A c \in Symbol : Pending(p, c) \in Int /\ Units(Pending(p, c)) <= Chunk
    BY <1>1, <2>2 DEF Pending, Books, Units
  <2>4. aborts' * Chunk = aborts * Chunk + Chunk
    BY <1>1, <2>1
  <2>5. \A c \in Symbol : Units(pos'[c] - Filled(c)') <= aborts' * Chunk
    <3> SUFFICES ASSUME NEW c \in Symbol
                 PROVE  Units(pos[c] - Filled(c)) <= aborts * Chunk + Chunk
      BY <1>3, <2>1, <2>4
    <3>1. Units(pos[c] - Filled(c) - Pending(p, c)) <= aborts * Chunk
      BY <2>2 DEF Books
    <3> QED BY <1>1, <1>2, <2>3, <3>1 DEF Units
  <2> QED BY <1>1, <2>1, <2>5 DEF Settled, At
<1> QED
  BY <1>4, <1>5, <1>6, <1>7, <1>8, <1>9, <1>10, <1>11 DEF Step

-----------------------------------------------------------------------------
(* The invariant holds at first.                                           *)
LEMMA InitInvariant == Init => IInv
<1> SUFFICES ASSUME Init
             PROVE  IInv
  OBVIOUS
<1>1. \A p \in Proc : At(p, "idle")
  BY IdleTyped, Zenon DEF Init, At, IdleRun
<1> QED BY <1>1, InitTyped, InitSettled DEF IInv

(* While p takes a step the other runs are idle.                           *)
LEMMA OthersIdle ==
  ASSUME Typed, Serial, Serial', NEW p \in Proc, Step(p), NEW q \in Proc, q # p
  PROVE  At(q, "idle") /\ run'[q] = run[q]
<1>1. PICK s \in Run : Set(p, s)
  BY RunTyped
<1>2. run'[q] = run[q]
  BY <1>1, OneRunMoves
<1>3. CASE ~At(p, "idle")
  BY <1>2, <1>3 DEF Serial
<1>4. CASE At(p, "idle")
  <2>1. Load(p)
    BY <1>4, Zenon DEF Step, At, Load, Guard, ReadAccount, SkipBatch, NextOrder, Refuse,
      ClosedHandle, PassOver, ReadPosition, Expire, EndOrder, TradeChunk, WriteFill,
      MarkFilled, PersistCash, Mark, Revalue, SetMeta, Abort
  <2>2. ~At(p, "idle")'
    BY <2>1, LoadDoes DEF At
  <2>3. At(q, "idle")'
    BY <2>2 DEF Serial
  <2> QED BY <1>2, <2>3 DEF At
<1> QED BY <1>3, <1>4

(* The invariant is inductive where runs do not overlap.                   *)
LEMMA NextInvariant ==
  ASSUME IInv, Serial, Serial', [Next]_vars
  PROVE  IInv'
<1>1. Typed /\ Typed'
  BY NextTyped DEF IInv
<1>2. CASE NewBatch \/ UNCHANGED vars
  <2>1. UNCHANGED <<applied, cash, pos, fills, run, aborts, shared>>
    BY <1>2 DEF NewBatch, vars
  <2>2. Held' = Held /\ \A s \in Symbol : Filled(s)' = Filled(s)
    BY <2>1, SumsStay
  <2>3. Settled => Settled'
    BY <2>1, <2>2 DEF Settled
  <2>4. ASSUME NEW p \in Proc
        PROVE  /\ (At(p, "idle") <=> At(p, "idle")')
               /\ Fresh(p) => Fresh(p)'
               /\ Ready(p) => Ready(p)'
               /\ Progress(p) => Progress(p)'
               /\ Books(p) => Books(p)'
    <3>1. (At(p, "idle") <=> At(p, "idle")') /\ (Fresh(p) => Fresh(p)')
      BY <2>1 DEF At, Fresh
    <3>2. Ready(p) => Ready(p)'
      BY <2>1 DEF Ready, SymbolOf, OrderOf
    <3>3. Progress(p) => Progress(p)'
      BY <2>1 DEF Progress, Reached, Met, Final
    <3>4. Books(p) => Books(p)'
      BY <2>1, <2>2 DEF Books, Cash, Pending, At, SymbolOf, OrderOf
    <3> QED BY <3>1, <3>2, <3>3, <3>4
  <2> QED BY <1>1, <2>3, <2>4 DEF IInv, Idle
<1>3. ASSUME NEW p \in Proc, Step(p)
      PROVE  IInv'
  <2>1. At(p, "idle") => Settled
    BY <1>1, <1>3, OthersIdle DEF IInv, Idle
  <2>2. IF At(p, "idle")' THEN Settled' ELSE Books(p)'
    BY <1>3, <2>1, BooksStay
  <2>3. ~At(p, "idle")' => Fresh(p)' /\ Ready(p)' /\ Progress(p)'
    BY <1>3, FreshStays, ReadyStays, ProgressStays
  <2>4. \A q \in Proc : q # p => At(q, "idle")'
    BY <1>1, <1>3, OthersIdle DEF At
  <2> QED BY <1>1, <2>2, <2>3, <2>4 DEF IInv, Idle
<1> QED BY <1>2, <1>3 DEF Next

(* The invariant holds throughout where runs do not overlap.               *)
LEMMA Invariant == Spec /\ []Serial => []IInv
BY InitInvariant, NextInvariant, PTL DEF Spec

(* One process runs its runs one after the other, so the theorems below    *)
(* hold of it without a further assumption.                                *)
LEMMA OneProcess == \A p : Proc = {p} => Serial
BY DEF Serial

(* Runs that come one after the other mark a batch as applied at most once *)
(* (broker_sim.py:543), however many of them exceptions end.               *)
THEOREM AppliesOnce == Spec /\ []Serial => AppliedOnce
<1>1. ASSUME IInv
      PROVE  \A p \in Proc : SetMeta(p) => applied < run[p].batch
  <2> SUFFICES ASSUME NEW p \in Proc, SetMeta(p)
               PROVE  applied < run[p].batch
    OBVIOUS
  <2>1. Placed(run[p]) /\ run[p].pc = "meta" /\ Fresh(p)
    BY <1>1 DEF IInv, Typed, SetMeta, At
  <2> QED BY <2>1 DEF Placed, Fresh, At
<1> QED BY <1>1, Invariant, PTL DEF AppliedOnce

(* A batch that is marked as applied has every symbol at the target of its *)
(* last order, but for the ones the run had to cut.                        *)
THEOREM ReachesTargets == Spec /\ []Serial => AppliedMeansReached
<1> DEFINE A == \A p \in Proc : SetMeta(p) =>
                  LET want == TargetsOf(run[p].batch) IN
                  \A s \in DOMAIN want \ run[p].cut : pos[s] = want[s]
<1>1. ASSUME IInv
      PROVE  A
  <2> SUFFICES ASSUME NEW p \in Proc, SetMeta(p),
                      NEW s \in DOMAIN TargetsOf(run[p].batch), s \notin run[p].cut
               PROVE  pos[s] = TargetsOf(run[p].batch)[s]
    OBVIOUS
  <2>1. Placed(run[p]) /\ run[p].pc = "meta" /\ Progress(p)
    BY <1>1 DEF IInv, Typed, SetMeta, At
  <2>2. run[p].batch \in Batch /\ ~run[p].done
    BY <2>1 DEF Placed
  <2> DEFINE orders == Batches[run[p].batch]
             n == Len(orders)
  <2>3. n \in Nat /\ DOMAIN orders = 1..n
    BY <2>2, BatchesAssumption DEF Batch
  <2>4. Reached(p, n, n)
    BY <2>1, <2>2 DEF Progress
  <2>5. PICK j \in DOMAIN orders :
           /\ orders[j].symbol = s
           /\ \A k \in DOMAIN orders : k > j => orders[k].symbol # s
           /\ TargetsOf(run[p].batch)[s] = orders[j].units
    BY <2>2, LastOrder
  <2>6. Final(run[p].batch, j, n)
    BY <2>3, <2>5 DEF Final
  <2>7. Met(p, j)
    BY <2>3, <2>4, <2>5, <2>6 DEF Reached
  <2> QED BY <2>5, <2>7 DEF Met
<1> QED BY <1>1, Invariant, PTL DEF AppliedMeansReached

(* A position moves only towards the target of the order being traded and  *)
(* not beyond it.                                                          *)
THEOREM NeverOvershoots == Spec /\ []Serial => NoOvershoot
<1> DEFINE A == \A s \in Symbol : pos'[s] # pos[s] =>
                  \E p \in Proc :
                    /\ At(p, "trade") /\ SymbolOf(p) = s
                    /\ LET u == OrderOf(p).units IN
                       pos'[s] \in IF pos[s] < u THEN pos[s]..u ELSE u..pos[s]
<1>1. ASSUME IInv, [Next]_vars
      PROVE  [A]_vars
  <2> SUFFICES ASSUME NEW s \in Symbol, pos'[s] # pos[s]
               PROVE  \E p \in Proc :
                        /\ At(p, "trade") /\ SymbolOf(p) = s
                        /\ LET u == OrderOf(p).units IN
                           pos'[s] \in IF pos[s] < u THEN pos[s]..u ELSE u..pos[s]
    OBVIOUS
  <2>1. pos' # pos
    OBVIOUS
  <2>2. PICK p \in Proc, n \in 1..Chunk : TradeChunk(p, n)
    BY <1>1, <2>1, Zenon DEF Next, Step, vars, NewBatch, Load, Guard, ReadAccount,
      SkipBatch, NextOrder, Refuse, ClosedHandle, PassOver, ReadPosition, Expire,
      EndOrder, WriteFill, MarkFilled, PersistCash, Mark, Revalue, SetMeta, Abort
  <2>3. Typed /\ Ready(p)
    BY <1>1, <2>2 DEF IInv, TradeChunk, At
  <2>4. PICK q \in Int :
           /\ At(p, "trade") /\ Units(q) = n /\ n <= Units(run[p].left)
           /\ run[p].left > 0 <=> q > 0
           /\ pos' = [pos EXCEPT ![SymbolOf(p)] = run[p].cur + q]
    BY <2>2, <2>3, TradeChunkDoes
  <2>5. /\ pos \in [Symbol -> Int] /\ SymbolOf(p) \in Symbol
        /\ OrderOf(p).units \in Int /\ run[p].left \in Int /\ run[p].cur \in Int
    BY <2>3, <2>4, OrderTyped DEF At, Typed, TypeOK, Run
  <2>6. SymbolOf(p) = s /\ pos'[s] = run[p].cur + q
    BY <2>4, <2>5
  <2>7. run[p].cur = pos[s] /\ run[p].left = OrderOf(p).units - pos[s]
    BY <2>3, <2>4, <2>6 DEF Ready, At
  <2>8. pos'[s] \in IF pos[s] < OrderOf(p).units THEN pos[s]..OrderOf(p).units
                    ELSE OrderOf(p).units..pos[s]
    BY <2>4, <2>5, <2>6, <2>7 DEF Units
  <2> QED BY <2>4, <2>6, <2>8
<1> QED BY <1>1, Invariant, PTL DEF NoOvershoot, Spec

(* Trading creates no worth: with no run ended by an exception, cash and   *)
(* positions cancel out whenever the broker rests.                         *)
THEOREM ConservesWorth == Spec /\ []Serial => []WorthIsConserved
<1>1. IInv => WorthIsConserved
  BY DEF IInv, Settled, WorthIsConserved
<1> QED BY <1>1, Invariant, PTL

(* The fills account for the positions, but for one chunk for each run an  *)
(* exception ended.                                                        *)
THEOREM FillsExplain == Spec /\ []Serial => []FillsExplainPositions
<1>1. IInv => FillsExplainPositions
  BY DEF IInv, Settled, FillsExplainPositions
<1> QED BY <1>1, Invariant, PTL
-----------------------------------------------------------------------------
(* The broker implements Rebalance.                                        *)

(* A run trades a batch that was published, and it has cut nothing before  *)
(* it gets past the guard.                                                 *)
Known(p) ==
  ~At(p, "idle") => run[p].batch <= latest /\ (At(p, "guard") => run[p].cut = {})

(* Batches only become more, so a run's own stays known.                   *)
LEMMA KnownStays ==
  ASSUME Typed, \A p \in Proc : Known(p), [Next]_vars
  PROVE  (\A p \in Proc : Known(p))'
<1>1. CASE NewBatch
  <2>1. latest \in Int /\ latest' = latest + 1 /\ run' = run
    BY <1>1 DEF NewBatch, Typed, TypeOK, Batch
  <2>2. \A p \in Proc : run[p].batch \in Int
    BY DEF Typed, TypeOK, Run, Batch
  <2> QED BY <2>1, <2>2 DEF Known, At
<1>2. ASSUME NEW p \in Proc, Step(p)
      PROVE  (\A q \in Proc : Known(q))'
  <2>1. latest' = latest
    BY <1>2, Zenon DEF Step, Load, Guard, ReadAccount, SkipBatch, NextOrder,
      Refuse, ClosedHandle, PassOver, ReadPosition, Expire, EndOrder, TradeChunk,
      WriteFill, MarkFilled, PersistCash, Mark, Revalue, SetMeta, Abort
  <2>2. PICK r \in Run : Set(p, r)
    BY <1>2, RunTyped
  <2>3. \A q \in Proc : q # p => Known(q)'
    BY <2>1, <2>2, OneRunMoves DEF Known, At
  <2>4. CASE Load(p)
    <3> DEFINE c == IF latest = 0 THEN "mark" ELSE "guard"
               x == [IdleRun EXCEPT !.pc = c, !.batch = latest, !.done = latest = 0]
    <3>1. run'[p] = x
      BY <2>4, OneRunMoves DEF Load
    <3>2. x.batch = latest /\ x.cut = {}
      BY Zenon DEF IdleRun
    <3>3. latest \in Int
      BY DEF Typed, TypeOK, Batch
    <3> HIDE DEF x
    <3> QED BY <2>1, <2>3, <3>1, <3>2, <3>3 DEF Known
  <2>5. CASE Guard(p)
    BY <2>1, <2>3, <2>5, GuardDoes DEF Known, At
  <2>6. CASE ~Load(p) /\ ~Guard(p) /\ ~At(p, "idle")'
    <3>1. ~At(p, "idle") /\ run'[p].batch = run[p].batch
      BY <1>2, <2>6, Onward
    <3>2. ~At(p, "guard")'
      <4>1. CASE ReadAccount(p) \/ SkipBatch(p) \/ NextOrder(p) \/ ReadPosition(p)
        BY <4>1, ReadAccountDoes, SkipBatchDoes, NextOrderDoes, ReadPositionDoes DEF At
      <4>2. CASE Refuse(p) \/ PassOver(p) \/ Expire(p) \/ EndOrder(p)
        BY <4>2, LeaveDoes DEF At
      <4>3. ASSUME NEW n \in 1..Chunk, TradeChunk(p, n)
            PROVE  ~At(p, "guard")'
        BY <4>3, TradeChunkDoes DEF At
      <4>4. CASE WriteFill(p) \/ MarkFilled(p) \/ PersistCash(p)
        BY <4>4, GoDoes DEF WriteFill, MarkFilled, PersistCash, At
      <4>5. CASE Mark(p) \/ Revalue(p)
        BY <4>5, MarkDoes, RevalueDoes DEF At
      <4>6. CASE ClosedHandle(p) \/ SetMeta(p) \/ Abort(p)
        BY <4>6, EndDoes DEF ClosedHandle, SetMeta, Abort, At
      <4> QED BY <1>2, <2>6, <4>1, <4>2, <4>3, <4>4, <4>5, <4>6 DEF Step
    <3> QED BY <2>1, <2>3, <3>1, <3>2 DEF Known
  <2>7. CASE At(p, "idle")'
    BY <2>3, <2>7 DEF Known
  <2> QED BY <2>4, <2>5, <2>6, <2>7
<1>3. CASE UNCHANGED vars
  BY <1>3 DEF vars, Known, At
<1> QED BY <1>1, <1>2, <1>3 DEF Next

(* A pass, by its batch, the order it is at and what it gave up.           *)
Pass(b, n, S) == [batch |-> b, order |-> n, left |-> S]

(* Where the other runs are idle, the only pass is that of p.              *)
LEMMA OnePass ==
  ASSUME NEW p \in Proc, \A q \in Proc : q # p => At(q, "idle") /\ At(q, "idle")'
  PROVE  /\ Passes = IF Working(p) THEN {PassOf(p)} ELSE {}
         /\ Passes' = IF Working(p)' THEN {PassOf(p)'} ELSE {}
<1>1. \A q \in Proc : q # p => ~Working(q) /\ ~Working(q)'
  BY DEF Working, At
<1> QED BY <1>1 DEF Passes

(* Every step of a run is one of its pass, or none.                        *)
LEMMA RunImplements ==
  ASSUME IInv, \A q \in Proc : Known(q), Serial, Serial', NEW p \in Proc, Step(p)
  PROVE  [Broker!Next]_(Broker!vars)
<1> DEFINE r == run[p]
           s == run'[p]
<1>1. /\ Typed /\ r \in Run /\ Placed(r) /\ pos \in [Symbol -> Int]
      /\ ~At(p, "idle") => Fresh(p) /\ Ready(p) /\ Progress(p)
      /\ Known(p)
  BY DEF IInv, Typed, TypeOK
<1>2. /\ Passes = IF Working(p) THEN {PassOf(p)} ELSE {}
      /\ Passes' = IF Working(p)' THEN {PassOf(p)'} ELSE {}
  BY <1>1, OthersIdle, OnePass DEF At
<1>3. /\ PassOf(p) = Pass(r.batch, r.order, r.cut)
      /\ PassOf(p)' = Pass(s.batch, s.order, s.cut)
  BY DEF PassOf, Pass
<1>4. ASSUME Working(p)
      PROVE  /\ r.batch \in Batch /\ r.batch \in DOMAIN Batches
             /\ Batches[r.batch] \in Seq(Order) /\ ~At(p, "idle")
  BY <1>1, <1>4, BatchesAssumption DEF Working, Placed, Batch, At
<1>5. ASSUME UNCHANGED <<latest, applied, pos>>, Working(p)' <=> Working(p),
             Working(p) => SameOrder(r, s) /\ s.cut = r.cut
      PROVE  UNCHANGED Broker!vars
  <2>1. Passes' = Passes
    BY <1>2, <1>3, <1>5 DEF SameOrder
  <2> QED BY <1>5, <2>1 DEF Broker!vars
<1>6. CASE Load(p)
  <2>1. ~Working(p) /\ ~Working(p)' /\ UNCHANGED <<latest, applied, pos>>
    BY <1>1, <1>6, LoadDoes DEF Working, At, Load
  <2> QED BY <1>5, <2>1
<1>7. CASE Guard(p)
  <2>1. /\ At(p, "guard") /\ ~Working(p) /\ s.order = r.order /\ s.batch = r.batch
        /\ s.cut = r.cut /\ UNCHANGED <<latest, applied, pos>>
        /\ \/ s.pc = "mark" /\ s.done
           \/ s.pc = "account" /\ ~AlreadyApplied(p)
    BY <1>1, <1>7, GuardDoes DEF SamePass, Working, At, Guard
  <2>2. CASE s.pc = "mark" /\ s.done
    BY <1>5, <2>1, <2>2 DEF Working
  <2>3. CASE s.pc = "account" /\ ~AlreadyApplied(p)
    <3>1. r.order = 0 /\ r.cut = {} /\ r.batch <= latest
      BY <1>1, <2>1 DEF Progress, Known, At
    <3>2. Placed(s)
      BY <1>1, NextTyped, <1>7 DEF Next, Step, Typed
    <3>3. ~s.done /\ s.batch \in DOMAIN Batches
      BY <2>3, <3>2, BatchesAssumption DEF Placed, Batch
    <3>4. applied < r.batch
      <4>1. r.batch \in Int /\ applied \in Int
        BY <1>1 DEF Typed, TypeOK, Run, Batch
      <4> QED BY <2>3, <4>1 DEF AlreadyApplied
    <3>5. Passes = {} /\ Passes' = {Pass(r.batch, 0, {})}
      BY <1>2, <1>3, <2>1, <2>3, <3>1, <3>3 DEF Working
    <3>6. Broker!Begin(r.batch)
      BY <2>1, <3>1, <3>4, <3>5, Zenon DEF Broker!Begin, Pass
    <3> QED BY <2>1, <3>3, <3>6 DEF Broker!Next
  <2> QED BY <2>1, <2>2, <2>3
<1>8. CASE ReadAccount(p)
  BY <1>1, <1>5, <1>8, ReadAccountDoes DEF ReadAccount, At, Working, SameOrder, SamePass
<1>9. CASE SkipBatch(p)
  <2>1. /\ r.pc = "account" /\ s.pc = "mark" /\ s.cut = Symbol /\ SameOrder(r, s)
        /\ r.order = 0 /\ UNCHANGED <<latest, applied, pos>>
    BY <1>1, <1>9, SkipBatchDoes DEF SkipBatch, At, Progress
  <2>2. Working(p) /\ Working(p)'
    BY <1>1, <2>1 DEF Working, Placed, SameOrder
  <2>3. Passes = {PassOf(p)} /\ Passes' = {Pass(r.batch, 0, Symbol)}
    BY <1>2, <1>3, <2>1, <2>2 DEF SameOrder
  <2>4. PassOf(p).order = 0 /\ PassOf(p).batch = r.batch
    BY <2>1 DEF PassOf
  <2>5. Broker!Skip(PassOf(p))
    BY <2>1, <2>3, <2>4, Zenon DEF Broker!Skip, Pass
  <2> QED BY <2>3, <2>5 DEF Broker!Next
<1>10. CASE NextOrder(p)
  <2>1. /\ r.pc = "next" /\ s.batch = r.batch /\ s.done = r.done /\ s.cut = r.cut
        /\ UNCHANGED <<latest, applied, pos>>
        /\ \/ s.pc = "decide" /\ s.order = r.order + 1
           \/ s.pc = "cash" /\ s.order = r.order
    BY <1>1, <1>10, NextOrderDoes DEF NextOrder, At, SamePass
  <2>2. Working(p) /\ Working(p)'
    BY <1>1, <2>1 DEF Working, Placed
  <2>3. CASE s.pc = "cash" /\ s.order = r.order
    BY <1>5, <2>1, <2>2, <2>3 DEF SameOrder
  <2>4. CASE s.pc = "decide" /\ s.order = r.order + 1
    <3>1. r.order < Len(Batches[r.batch])
      <4>1. Placed(s)
        BY <1>1, NextTyped, <1>10 DEF Next, Step, Typed
      <4>2. s.order \in DOMAIN Batches[r.batch]
        BY <2>1, <2>4, <4>1 DEF Placed
      <4>3. r.order \in Nat
        BY <1>1 DEF Run
      <4> QED BY <1>4, <2>2, <2>4, <4>2, <4>3
    <3>2. Passes = {PassOf(p)} /\ Passes' = {Pass(r.batch, r.order + 1, r.cut)}
      BY <1>2, <1>3, <2>1, <2>2, <2>4
    <3>3. PassOf(p).order = r.order /\ PassOf(p).batch = r.batch /\ PassOf(p).left = r.cut
      BY DEF PassOf
    <3>4. Broker!Turn(PassOf(p))
      BY <2>1, <3>1, <3>2, <3>3, Zenon DEF Broker!Turn, Pass
    <3> QED BY <3>2, <3>4 DEF Broker!Next
  <2> QED BY <2>1, <2>3, <2>4
<1>11. ASSUME r.pc \in {"decide", "trade"}, s.pc \in {"next", "trade"}, SameOrder(r, s),
              UNCHANGED <<latest, applied, pos>>,
              s.cut \in {r.cut, r.cut \cup {SymbolOf(p)}, r.cut \ {SymbolOf(p)}}
       PROVE  [Broker!Next]_(Broker!vars)
  <2>1. Working(p) /\ Working(p)' /\ r.order \in DOMAIN Batches[r.batch]
    BY <1>1, <1>11 DEF Working, Placed, SameOrder
  <2>2. CASE s.cut = r.cut
    BY <1>5, <1>11, <2>1, <2>2
  <2>3. CASE s.cut # r.cut
    <3>1. /\ Passes = {PassOf(p)} /\ Passes' = {Pass(r.batch, r.order, s.cut)}
          /\ s.cut \in {r.cut \cup {SymbolOf(p)}, r.cut \ {SymbolOf(p)}}
      BY <1>2, <1>3, <1>11, <2>1, <2>3 DEF SameOrder
    <3>2. PassOf(p).order = r.order /\ PassOf(p).batch = r.batch /\ PassOf(p).left = r.cut
      BY DEF PassOf
    <3>3. SymbolOf(p) = Batches[r.batch][r.order].symbol
      BY DEF SymbolOf, OrderOf
    <3>4. Broker!Leave(PassOf(p), s.cut)
      BY <1>11, <2>1, <3>1, <3>2, <3>3, Zenon DEF Broker!Leave, Pass
    <3>5. s.cut \in SUBSET Symbol
      <4>1. s \in Run
        BY <1>1, NextTyped DEF Next, Typed, TypeOK
      <4> QED BY <4>1 DEF Run
    <3> QED BY <3>1, <3>4, <3>5 DEF Broker!Next
  <2> QED BY <2>2, <2>3
<1>12. CASE Refuse(p) \/ PassOver(p) \/ Expire(p) \/ EndOrder(p)
  <2>1. /\ r.pc \in {"decide", "trade"} /\ UNCHANGED <<latest, applied, pos>>
        /\ s.pc = "next" /\ SameOrder(r, s)
        /\ s.cut \in {r.cut, r.cut \cup {SymbolOf(p)}}
    BY <1>1, <1>12, LeaveDoes DEF Refuse, PassOver, Expire, EndOrder, At
  <2> QED BY <1>11, <2>1
<1>13. CASE ReadPosition(p)
  <2>1. /\ r.pc = "decide" /\ UNCHANGED <<latest, applied, pos>>
        /\ s.pc \in {"next", "trade"} /\ SameOrder(r, s)
        /\ s.cut = r.cut \ {SymbolOf(p)}
    BY <1>1, <1>13, ReadPositionDoes DEF ReadPosition, At
  <2> QED BY <1>11, <2>1
<1>14. ASSUME NEW n \in 1..Chunk, TradeChunk(p, n)
       PROVE  Broker!Next
  <2>1. PICK q \in Int :
           /\ r.pc = "trade" /\ Units(q) = n /\ n <= Units(r.left)
           /\ (r.left > 0 <=> q > 0)
           /\ pos' = [pos EXCEPT ![SymbolOf(p)] = r.cur + q]
           /\ s.pc = "fill" /\ SameOrder(r, s) /\ SamePass(r, s)
    BY <1>1, <1>14, TradeChunkDoes DEF At
  <2>2. /\ SymbolOf(p) \in Symbol /\ OrderOf(p).units \in Int
        /\ r.left \in Int /\ r.cur \in Int
    BY <1>1, <2>1, OrderTyped DEF Run
  <2>3. r.cur = pos[SymbolOf(p)] /\ r.left = OrderOf(p).units - pos[SymbolOf(p)]
    BY <1>1, <2>1 DEF Ready, At
  <2>4. /\ Working(p) /\ Working(p)' /\ r.order \in DOMAIN Batches[r.batch]
    BY <1>1, <2>1 DEF Working, Placed, SameOrder
  <2>5. Passes = {PassOf(p)} /\ Passes' = Passes
    BY <1>2, <1>3, <2>1, <2>4 DEF SameOrder, SamePass
  <2> DEFINE u == OrderOf(p).units
             c == pos[SymbolOf(p)]
             v == r.cur + q
  <2>6. v \in IF c < u THEN c..u ELSE u..c
    <3>1. c \in Int /\ u \in Int
      BY <1>1, <2>2
    <3> HIDE DEF c, u
    <3> QED BY <2>1, <2>2, <2>3, <3>1 DEF Units, c, u
  <2>7. PassOf(p).order = r.order /\ PassOf(p).batch = r.batch
    BY DEF PassOf
  <2>8. /\ SymbolOf(p) = Batches[r.batch][r.order].symbol
        /\ u = Batches[r.batch][r.order].units
    BY DEF SymbolOf, OrderOf
  <2>9. v \in Broker!Way(PassOf(p))
    BY <2>4, <2>6, <2>7, <2>8, Zenon DEF Broker!Way
  <2>10. UNCHANGED <<latest, applied>>
    BY <1>14 DEF TradeChunk
  <2>11. Broker!Move(PassOf(p), v)
    BY <2>1, <2>5, <2>7, <2>8, <2>10, Zenon DEF Broker!Move
  <2> QED BY <2>5, <2>9, <2>11 DEF Broker!Next
<1>15. CASE WriteFill(p) \/ MarkFilled(p) \/ PersistCash(p)
  <2>1. /\ r.pc \in {"fill", "filled", "cash"} /\ s.pc \in {"filled", "trade", "mark"}
        /\ SameOrder(r, s) /\ s.cut = r.cut /\ UNCHANGED <<latest, applied, pos>>
    BY <1>1, <1>15, GoDoes DEF WriteFill, MarkFilled, PersistCash, At, SamePass
  <2>2. Working(p) /\ Working(p)'
    BY <1>1, <2>1 DEF Working, Placed, SameOrder
  <2> QED BY <1>5, <2>1, <2>2
<1>16. CASE Mark(p)
  <2>1. /\ r.pc = "mark" /\ s.pc = "revalue"
        /\ SameOrder(r, s) /\ s.cut = r.cut /\ UNCHANGED <<latest, applied, pos>>
    BY <1>1, <1>16, MarkDoes DEF Mark, At, SamePass
  <2>2. Working(p)' <=> Working(p)
    BY <1>1, <2>1 DEF Working, SameOrder, Run
  <2> QED BY <1>5, <2>1, <2>2
<1>17. CASE Revalue(p)
  <2>1. /\ r.pc = "revalue" /\ UNCHANGED <<latest, applied, pos>>
        /\ \/ r.done /\ s.pc = "idle"
           \/ ~r.done /\ s.pc = "meta" /\ SameOrder(r, s) /\ s.cut = r.cut
    BY <1>1, <1>17, RevalueDoes DEF Revalue, At, SamePass
  <2>2. Working(p)' <=> Working(p)
    BY <1>1, <2>1 DEF Working, SameOrder, Run
  <2>3. Working(p) => SameOrder(r, s) /\ s.cut = r.cut
    BY <2>1 DEF Working
  <2> QED BY <1>5, <2>1, <2>2, <2>3
<1>18. CASE SetMeta(p)
  <2>1. /\ r.pc = "meta" /\ s.pc = "idle" /\ applied' = r.batch
        /\ UNCHANGED <<latest, pos>>
    BY <1>1, <1>18, EndDoes DEF SetMeta, At
  <2>2. Working(p) /\ ~Working(p)' /\ applied < r.batch
    BY <1>1, <2>1 DEF Working, Placed, Fresh, At
  <2>3. Passes = {PassOf(p)} /\ Passes' = {}
    BY <1>2, <2>2
  <2>4. PassOf(p).batch = r.batch /\ PassOf(p).left = r.cut
    BY DEF PassOf
  <2> DEFINE orders == Batches[r.batch]
             n == Len(orders)
  <2>5. n \in Nat /\ DOMAIN orders = 1..n
    BY <1>4, <2>2
  <2>6. Reached(p, n, n)
    BY <1>1, <2>1, <2>2 DEF Progress, At, Working
  <2>7. ASSUME NEW i \in DOMAIN orders, Broker!Stands(r.batch, i)
        PROVE  orders[i].symbol \in r.cut \/ pos[orders[i].symbol] = orders[i].units
    <3>1. Final(r.batch, i, n)
      BY <2>5, <2>7 DEF Final, Broker!Stands
    <3>2. Met(p, i)
      BY <2>5, <2>6, <3>1 DEF Reached
    <3> QED BY <3>2 DEF Met
  <2>8. Broker!Apply(PassOf(p))
    BY <2>1, <2>2, <2>3, <2>4, <2>7, Zenon DEF Broker!Apply
  <2> QED BY <2>3, <2>8 DEF Broker!Next
<1>19. CASE ClosedHandle(p) \/ Abort(p)
  <2>1. s.pc = "idle" /\ ~Working(p)' /\ UNCHANGED <<latest, applied, pos>>
    BY <1>1, <1>19, EndDoes DEF ClosedHandle, Abort, Working
  <2>2. CASE ~Working(p)
    BY <1>5, <2>1, <2>2
  <2>3. CASE Working(p)
    <3>1. Passes = {PassOf(p)} /\ Passes' = {}
      BY <1>2, <2>1, <2>3
    <3>2. Broker!CutOff(PassOf(p))
      BY <2>1, <3>1 DEF Broker!CutOff
    <3> QED BY <3>1, <3>2 DEF Broker!Next
  <2> QED BY <2>2, <2>3
<1> QED
  BY <1>6, <1>7, <1>8, <1>9, <1>10, <1>12, <1>13, <1>14, <1>15, <1>16, <1>17,
    <1>18, <1>19 DEF Step

(* The broker implements Rebalance: what the portfolio job sees of it, with *)
(* runs that come one after the other and may be cut off at any statement, *)
(* is one batch after the other brought to its targets.                    *)
THEOREM ImplementsRebalance == Spec /\ []Serial => RebalanceSpec
<1>1. Init => Broker!Init
  <2> SUFFICES ASSUME Init
               PROVE  Broker!Init
    OBVIOUS
  <2>1. \A p \in Proc : ~Working(p)
    BY IdleTyped, Zenon DEF Init, Working, IdleRun
  <2>2. Passes = {}
    BY <2>1 DEF Passes
  <2> QED BY <2>2 DEF Init, Broker!Init
<1>2. Init => \A p \in Proc : Known(p)
  <2>1. IdleRun.pc = "idle"
    BY Zenon DEF IdleRun
  <2>2. Init => \A p \in Proc : At(p, "idle")
    BY <2>1, Zenon DEF Init, At
  <2> QED BY <2>2 DEF Known
<1>3. IInv /\ (\A p \in Proc : Known(p)) /\ [Next]_vars => (\A p \in Proc : Known(p))'
  BY KnownStays DEF IInv
<1>4. IInv /\ (\A p \in Proc : Known(p)) /\ Serial /\ Serial' /\ [Next]_vars =>
        [Broker!Next]_(Broker!vars)
  <2> SUFFICES ASSUME IInv, \A p \in Proc : Known(p), Serial, Serial', [Next]_vars
               PROVE  [Broker!Next]_(Broker!vars)
    OBVIOUS
  <2>1. CASE NewBatch
    <3>1. run' = run
      BY <2>1 DEF NewBatch
    <3>2. Passes' = Passes
      BY <3>1 DEF Passes, Working, PassOf
    <3>3. Broker!Publish
      BY <2>1, <3>2 DEF NewBatch, Broker!Publish
    <3> QED BY <3>3 DEF Broker!Next
  <2>2. CASE UNCHANGED vars
    <3>1. UNCHANGED <<latest, applied, pos, run>>
      BY <2>2 DEF vars
    <3>2. Passes' = Passes
      BY <3>1 DEF Passes, Working, PassOf
    <3> QED BY <3>1, <3>2 DEF Broker!vars
  <2> QED BY <2>1, <2>2, RunImplements DEF Next
<1> QED
  BY <1>1, <1>2, <1>3, <1>4, Invariant, PTL DEF Spec, RebalanceSpec, Broker!Spec
=============================================================================
