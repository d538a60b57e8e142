--------------------------- MODULE ScriptsProofs ----------------------------
(***************************************************************************)
(* Proofs about the functions on the database handle that they share, for  *)
(* every table of functions that satisfies the assumptions of Scripts, any *)
(* number of failures and a call stack of any depth.                       *)
(*                                                                         *)
(* Typed is the type invariant with what the steps need: what is left of   *)
(* an active function are statements of it and the marks of the loops,     *)
(* tries and finally clauses that it entered, and an open handle is in the *)
(* slot of its mode.                                                       *)
(*                                                                         *)
(* Clean is about the tidy functions.  A handle that is open in a run of   *)
(* them is held by some active function whose finally clause will close    *)
(* it, whoever else holds it; and a variable whose handle is open holds    *)
(* the handle that connect would give out, so that connecting it again     *)
(* loses nothing.                                                          *)
(***************************************************************************)
EXTENDS Scripts, FiniteSetTheorems, SequenceTheorems, TLAPS

-----------------------------------------------------------------------------
(* Lemmas about sequences.                                                 *)

(* A sequence with another head.                                           *)
LEMMA ConsIs ==
  ASSUME NEW S, NEW x \in S, NEW t \in Seq(S)
  PROVE  /\ <<x>> \o t \in Seq(S) /\ <<x>> \o t # <<>>
         /\ Len(<<x>> \o t) = Len(t) + 1
         /\ (<<x>> \o t)[1] = x
         /\ \A i \in 1..Len(t) : (<<x>> \o t)[i + 1] = t[i]
         /\ Head(<<x>> \o t) = x /\ Tail(<<x>> \o t) = t
<1>1. <<x>> \in Seq(S) /\ Len(<<x>>) = 1 /\ <<x>>[1] = x
  OBVIOUS
<1>2. /\ <<x>> \o t \in Seq(S)
      /\ Len(<<x>> \o t) = Len(t) + 1
      /\ \A i \in 1..(Len(t) + 1) :
           (<<x>> \o t)[i] = IF i <= 1 THEN x ELSE t[i - 1]
  BY <1>1, ConcatProperties
<1>3. Len(t) \in Nat
  OBVIOUS
<1>4. (<<x>> \o t)[1] = x /\ \A i \in 1..Len(t) : (<<x>> \o t)[i + 1] = t[i]
  BY <1>2, <1>3
<1>5. <<x>> \o t # <<>>
  BY <1>2, <1>3
<1>6. Head(<<x>> \o t) = x /\ Tail(<<x>> \o t) = t
  BY <1>1, ConcatSimplifications
<1> QED BY <1>2, <1>4, <1>5, <1>6

(* What is left of a sequence after its head.                              *)
LEMMA TailIs ==
  ASSUME NEW S, NEW q \in Seq(S), q # <<>>
  PROVE  /\ Head(q) \in S /\ Head(q) = q[1] /\ Tail(q) \in Seq(S)
         /\ Len(q) \in Nat /\ Len(q) >= 1 /\ Len(Tail(q)) = Len(q) - 1
         /\ \A i \in 1..(Len(q) - 1) : Tail(q)[i] = q[i + 1]
BY HeadTailProperties, SMT

(* Two sequences of one element each make a pair.                          *)
LEMMA PairIs ==
  ASSUME NEW S, NEW x \in S, NEW y \in S
  PROVE  <<x>> \o <<y>> = <<x, y>>
<1>1. /\ <<x>> \in Seq(S) /\ <<y>> \in Seq(S) /\ <<x, y>> \in Seq(S)
      /\ Len(<<x>>) = 1 /\ Len(<<y>>) = 1 /\ Len(<<x, y>>) = 2
      /\ <<x>>[1] = x /\ <<y>>[1] = y /\ <<x, y>>[1] = x /\ <<x, y>>[2] = y
  OBVIOUS
<1>2. PICK q, p, r : q = <<x>> /\ p = <<y>> /\ r = <<x, y>>
  OBVIOUS
<1>3. /\ q \o p \in Seq(S) /\ Len(q \o p) = 2
      /\ (q \o p)[1] = x /\ (q \o p)[2] = y
  BY <1>1, <1>2, ConcatProperties
<1>4. \A i \in 1..Len(r) : r[i] = (q \o p)[i]
  BY <1>1, <1>2, <1>3
<1>5. q \o p = r
  BY <1>1, <1>2, <1>3, <1>4, SeqEqual
<1> QED BY <1>2, <1>5

-----------------------------------------------------------------------------
(* The statements that can stand in what is left of function f: its own,   *)
(* the marks of loops, tries and finally clauses, loops that were entered  *)
(* again, and the raise that follows a finally clause.                     *)
Loops(f) == {i \in Parts[f] : i.op \in {"each", "forever"}}

Step(f) ==
  Parts[f] \cup {Raise}
    \cup {EndTry(i) : i \in Parts[f]} \cup {EndFinally(i) : i \in Parts[f]}
    \cup {Again(i) : i \in Loops(f)}
    \cup {[i EXCEPT !.arg = i.op] : i \in Loops(f)}

(* What CodeAssumption says of one statement.                              *)
LEMMA PartIs ==
  ASSUME NEW f \in Function, NEW i \in Parts[f]
  PROVE  PartOf(f, i)
BY CodeAssumption

(* What holds of such a statement.                                         *)
StepOf(f, i) ==
  /\ i = [op |-> i.op, arg |-> i.arg, on |-> i.on, body |-> i.body,
          other |-> i.other]
  /\ i.on \in {"con", "con2"}
  /\ i.body \in Seq(Parts[f]) /\ i.other \in Seq(Parts[f])
  /\ i.op \in {"connect", "call", "callon", "ungiven"} => i \in Parts[f]
  /\ i.op \in {"each", "forever"} => Again(i) \in Step(f)
  /\ i.op = "again" => [i EXCEPT !.op = i.arg] \in Step(f)
  /\ i.op = "try" => EndTry(i) \in Step(f)
  /\ i.op = "finally" => EndFinally(i) \in Step(f)

(* The mark that a loop leaves, field by field.                            *)
LEMMA AgainIs ==
  ASSUME NEW i, i = [op |-> i.op, arg |-> i.arg, on |-> i.on, body |-> i.body,
                     other |-> i.other]
  PROVE  Again(i) = [op |-> "again", arg |-> i.op, on |-> i.on,
                     body |-> i.body, other |-> i.other]
<1>1. PICK x : x = Again(i)
  OBVIOUS
<1>2. x = [op |-> "again", arg |-> i.op, on |-> i.on, body |-> i.body,
           other |-> i.other]
  BY <1>1 DEF Again
<1> QED BY <1>1, <1>2

(* Each of these statements has its fields, and leads to others of them:   *)
(* a loop leaves its mark, and the mark leads to the loop again.           *)
LEMMA StepIs ==
  ASSUME NEW f \in Function, NEW i \in Step(f)
  PROVE  StepOf(f, i)
<1>1. CASE i \in Parts[f]
  <2>1. PartOf(f, i)
    BY <1>1, PartIs
  <2> QED BY <1>1, <2>1 DEF PartOf, StepOf, Step, Loops, Again, EndTry, EndFinally, Kinds
<1>2. CASE i = Raise
  BY <1>2, EmptySeq DEF StepOf, Raise, Plain, Statement
<1>3. ASSUME NEW j \in Parts[f],
             i = EndTry(j) \/ i = EndFinally(j)
      PROVE  StepOf(f, i)
  <2>1. PartOf(f, j)
    BY PartIs
  <2> QED BY <1>3, <2>1 DEF PartOf, StepOf, EndTry, EndFinally
<1>4. ASSUME NEW j \in Loops(f), i = Again(j)
      PROVE  StepOf(f, i)
  <2>1. PartOf(f, j) /\ j.op \in {"each", "forever"}
    BY PartIs DEF Loops
  <2>2. i = [op |-> "again", arg |-> j.op, on |-> j.on, body |-> j.body,
             other |-> j.other]
    BY <1>4, <2>1, AgainIs DEF PartOf
  <2>3. [i EXCEPT !.op = i.arg] = [j EXCEPT !.arg = j.op]
    <3>1. [i EXCEPT !.op = i.arg] =
            [op |-> j.op, arg |-> j.op, on |-> j.on, body |-> j.body,
             other |-> j.other]
      BY <2>2
    <3>2. [j EXCEPT !.arg = j.op] =
            [op |-> j.op, arg |-> j.op, on |-> j.on, body |-> j.body,
             other |-> j.other]
      BY <2>1 DEF PartOf
    <3> QED BY <3>1, <3>2
  <2>4. [i EXCEPT !.op = i.arg] \in Step(f)
    BY <2>3 DEF Step
  <2> QED BY <2>1, <2>2, <2>4 DEF PartOf, StepOf
<1>5. ASSUME NEW j \in Loops(f), i = [j EXCEPT !.arg = j.op]
      PROVE  StepOf(f, i)
  <2>1. PartOf(f, j) /\ j.op \in {"each", "forever"}
    BY PartIs DEF Loops
  <2>2. i = [op |-> j.op, arg |-> j.op, on |-> j.on, body |-> j.body,
             other |-> j.other]
    BY <1>5, <2>1 DEF PartOf
  <2>3. Again(i) = [op |-> "again", arg |-> j.op, on |-> j.on,
                    body |-> j.body, other |-> j.other]
    BY <2>2, AgainIs
  <2>4. Again(j) = [op |-> "again", arg |-> j.op, on |-> j.on,
                    body |-> j.body, other |-> j.other]
    BY <2>1, AgainIs DEF PartOf
  <2>5. Again(i) \in Step(f)
    BY <2>3, <2>4 DEF Step
  <2> QED BY <2>1, <2>2, <2>5 DEF PartOf, StepOf
<1> QED BY <1>1, <1>2, <1>3, <1>4, <1>5 DEF Step

-----------------------------------------------------------------------------
(* The active functions: what is left of each are statements of it.        *)
Place == Handle \cup {NoCon}

Frame ==
  {x \in [fn : Function, todo : Seq(UNION {Step(f) : f \in Function}),
          con : Place, con2 : Place, owns : SUBSET {"con", "con2"},
          ok : BOOLEAN] : x.todo \in Seq(Step(x.fn))}

(* An active function, field by field.                                     *)
LEMMA FrameIs ==
  ASSUME NEW x
  PROVE  x \in Frame <=>
           /\ x = [fn |-> x.fn, todo |-> x.todo, con |-> x.con,
                  con2 |-> x.con2, owns |-> x.owns, ok |-> x.ok]
           /\ x.fn \in Function /\ x.todo \in Seq(Step(x.fn))
           /\ x.con \in Place /\ x.con2 \in Place
           /\ x.owns \subseteq {"con", "con2"} /\ x.ok \in BOOLEAN
<1>1. ASSUME x \in Frame
      PROVE  /\ x = [fn |-> x.fn, todo |-> x.todo, con |-> x.con,
                    con2 |-> x.con2, owns |-> x.owns, ok |-> x.ok]
             /\ x.fn \in Function /\ x.todo \in Seq(Step(x.fn))
             /\ x.con \in Place /\ x.con2 \in Place
             /\ x.owns \subseteq {"con", "con2"} /\ x.ok \in BOOLEAN
  BY <1>1, Zenon DEF Frame
<1>2. ASSUME x = [fn |-> x.fn, todo |-> x.todo, con |-> x.con,
                  con2 |-> x.con2, owns |-> x.owns, ok |-> x.ok],
             x.fn \in Function, x.todo \in Seq(Step(x.fn)),
             x.con \in Place, x.con2 \in Place,
             x.owns \subseteq {"con", "con2"}, x.ok \in BOOLEAN
      PROVE  x \in Frame
  <2>1. x.todo \in Seq(UNION {Step(f) : f \in Function})
    <3>1. Step(x.fn) \subseteq UNION {Step(f) : f \in Function}
      BY <1>2
    <3> QED BY <1>2, <3>1, SeqMonotonic
  <2> QED BY <1>2, <2>1, Zenon DEF Frame
<1> QED BY <1>1, <1>2

(* A frame with other fields.                                              *)
With(x, q, c, c2, own, b) ==
  [fn |-> x.fn, todo |-> q, con |-> c, con2 |-> c2, owns |-> own, ok |-> b]

(* Such a frame is one of an active function.                              *)
LEMMA WithIs ==
  ASSUME NEW x \in Frame, NEW q \in Seq(Step(x.fn)),
         NEW c \in Place, NEW c2 \in Place,
         NEW own \in SUBSET {"con", "con2"}, NEW b \in BOOLEAN
  PROVE  With(x, q, c, c2, own, b) \in Frame
<1>0. PICK y : y = With(x, q, c, c2, own, b)
  OBVIOUS
<1>1. y = [fn |-> y.fn, todo |-> y.todo, con |-> y.con, con2 |-> y.con2,
           owns |-> y.owns, ok |-> y.ok]
  BY <1>0, Zenon DEF With
<1>2. /\ y.fn = x.fn /\ y.todo = q /\ y.con = c /\ y.con2 = c2
      /\ y.owns = own /\ y.ok = b
  BY <1>0, Zenon DEF With
<1>3. x.fn \in Function
  BY FrameIs
<1>4. /\ y.fn \in Function /\ y.todo \in Seq(Step(y.fn))
      /\ y.con \in Place /\ y.con2 \in Place
      /\ y.owns \subseteq {"con", "con2"} /\ y.ok \in BOOLEAN
  BY <1>2, <1>3, Zenon
<1> QED BY <1>0, <1>1, <1>4, FrameIs, Zenon

(* What GoOn makes of a frame.                                             *)
LEMMA TodoIs ==
  ASSUME NEW x \in Frame, NEW q
  PROVE  [x EXCEPT !.todo = q] = With(x, q, x.con, x.con2, x.owns, x.ok)
BY FrameIs DEF With

(* What an answer makes of it.                                             *)
LEMMA OkIs ==
  ASSUME NEW x \in Frame, NEW q, NEW b
  PROVE  [[x EXCEPT !.ok = b] EXCEPT !.todo = q] =
           With(x, q, x.con, x.con2, x.owns, b)
<1>1. PICK y : y = [x EXCEPT !.ok = b]
  OBVIOUS
<1>2. y = With(x, x.todo, x.con, x.con2, x.owns, b)
  BY <1>1, FrameIs DEF With
<1>3. [y EXCEPT !.todo = q] = With(x, q, x.con, x.con2, x.owns, b)
  BY <1>2 DEF With
<1> QED BY <1>1, <1>3

(* A function that starts has its own statements before it.                *)
LEMMA NewFrameIs ==
  ASSUME NEW f \in Function, NEW c \in Place
  PROVE  NewFrame(f, c) \in Frame
<1>0. PICK y : y = NewFrame(f, c)
  OBVIOUS
<1>1. y = [fn |-> y.fn, todo |-> y.todo, con |-> y.con, con2 |-> y.con2,
           owns |-> y.owns, ok |-> y.ok]
  BY <1>0, Zenon DEF NewFrame
<1>2. /\ y.fn = f /\ y.todo = Code[f] /\ y.con = c /\ y.con2 = NoCon
      /\ y.owns = {} /\ y.ok = FALSE
  BY <1>0, Zenon DEF NewFrame
<1>3. Code[f] \in Seq(Step(f))
  <2>1. Code[f] \in Seq(Parts[f]) /\ Parts[f] \subseteq Step(f)
    BY CodeAssumption DEF Step
  <2> QED BY <2>1, SeqMonotonic
<1>4. /\ y.fn \in Function /\ y.todo \in Seq(Step(y.fn))
      /\ y.con \in Place /\ y.con2 \in Place
      /\ y.owns \subseteq {"con", "con2"} /\ y.ok \in BOOLEAN
  BY <1>2, <1>3, Zenon DEF Place
<1> QED BY <1>0, <1>1, <1>4, FrameIs, Zenon

-----------------------------------------------------------------------------
(* The type invariant: that of the module, with what is left of every      *)
(* active function, and every open handle in the slot of its mode.         *)
Typed ==
  /\ slot \in [{"rw", "ro"} -> Place]
  /\ open \subseteq Handle /\ open \subseteq {slot.rw, slot.ro}
  /\ stack \in Seq(Frame)
  /\ raising \in BOOLEAN
  /\ owes \in BOOLEAN
  /\ db \in [killed : BOOLEAN, halted : BOOLEAN]
  /\ calm \in BOOLEAN
  /\ failed \in 0..MaxFailures

(* It implies the type invariant that the runs check.                      *)
LEMMA TypedIsTypeOK == Typed => TypeOK
<1> SUFFICES ASSUME Typed PROVE TypeOK
  OBVIOUS
<1>1. ASSUME NEW i \in DOMAIN stack
      PROVE  /\ stack[i].fn \in Function
             /\ {stack[i].con, stack[i].con2} \subseteq Handle \cup {NoCon}
             /\ stack[i].owns \subseteq {"con", "con2"}
             /\ stack[i].ok \in BOOLEAN
  <2>1. PICK x \in Frame : x = stack[i]
    BY DEF Typed
  <2>2. /\ x.fn \in Function /\ x.con \in Place /\ x.con2 \in Place
        /\ x.owns \subseteq {"con", "con2"} /\ x.ok \in BOOLEAN
    BY FrameIs, Zenon
  <2>3. {x.con, x.con2} \subseteq Place
    BY <2>2
  <2> QED BY <2>1, <2>2, <2>3, Zenon DEF Place
<1> QED BY <1>1, Zenon DEF Typed, TypeOK, Place

(* There is a handle that nobody has: there are at most two for each       *)
(* active function, and one for each mode.                                 *)
LEMMA FreshIs ==
  ASSUME Typed
  PROVE  Fresh \in Handle /\ Fresh \notin InUse
<1> DEFINE n == Len(stack)
           m == 2 * n + 2
           e == [k \in 1..m |-> IF k <= n THEN stack[k].con
                                ELSE IF k <= 2 * n THEN stack[k - n].con2
                                ELSE IF k = m THEN slot.rw ELSE slot.ro]
           all == {e[k] : k \in 1..m}
<1>1. n \in Nat /\ m \in Nat /\ DOMAIN stack = 1..n
  BY DEF Typed
<1>2. IsFiniteSet(all) /\ Cardinality(all) <= m
  <2>1. IsFiniteSet(1..m) /\ Cardinality(1..m) = m
    BY <1>1, FS_Interval
  <2>2. e \in Surjection(1..m, all)
    <3>1. e \in [1..m -> all] /\ \A y \in all : \E k \in 1..m : e[k] = y
      <4> HIDE DEF m
      <4> QED OBVIOUS
    <3> HIDE DEF e, all, m
    <3> QED BY <3>1 DEF Surjection
  <2> HIDE DEF e, all, m
  <2> QED BY <2>1, <2>2, FS_Surjection
<1>3. InUse \subseteq all
  <2>1. \A i \in 1..n : e[i] = stack[i].con /\ e[i + n] = stack[i].con2
    BY <1>1
  <2>2. e[m] = slot.rw /\ e[m - 1] = slot.ro
    BY <1>1
  <2>3. \A i \in 1..n : i \in 1..m /\ i + n \in 1..m
    BY <1>1
  <2>4. m \in 1..m /\ m - 1 \in 1..m
    BY <1>1
  <2>5. \A k \in 1..m : e[k] \in all
    OBVIOUS
  <2>6. \A i \in 1..n : stack[i].con \in all /\ stack[i].con2 \in all
    <3> HIDE DEF e, all, m, n
    <3> QED BY <2>1, <2>3, <2>5
  <2>7. slot.rw \in all /\ slot.ro \in all
    <3> HIDE DEF e, all, m, n
    <3> QED BY <2>2, <2>4, <2>5
  <2> HIDE DEF e, all, m, n
  <2> QED BY <1>1, <2>6, <2>7 DEF InUse, Typed
<1>4. \E h \in 1..(m + 1) : h \notin InUse
  <2> SUFFICES ASSUME 1..(m + 1) \subseteq InUse
               PROVE  FALSE
    OBVIOUS
  <2>1. IsFiniteSet(1..(m + 1)) /\ Cardinality(1..(m + 1)) = m + 1
    <3> HIDE DEF m
    <3>1. PICK k \in Int : k = m + 1
      BY <1>1
    <3>2. IsFiniteSet(1..k) /\ Cardinality(1..k) = IF 1 > k THEN 0 ELSE k - 1 + 1
      BY FS_Interval
    <3>3. Cardinality(1..k) = k
      BY <1>1, <3>1, <3>2
    <3> QED BY <3>1, <3>2, <3>3, Zenon
  <2>2. Cardinality(1..(m + 1)) <= Cardinality(all) /\ Cardinality(all) \in Nat
    <3> HIDE DEF m, all
    <3> QED BY <1>2, <1>3, FS_Subset, FS_CardinalityType
  <2> HIDE DEF m, all
  <2> QED BY <1>1, <1>2, <2>1, <2>2
<1>5. Fresh \in 1..(m + 1) /\ Fresh \notin InUse
  <2>1. m + 1 = 2 * Len(stack) + 3
    BY <1>1
  <2> HIDE DEF m
  <2> QED BY <1>4, <2>1 DEF Fresh
<1>6. 1..(m + 1) \subseteq Handle
  BY <1>1 DEF Handle
<1> HIDE DEF m
<1> QED BY <1>5, <1>6

(* What is left of a sequence of statements from its first mark on.        *)
LEMMA FromIs ==
  ASSUME NEW S, NEW q \in Seq(S), NEW ops
  PROVE  \/ From(q, ops) = <<>> /\ \A i \in 1..Len(q) : q[i].op \notin ops
         \/ \E m \in 1..Len(q) :
              /\ q[m].op \in ops /\ \A i \in 1..(m - 1) : q[i].op \notin ops
              /\ From(q, ops) = SubSeq(q, m, Len(q))
<1> DEFINE marks == {i \in DOMAIN q : q[i].op \in ops}
<1>1. Len(q) \in Nat /\ DOMAIN q = 1..Len(q)
  OBVIOUS
<1>2. CASE marks = {}
  BY <1>1, <1>2 DEF From
<1>3. CASE marks # {}
  <2> DEFINE m == CHOOSE i \in marks : \A j \in marks : i <= j
  <2>1. \E i \in marks : \A j \in marks : i <= j
    <3>1. marks \subseteq Nat
      BY <1>1
    <3> DEFINE R == OpToRel(<, Nat)
    <3> HIDE DEF marks, R
    <3>2. IsWellFoundedOn(R, Nat)
      BY NatLessThanWellFounded DEF R
    <3>3. PICK i \in marks : \A j \in marks : <<j, i>> \notin R
      BY <1>3, <3>1, <3>2, WFMin
    <3>4. \A j \in marks : ~(j < i)
      BY <3>1, <3>3 DEF OpToRel, R
    <3> QED BY <3>1, <3>4
  <2>2. m \in marks /\ \A j \in marks : m <= j
    <3> HIDE DEF marks
    <3> QED BY <2>1
  <2>3. From(q, ops) = SubSeq(q, m, Len(q))
    BY <1>3 DEF From
  <2>4. m \in 1..Len(q) /\ q[m].op \in ops
    BY <1>1, <2>2
  <2>5. \A i \in 1..(m - 1) : q[i].op \notin ops
    <3> HIDE DEF m
    <3> QED BY <1>1, <2>2, <2>4
  <2> HIDE DEF m
  <2> QED BY <2>3, <2>4, <2>5
<1> QED BY <1>2, <1>3

(* Which are statements of the same function.                              *)
LEMMA FromTyped ==
  ASSUME NEW S, NEW q \in Seq(S), NEW ops
  PROVE  From(q, ops) \in Seq(S)
<1>1. ASSUME NEW m \in 1..Len(q)
      PROVE  SubSeq(q, m, Len(q)) \in Seq(S)
  BY SubSeqProperties
<1>2. CASE From(q, ops) = <<>>
  BY <1>2, EmptySeq
<1>3. ASSUME NEW m \in 1..Len(q), From(q, ops) = SubSeq(q, m, Len(q))
      PROVE  From(q, ops) \in Seq(S)
  BY <1>1, <1>3
<1> QED BY <1>2, <1>3, FromIs

-----------------------------------------------------------------------------
(* What the steps of the innermost function make of it.                    *)

(* The innermost function, field by field.                                 *)
LEMMA TopIs ==
  ASSUME Typed, Active
  PROVE  /\ Len(stack) \in Nat /\ Len(stack) >= 1
         /\ Top \in Frame /\ Top = stack[1] /\ Tail(stack) \in Seq(Frame)
         /\ Top.fn \in Function /\ Todo \in Seq(Step(Top.fn))
         /\ Top.con \in Place /\ Top.con2 \in Place
         /\ Top.owns \in SUBSET {"con", "con2"} /\ Top.ok \in BOOLEAN
<1>1. /\ Len(stack) \in Nat /\ Len(stack) >= 1
      /\ Top \in Frame /\ Top = stack[1] /\ Tail(stack) \in Seq(Frame)
  BY TailIs DEF Typed, Active, Top
<1>2. /\ Top.fn \in Function /\ Top.todo \in Seq(Step(Top.fn))
      /\ Top.con \in Place /\ Top.con2 \in Place
      /\ Top.owns \subseteq {"con", "con2"} /\ Top.ok \in BOOLEAN
  BY <1>1, FrameIs, Zenon
<1> QED BY <1>1, <1>2, Zenon DEF Todo

(* Its next statement, and what follows it.                                *)
LEMMA NowIs ==
  ASSUME Typed, Active, Todo # <<>>
  PROVE  /\ Now \in Step(Top.fn) /\ StepOf(Top.fn, Now)
         /\ Tail(Todo) \in Seq(Step(Top.fn))
         /\ Now.body \in Seq(Step(Top.fn)) /\ Now.other \in Seq(Step(Top.fn))
<1>1. Now \in Step(Top.fn) /\ Tail(Todo) \in Seq(Step(Top.fn))
  BY TopIs, TailIs DEF Now
<1>2. StepOf(Top.fn, Now)
  BY <1>1, TopIs, StepIs
<1>3. Parts[Top.fn] \subseteq Step(Top.fn)
  BY DEF Step
<1> QED BY <1>1, <1>2, <1>3, SeqMonotonic DEF StepOf

(* Another innermost function.                                             *)
LEMMA SetsTop ==
  ASSUME Typed, Active, NEW y \in Frame, SetTop(y)
  PROVE  /\ stack' \in Seq(Frame) /\ stack' # <<>>
         /\ Len(stack') = Len(stack) /\ stack'[1] = y
         /\ Head(stack') = y /\ Tail(stack') = Tail(stack)
         /\ \A i \in 2..Len(stack) : stack'[i] = stack[i]
<1>1. /\ Len(stack) \in Nat /\ Len(stack) >= 1 /\ Tail(stack) \in Seq(Frame)
      /\ Len(Tail(stack)) = Len(stack) - 1
      /\ \A i \in 1..(Len(stack) - 1) : Tail(stack)[i] = stack[i + 1]
  BY TailIs DEF Typed, Active
<1>2. stack' = <<y>> \o Tail(stack)
  BY DEF SetTop
<1>3. /\ stack' \in Seq(Frame) /\ stack' # <<>>
      /\ Len(stack') = Len(Tail(stack)) + 1 /\ stack'[1] = y
      /\ Head(stack') = y /\ Tail(stack') = Tail(stack)
      /\ \A i \in 1..Len(Tail(stack)) : stack'[i + 1] = Tail(stack)[i]
  BY <1>1, <1>2, ConsIs
<1>4. ASSUME NEW i \in 2..Len(stack)
      PROVE  stack'[i] = stack[i]
  <2>1. /\ i - 1 \in 1..(Len(stack) - 1) /\ (i - 1) + 1 = i
        /\ i - 1 \in 1..Len(Tail(stack))
    BY <1>1
  <2>2. Tail(stack)[i - 1] = stack[(i - 1) + 1]
    BY <1>1, <2>1
  <2>3. stack'[(i - 1) + 1] = Tail(stack)[i - 1]
    BY <1>3, <2>1
  <2> QED BY <2>1, <2>2, <2>3
<1> QED BY <1>1, <1>3, <1>4

(* The innermost function with other statements left, and what it has and  *)
(* knows.                                                                  *)
Moves(q, c, c2, own, b) == SetTop(With(Top, q, c, c2, own, b))

Stays(q, b) == Moves(q, Top.con, Top.con2, Top.owns, b)

(* Another innermost function leaves the functions below it alone.         *)
LEMMA Goes ==
  ASSUME Typed, Active, NEW q \in Seq(Step(Top.fn)), NEW c \in Place,
         NEW c2 \in Place, NEW own \in SUBSET {"con", "con2"}, NEW b \in BOOLEAN,
         Moves(q, c, c2, own, b)
  PROVE  /\ stack' \in Seq(Frame) /\ stack' # <<>>
         /\ Len(stack') = Len(stack)
         /\ \A i \in 2..Len(stack) : stack'[i] = stack[i]
         /\ stack'[1] = With(Top, q, c, c2, own, b)
<1>1. With(Top, q, c, c2, own, b) \in Frame
  BY TopIs, WithIs
<1> QED BY <1>1, SetsTop DEF Moves

(* So does one with its handles unchanged.                                 *)
LEMMA StaysIs ==
  ASSUME Typed, Active, NEW q \in Seq(Step(Top.fn)), NEW b \in BOOLEAN,
         Stays(q, b)
  PROVE  /\ stack' \in Seq(Frame) /\ stack' # <<>>
         /\ Len(stack') = Len(stack)
         /\ \A i \in 2..Len(stack) : stack'[i] = stack[i]
         /\ stack'[1] = With(Top, q, Top.con, Top.con2, Top.owns, b)
<1>1. /\ Top.con \in Place /\ Top.con2 \in Place
      /\ Top.owns \in SUBSET {"con", "con2"}
  BY TopIs
<1>2. PICK c, c2, own : c = Top.con /\ c2 = Top.con2 /\ own = Top.owns
  OBVIOUS
<1>3. Moves(q, c, c2, own, b)
  BY <1>2 DEF Stays
<1>4. /\ stack' \in Seq(Frame) /\ stack' # <<>>
      /\ Len(stack') = Len(stack)
      /\ \A i \in 2..Len(stack) : stack'[i] = stack[i]
      /\ stack'[1] = With(Top, q, c, c2, own, b)
  BY <1>1, <1>2, <1>3, Goes
<1> QED BY <1>2, <1>4, Zenon

(* GoOn leaves handles and answer alone.                                   *)
LEMMA GoesOn ==
  ASSUME Typed, Active, Todo # <<>>, NEW q, GoOn(Top, q)
  PROVE  Stays(q \o Tail(Todo), Top.ok)
BY TopIs, TodoIs DEF GoOn, Stays, Moves

(* GoOn with another answer.                                               *)
LEMMA AnswersAndGoesOn ==
  ASSUME Typed, Active, Todo # <<>>, NEW q, NEW b,
         GoOn([Top EXCEPT !.ok = b], q)
  PROVE  Stays(q \o Tail(Todo), b)
BY TopIs, OkIs DEF GoOn, Stays, Moves

(* What a statement that opens, reads and writes nothing leads to.         *)
Continues(i, q) ==
  \/ q = <<>> /\ i.op \in {"answer", "ungiven", "each", "end_try"}
  \/ q \in {i.body, i.other} /\ i.op \in {"either", "if"}
  \/ q = i.body /\ i.op = "ungiven"
  \/ q = i.body \o <<Again(i)>> /\ i.op \in {"each", "forever"}
  \/ q = <<[i EXCEPT !.op = i.arg]>> /\ i.op = "again"
  \/ q = i.body \o <<EndTry(i)>> /\ i.op = "try"
  \/ q = i.body \o <<EndFinally(i)>> /\ i.op = "finally"
  \/ q = i.other /\ i.op = "end_finally"

(* These are statements of the function, or their marks.                   *)
LEMMA ContinuesTyped ==
  ASSUME Typed, Active, Todo # <<>>, NEW q, Continues(Now, q)
  PROVE  q \in Seq(Step(Top.fn))
<1>1. /\ Now.body \in Seq(Step(Top.fn)) /\ Now.other \in Seq(Step(Top.fn))
      /\ StepOf(Top.fn, Now)
  BY NowIs
<1>2. ASSUME NEW j \in Step(Top.fn)
      PROVE  <<j>> \in Seq(Step(Top.fn)) /\ Now.body \o <<j>> \in Seq(Step(Top.fn))
  <2>1. <<j>> \in Seq(Step(Top.fn))
    BY <1>2
  <2> QED BY <1>1, <2>1, ConcatProperties
<1>3. <<>> \in Seq(Step(Top.fn))
  BY EmptySeq
<1> QED BY <1>1, <1>2, <1>3 DEF Continues, StepOf

(* Control changes nothing but what is left of the innermost function,     *)
(* and its answer.                                                         *)
LEMMA ControlIs ==
  ASSUME Typed, Control
  PROVE  /\ Active /\ ~raising /\ Todo # <<>>
         /\ \E q \in Seq(Step(Top.fn)), b \in BOOLEAN :
              Continues(Now, q) /\ Stays(q \o Tail(Todo), b)
<1>1. Active /\ ~raising /\ Todo # <<>> /\ Top.ok \in BOOLEAN
  BY TopIs DEF Control
<1>2. ASSUME NEW q, Continues(Now, q), GoOn(Top, q)
      PROVE  \E r \in Seq(Step(Top.fn)), b \in BOOLEAN :
               Continues(Now, r) /\ Stays(r \o Tail(Todo), b)
  BY <1>1, <1>2, GoesOn, ContinuesTyped
<1>3. ASSUME NEW b \in BOOLEAN, Continues(Now, <<>>),
             GoOn([Top EXCEPT !.ok = b], <<>>)
      PROVE  \E r \in Seq(Step(Top.fn)), c \in BOOLEAN :
               Continues(Now, r) /\ Stays(r \o Tail(Todo), c)
  BY <1>1, <1>3, AnswersAndGoesOn, ContinuesTyped
<1>4. CASE At("answer") /\ GoOn([Top EXCEPT !.ok = (Now.arg = "yes")], <<>>)
  <2>1. PICK b \in BOOLEAN : GoOn([Top EXCEPT !.ok = b], <<>>)
    BY <1>4, Zenon
  <2> QED BY <1>1, <1>3, <1>4, <2>1 DEF At, Continues
<1>5. CASE At("either") /\ \E b \in {Now.body, Now.other} : GoOn(Top, b)
  BY <1>1, <1>2, <1>5 DEF At, Continues
<1>6. CASE At("if") /\ GoOn(Top, IF Top.ok THEN Now.body ELSE Now.other)
  BY <1>1, <1>2, <1>6, Zenon DEF At, Continues
<1>7. CASE At("ungiven") /\ GoOn(Top, IF Top.con = NoCon THEN Now.body ELSE <<>>)
  BY <1>1, <1>2, <1>7, Zenon DEF At, Continues
<1>8. CASE /\ At("each")
           /\ \E b \in {<<>>, Now.body \o <<Again(Now)>>} : GoOn(Top, b)
  BY <1>1, <1>2, <1>8 DEF At, Continues
<1>9. CASE At("forever") /\ GoOn(Top, Now.body \o <<Again(Now)>>)
  BY <1>1, <1>2, <1>9 DEF At, Continues
<1>10. CASE At("again") /\ GoOn(Top, <<[Now EXCEPT !.op = Now.arg]>>)
  BY <1>1, <1>2, <1>10 DEF At, Continues
<1>11. CASE At("try") /\ GoOn(Top, Now.body \o <<EndTry(Now)>>)
  BY <1>1, <1>2, <1>11 DEF At, Continues
<1>12. CASE At("end_try") /\ GoOn(Top, <<>>)
  BY <1>1, <1>2, <1>12 DEF At, Continues
<1>13. CASE At("finally") /\ GoOn(Top, Now.body \o <<EndFinally(Now)>>)
  BY <1>1, <1>2, <1>13 DEF At, Continues
<1>14. CASE At("end_finally") /\ GoOn(Top, Now.other)
  BY <1>1, <1>2, <1>14 DEF At, Continues
<1> QED
  BY <1>1, <1>4, <1>5, <1>6, <1>7, <1>8, <1>9, <1>10, <1>11, <1>12, <1>13,
     <1>14 DEF Control

(* return, break and continue, and an exception, lead to what is left from *)
(* a mark on: a finally clause, what follows a loop or the loop, a handler.*)
Skips(q, r, i) ==
  \E ops : LET rest == From(q, ops \cup {"end_finally"}) IN
    \/ /\ rest # <<>> /\ Head(rest).op = "end_finally"
       /\ r = Head(rest).other \o <<i>> \o Tail(rest)
    \/ rest # <<>> /\ Head(rest).op = "end_try" /\ r = Head(rest).other \o Tail(rest)
    \/ rest # <<>> /\ Head(rest).op # "end_finally" /\ r \in {rest, Tail(rest)}
    \/ rest = <<>> /\ r = <<>>

(* What is left are statements of the function.                            *)
LEMMA SkipsTyped ==
  ASSUME NEW f \in Function, NEW q \in Seq(Step(f)), NEW i \in Step(f), NEW r,
         Skips(q, r, i)
  PROVE  r \in Seq(Step(f))
<1>1. PICK ops : LET rest == From(q, ops \cup {"end_finally"}) IN
    \/ /\ rest # <<>> /\ Head(rest).op = "end_finally"
       /\ r = Head(rest).other \o <<i>> \o Tail(rest)
    \/ rest # <<>> /\ Head(rest).op = "end_try" /\ r = Head(rest).other \o Tail(rest)
    \/ rest # <<>> /\ Head(rest).op # "end_finally" /\ r \in {rest, Tail(rest)}
    \/ rest = <<>> /\ r = <<>>
  BY DEF Skips
<1> DEFINE rest == From(q, ops \cup {"end_finally"})
<1>2. rest \in Seq(Step(f))
  BY FromTyped
<1> HIDE DEF rest
<1>3. CASE rest # <<>>
  <2>1. Head(rest) \in Step(f) /\ Tail(rest) \in Seq(Step(f))
    BY <1>2, <1>3, TailIs
  <2>2. Head(rest).other \in Seq(Step(f))
    <3>1. Head(rest).other \in Seq(Parts[f]) /\ Parts[f] \subseteq Step(f)
      BY <2>1, StepIs DEF StepOf, Step
    <3> QED BY <3>1, SeqMonotonic
  <2>3. <<i>> \in Seq(Step(f))
    OBVIOUS
  <2>4. /\ Head(rest).other \o Tail(rest) \in Seq(Step(f))
        /\ Head(rest).other \o <<i>> \o Tail(rest) \in Seq(Step(f))
    BY <2>1, <2>2, <2>3, ConcatProperties
  <2> QED BY <1>1, <1>2, <1>3, <2>1, <2>4 DEF rest
<1>4. CASE rest = <<>>
  BY <1>1, <1>4, EmptySeq DEF rest
<1> QED BY <1>3, <1>4

(* return, break and continue do so.                                       *)
LEMMA LeaveIs ==
  ASSUME Typed, Leave
  PROVE  /\ Active /\ ~raising /\ Todo # <<>>
         /\ Now.op \in {"return", "break", "continue"}
         /\ \E q : Skips(Tail(Todo), q, Now) /\ Stays(q, Top.ok)
<1>1. PICK ops : LeaveTo(ops)
  BY DEF Leave
<1>2. /\ Active /\ ~raising /\ Todo # <<>>
      /\ Now.op \in {"return", "break", "continue"}
  BY DEF Leave, At
<1> DEFINE rest == From(Tail(Todo), ops \cup {"end_finally"})
           q == IF rest # <<>> /\ Head(rest).op = "end_finally"
                  THEN Head(rest).other \o <<Now>> \o Tail(rest)
                  ELSE IF rest # <<>> /\ Now.op = "break" THEN Tail(rest) ELSE rest
<1>3. SetTop([Top EXCEPT !.todo = q])
  BY <1>1 DEF LeaveTo
<1>4. Skips(Tail(Todo), q, Now)
  BY DEF Skips
<1>5. Stays(q, Top.ok)
  <2> HIDE DEF q
  <2> QED BY <1>2, <1>3, TopIs, TodoIs DEF Stays, Moves
<1> QED BY <1>2, <1>4, <1>5

(* An exception does so where a handler or a finally clause is left, and   *)
(* leaves the function where none is.                                      *)
LEMMA UnwindIs ==
  ASSUME Typed, DoUnwind
  PROVE  /\ Active /\ raising
         /\ \/ /\ ~raising'
               /\ \E q : Skips(Todo, q, Raise) /\ Stays(q, Top.ok)
            \/ /\ Guards(Todo) = <<>> /\ Len(stack) > 1
               /\ stack' = Tail(stack) /\ raising' = raising
<1> DEFINE rest == Guards(Todo)
           q == Head(rest).other \o
                  IF Head(rest).op = "end_try" THEN Tail(rest)
                  ELSE <<Raise>> \o Tail(rest)
           r == IF Head(rest).op = "end_try" THEN Head(rest).other \o Tail(rest)
                ELSE Head(rest).other \o <<Raise>> \o Tail(rest)
<1>1. Active /\ raising
  BY DEF DoUnwind
<1>2. CASE rest # <<>> /\ raising' = FALSE /\ SetTop([Top EXCEPT !.todo = q])
  <2>1. Top.fn \in Function /\ Todo \in Seq(Step(Top.fn))
    BY <1>1, TopIs
  <2>2. rest \in Seq(Step(Top.fn))
    BY <2>1, FromTyped DEF Guards
  <2>3. Head(rest).op \in {"end_try", "end_finally"}
    <3>1. PICK m \in 1..Len(Todo) :
            /\ Todo[m].op \in {"end_try", "end_finally"}
            /\ rest = SubSeq(Todo, m, Len(Todo))
      BY <1>2, <2>1, FromIs DEF Guards
    <3>2. Head(rest) = Todo[m]
      BY <2>1, <3>1, HeadTailOfSubSeq
    <3> QED BY <3>1, <3>2
  <2>4. q = r
    <3>1. Head(rest) \in Step(Top.fn) /\ Tail(rest) \in Seq(Step(Top.fn))
      BY <1>2, <2>2, TailIs
    <3>2. Head(rest).other \in Seq(Step(Top.fn))
      <4>1. Head(rest).other \in Seq(Parts[Top.fn]) /\ Parts[Top.fn] \subseteq Step(Top.fn)
        BY <2>1, <3>1, StepIs DEF StepOf, Step
      <4> QED BY <4>1, SeqMonotonic
    <3>3. <<Raise>> \in Seq(Step(Top.fn))
      BY DEF Step
    <3>4. Head(rest).other \o (<<Raise>> \o Tail(rest)) =
            (Head(rest).other \o <<Raise>>) \o Tail(rest)
      <4>1. PICK a, p, t : a = Head(rest).other /\ p = <<Raise>> /\ t = Tail(rest)
        OBVIOUS
      <4>2. /\ a \in Seq(Step(Top.fn)) /\ p \in Seq(Step(Top.fn))
            /\ t \in Seq(Step(Top.fn))
        BY <3>1, <3>2, <3>3, <4>1, Zenon
      <4>3. a \o (p \o t) = (a \o p) \o t
        BY <4>2, ConcatAssociative
      <4> QED BY <4>1, <4>3, Zenon
    <3>5. CASE Head(rest).op = "end_try"
      BY <3>5, Zenon
    <3>6. CASE Head(rest).op # "end_try"
      BY <3>4, <3>6, Zenon
    <3> QED BY <3>5, <3>6
  <2>5. Skips(Todo, r, Raise)
    <3>1. rest = From(Todo, {"end_try"} \cup {"end_finally"})
      <4>1. {"end_try", "end_finally"} = {"end_try"} \cup {"end_finally"}
        OBVIOUS
      <4> QED BY <4>1, Zenon DEF Guards
    <3> HIDE DEF rest
    <3> QED BY <1>2, <2>3, <3>1 DEF Skips
  <2>6. Stays(r, Top.ok)
    <3> HIDE DEF q, r
    <3> QED BY <1>1, <1>2, <2>4, TopIs, TodoIs DEF Stays, Moves
  <2> QED BY <1>1, <1>2, <2>5, <2>6
<1>3. CASE rest = <<>> /\ Len(stack) > 1 /\ stack' = Tail(stack) /\ raising' = raising
  BY <1>1, <1>3
<1> QED BY <1>2, <1>3 DEF DoUnwind

-----------------------------------------------------------------------------
(* The types are kept.                                                     *)

(* Another handle in one of the variables.                                 *)
LEMMA OpensIs ==
  ASSUME Typed, Active, NEW q, NEW h, NEW own, NEW x, SetTop([x EXCEPT !.todo = q])
  PROVE  /\ x = [Top EXCEPT !.con = h, !.owns = own] =>
              Moves(q, h, Top.con2, own, Top.ok)
         /\ x = [Top EXCEPT !.con2 = h, !.owns = own] =>
              Moves(q, Top.con, h, own, Top.ok)
<1>1. PICK z \in Frame : z = Top
  BY TopIs
<1>0. z = [fn |-> z.fn, todo |-> z.todo, con |-> z.con,
           con2 |-> z.con2, owns |-> z.owns, ok |-> z.ok]
  BY FrameIs
<1>2. ASSUME x = [z EXCEPT !.con = h, !.owns = own]
      PROVE  [x EXCEPT !.todo = q] = With(z, q, h, z.con2, own, z.ok)
  <2>1. x = With(z, z.todo, h, z.con2, own, z.ok)
    BY <1>0, <1>2 DEF With
  <2> QED BY <2>1 DEF With
<1>3. ASSUME x = [z EXCEPT !.con2 = h, !.owns = own]
      PROVE  [x EXCEPT !.todo = q] = With(z, q, z.con, h, own, z.ok)
  <2>1. x = With(z, z.todo, z.con, h, own, z.ok)
    BY <1>0, <1>3 DEF With
  <2> QED BY <2>1 DEF With
<1> QED BY <1>1, <1>2, <1>3, Zenon DEF Moves

(* connect gives out the handle of the mode while it is open, and one      *)
(* that nobody has when it is not.                                         *)
LEMMA HandleForIs ==
  ASSUME Typed, NEW mode \in {"rw", "ro"}
  PROVE  /\ HandleFor(mode) \in Handle
         /\ HandleFor(mode) = slot[mode] \/ HandleFor(mode) \notin InUse
         /\ slot[mode] \in open => HandleFor(mode) = slot[mode]
         /\ slot[mode] \notin open => HandleFor(mode) \notin InUse
BY FreshIs DEF HandleFor, Typed

(* A statement that connects, field by field.                              *)
LEMMA ConnectIs ==
  ASSUME Typed, DoConnect
  PROVE  /\ Active /\ ~raising /\ Todo # <<>> /\ Now.op = "connect"
         /\ Now.arg \in {"rw", "ro"} /\ Now \in Parts[Top.fn]
         /\ \E h \in Handle :
            /\ h = HandleFor(Now.arg)
            /\ slot' = [slot EXCEPT ![Now.arg] = h]
            /\ open' = open \cup ({h} \ {slot[Now.arg]})
            /\ \/ /\ Now.on = "con"
                  /\ Moves(Tail(Todo), h, Top.con2, Top.owns \cup {"con"}, Top.ok)
               \/ /\ Now.on = "con2"
                  /\ Moves(Tail(Todo), Top.con, h, Top.owns \cup {"con2"}, Top.ok)
            /\ UNCHANGED <<raising, owes, db, calm, failed>>
<1>1. Active /\ ~raising /\ Todo # <<>> /\ Now.op = "connect"
  BY DEF DoConnect, At
<1>2. /\ Now.on \in {"con", "con2"} /\ Now \in Parts[Top.fn]
      /\ Top \in Frame /\ Tail(Todo) \in Seq(Step(Top.fn)) /\ Top.fn \in Function
  BY <1>1, TopIs, NowIs DEF StepOf
<1>3. Now.arg \in {"rw", "ro"}
  BY <1>1, <1>2, PartIs DEF PartOf
<1>4. <<>> \o Tail(Todo) = Tail(Todo)
  BY <1>2, ConcatEmptySeq
<1>5. PICK h \in Handle : h = HandleFor(Now.arg)
  BY <1>3, HandleForIs
<1>6. /\ slot' = [slot EXCEPT ![Now.arg] = h]
      /\ open' = open \cup ({h} \ {slot[Now.arg]})
      /\ UNCHANGED <<raising, owes, db, calm, failed>>
  BY <1>5 DEF DoConnect, Connected
<1>7. CASE Now.on = "con"
  <2>1. GoOn([Top EXCEPT !.con = h, !.owns = Top.owns \cup {"con"}], <<>>)
    BY <1>5, <1>7 DEF DoConnect, Connected
  <2>2. PICK q, own : q = Tail(Todo) /\ own = Top.owns \cup {"con"}
    OBVIOUS
  <2>3. PICK x : x = [Top EXCEPT !.con = h, !.owns = own]
    OBVIOUS
  <2>4. GoOn(x, <<>>)
    BY <2>1, <2>2, <2>3
  <2>5. Moves(q, h, Top.con2, own, Top.ok)
    <3>1. SetTop([x EXCEPT !.todo = q])
      BY <1>4, <2>2, <2>4 DEF GoOn
    <3> QED BY <1>1, <2>3, <3>1, OpensIs, Zenon
  <2>6. Moves(Tail(Todo), h, Top.con2, Top.owns \cup {"con"}, Top.ok)
    BY <2>2, <2>5, Zenon
  <2> QED BY <1>1, <1>2, <1>3, <1>5, <1>6, <1>7, <2>6, Zenon
<1>8. CASE Now.on = "con2"
  <2>1. GoOn([Top EXCEPT !.con2 = h, !.owns = Top.owns \cup {"con2"}], <<>>)
    BY <1>5, <1>8 DEF DoConnect, Connected
  <2>2. PICK q, own : q = Tail(Todo) /\ own = Top.owns \cup {"con2"}
    OBVIOUS
  <2>3. PICK x : x = [Top EXCEPT !.con2 = h, !.owns = own]
    OBVIOUS
  <2>4. GoOn(x, <<>>)
    BY <2>1, <2>2, <2>3
  <2>5. Moves(q, Top.con, h, own, Top.ok)
    <3>1. SetTop([x EXCEPT !.todo = q])
      BY <1>4, <2>2, <2>4 DEF GoOn
    <3> QED BY <1>1, <2>3, <3>1, OpensIs, Zenon
  <2>6. Moves(Tail(Todo), Top.con, h, Top.owns \cup {"con2"}, Top.ok)
    BY <2>2, <2>5, Zenon
  <2> QED BY <1>1, <1>2, <1>3, <1>5, <1>6, <1>8, <2>6, Zenon
<1> QED BY <1>2, <1>7, <1>8

(* The handle that a variable of a function holds.                         *)
Value(x, v) == IF v = "con" THEN x.con ELSE x.con2

(* The innermost function with the handle that it has connected.           *)
LEMMA ConnectsTop ==
  ASSUME Typed, DoConnect
  PROVE  /\ Active /\ ~raising /\ Todo # <<>> /\ Now.op = "connect"
         /\ Now.arg \in {"rw", "ro"} /\ Now \in Parts[Top.fn]
         /\ \E h \in Handle :
              /\ h = HandleFor(Now.arg)
              /\ slot' = [slot EXCEPT ![Now.arg] = h]
              /\ open' = open \cup ({h} \ {slot[Now.arg]})
              /\ raising' = raising
              /\ stack' \in Seq(Frame) /\ Len(stack') = Len(stack)
              /\ \A k \in 2..Len(stack) : stack'[k] = stack[k]
              /\ stack'[1].fn = Top.fn /\ stack'[1].todo = Tail(Todo)
              /\ stack'[1].owns = Top.owns \cup {Now.on}
              /\ Value(stack'[1], Now.on) = h
              /\ \A v \in Top.owns \ {Now.on} : Value(stack'[1], v) = Value(Top, v)
<1>1. /\ Active /\ ~raising /\ Todo # <<>> /\ Now.op = "connect"
      /\ Now.arg \in {"rw", "ro"} /\ Now \in Parts[Top.fn]
  BY ConnectIs
<1>2. PICK h \in Handle :
        /\ h = HandleFor(Now.arg)
        /\ slot' = [slot EXCEPT ![Now.arg] = h]
        /\ open' = open \cup ({h} \ {slot[Now.arg]})
        /\ \/ /\ Now.on = "con"
              /\ Moves(Tail(Todo), h, Top.con2, Top.owns \cup {"con"}, Top.ok)
           \/ /\ Now.on = "con2"
              /\ Moves(Tail(Todo), Top.con, h, Top.owns \cup {"con2"}, Top.ok)
        /\ UNCHANGED <<raising, owes, db, calm, failed>>
  BY ConnectIs
<1>3. /\ Top \in Frame /\ Top.con \in Place /\ Top.con2 \in Place /\ h \in Place
      /\ Top.owns \in SUBSET {"con", "con2"} /\ Top.ok \in BOOLEAN
      /\ Tail(Todo) \in Seq(Step(Top.fn))
  BY <1>1, TopIs, NowIs DEF Place
<1>4. PICK x, q, n, z : x = Top /\ q = Tail(Todo) /\ n = Now.on /\ z = stack'
  OBVIOUS
<1>5. ASSUME NEW c \in Place, NEW c2 \in Place, NEW own \in SUBSET {"con", "con2"},
             NEW b \in BOOLEAN, Moves(q, c, c2, own, b)
      PROVE  /\ z \in Seq(Frame) /\ Len(z) = Len(stack)
             /\ \A k \in 2..Len(stack) : z[k] = stack[k]
             /\ z[1].fn = x.fn /\ z[1].todo = q
             /\ z[1].owns = own /\ z[1].con = c /\ z[1].con2 = c2
  <2>1. q \in Seq(Step(Top.fn))
    BY <1>3, <1>4
  <2>2. /\ z \in Seq(Frame) /\ Len(z) = Len(stack)
        /\ \A k \in 2..Len(stack) : z[k] = stack[k]
        /\ z[1] = With(Top, q, c, c2, own, b)
    <3>1. /\ stack' \in Seq(Frame) /\ Len(stack') = Len(stack)
          /\ \A k \in 2..Len(stack) : stack'[k] = stack[k]
          /\ stack'[1] = With(Top, q, c, c2, own, b)
      BY <1>1, <1>5, <2>1, Goes
    <3> QED BY <1>4, <3>1, Zenon
  <2>3. PICK y : y = With(x, q, c, c2, own, b)
    OBVIOUS
  <2>4. /\ y.fn = x.fn /\ y.todo = q /\ y.owns = own /\ y.con = c /\ y.con2 = c2
    BY <2>3 DEF With
  <2>5. z[1] = y
    BY <1>4, <2>2, <2>3
  <2> QED BY <2>2, <2>4, <2>5, Zenon
<1>6. /\ z \in Seq(Frame) /\ Len(z) = Len(stack)
      /\ \A k \in 2..Len(stack) : z[k] = stack[k]
      /\ z[1].fn = x.fn /\ z[1].todo = q /\ z[1].owns = x.owns \cup {n}
      /\ \/ n = "con" /\ z[1].con = h /\ z[1].con2 = x.con2
         \/ n = "con2" /\ z[1].con = x.con /\ z[1].con2 = h
  <2>1. CASE /\ Now.on = "con"
             /\ Moves(Tail(Todo), h, Top.con2, Top.owns \cup {"con"}, Top.ok)
    <3>1. PICK c2, own, b : c2 = Top.con2 /\ own = Top.owns \cup {"con"} /\ b = Top.ok
      OBVIOUS
    <3>2. Moves(q, h, c2, own, b)
      BY <1>4, <2>1, <3>1, Zenon
    <3>3. own \subseteq {"con", "con2"}
      BY <1>3, <3>1
    <3>4. c2 \in Place /\ own \in SUBSET {"con", "con2"} /\ b \in BOOLEAN
      BY <1>3, <3>1, <3>3, Zenon
    <3>5. /\ z \in Seq(Frame) /\ Len(z) = Len(stack)
          /\ \A k \in 2..Len(stack) : z[k] = stack[k]
          /\ z[1].fn = x.fn /\ z[1].todo = q
          /\ z[1].owns = own /\ z[1].con = h /\ z[1].con2 = c2
      BY <1>3, <1>5, <3>2, <3>4
    <3> QED BY <1>4, <2>1, <3>1, <3>5, Zenon
  <2>2. CASE /\ Now.on = "con2"
             /\ Moves(Tail(Todo), Top.con, h, Top.owns \cup {"con2"}, Top.ok)
    <3>1. PICK c, own, b : c = Top.con /\ own = Top.owns \cup {"con2"} /\ b = Top.ok
      OBVIOUS
    <3>2. Moves(q, c, h, own, b)
      BY <1>4, <2>2, <3>1, Zenon
    <3>3. own \subseteq {"con", "con2"}
      BY <1>3, <3>1
    <3>4. c \in Place /\ own \in SUBSET {"con", "con2"} /\ b \in BOOLEAN
      BY <1>3, <3>1, <3>3, Zenon
    <3>5. /\ z \in Seq(Frame) /\ Len(z) = Len(stack)
          /\ \A k \in 2..Len(stack) : z[k] = stack[k]
          /\ z[1].fn = x.fn /\ z[1].todo = q
          /\ z[1].owns = own /\ z[1].con = c /\ z[1].con2 = h
      BY <1>3, <1>5, <3>2, <3>4
    <3> QED BY <1>4, <2>2, <3>1, <3>5, Zenon
  <2> QED BY <1>2, <2>1, <2>2
<1>7. /\ Value(z[1], n) = h
      /\ \A v \in x.owns \ {n} : Value(z[1], v) = Value(x, v)
  <2>1. x.owns \subseteq {"con", "con2"}
    BY <1>3, <1>4
  <2>2. CASE n = "con" /\ z[1].con = h /\ z[1].con2 = x.con2
    BY <2>1, <2>2 DEF Value
  <2>3. CASE n = "con2" /\ z[1].con = x.con /\ z[1].con2 = h
    BY <2>1, <2>3 DEF Value
  <2> QED BY <1>6, <2>2, <2>3
<1> QED BY <1>1, <1>2, <1>4, <1>6, <1>7, Zenon

(* A statement that closes.                                                *)
LEMMA CloseIs ==
  ASSUME Typed, DoClose
  PROVE  /\ Active /\ ~raising /\ Todo # <<>> /\ Now.op = "close"
         /\ open' = Closed /\ Stays(Tail(Todo), Top.ok)
         /\ UNCHANGED <<slot, raising, owes, db, calm, failed>>
<1>1. /\ Active /\ ~raising /\ Todo # <<>> /\ Now.op = "close"
      /\ open' = Closed /\ GoOn(Top, <<>>)
      /\ UNCHANGED <<slot, raising, owes, db, calm, failed>>
  BY DEF DoClose, At
<1>2. <<>> \o Tail(Todo) = Tail(Todo)
  BY <1>1, NowIs, ConcatEmptySeq
<1>3. Stays(<<>> \o Tail(Todo), Top.ok)
  BY <1>1, GoesOn
<1> QED BY <1>1, <1>2, <1>3, Zenon

(* What is read, and what is written, keep their types.                    *)
LEMMA AnsweredIs ==
  ASSUME Typed, NEW tables, NEW b \in BOOLEAN
  PROVE  Answered(tables, b) \in BOOLEAN
BY Zenon DEF Answered, Typed

(* The switch and the halt stay Boolean.                                   *)
LEMMA WrittenIs ==
  ASSUME Typed, NEW tables
  PROVE  Written(tables) \in [killed : BOOLEAN, halted : BOOLEAN]
<1>1. PICK d \in [killed : BOOLEAN, halted : BOOLEAN] : d = db
  BY DEF Typed
<1>2. ASSUME NEW b \in BOOLEAN
      PROVE  /\ [d EXCEPT !.killed = b] \in [killed : BOOLEAN, halted : BOOLEAN]
             /\ [d EXCEPT !.halted = b] \in [killed : BOOLEAN, halted : BOOLEAN]
  BY Zenon
<1>3. PICK t, f : t = TRUE /\ f = FALSE
  OBVIOUS
<1>4. \/ Written(tables) = d
      \/ Written(tables) = [d EXCEPT !.killed = t]
      \/ Written(tables) = [d EXCEPT !.halted = t]
      \/ Written(tables) = [d EXCEPT !.killed = f]
      \/ Written(tables) = [d EXCEPT !.halted = f]
  BY <1>1, <1>3, Zenon DEF Written
<1>5. t \in BOOLEAN /\ f \in BOOLEAN
  BY <1>3
<1> QED BY <1>2, <1>4, <1>5, Zenon

(* The statements that only read, write, ask another host or raise.        *)
Works == DoRead \/ DoWrite \/ DoFetch \/ DoClosed \/ DoFail \/ DoRaise

(* They open and close nothing.                                            *)
LEMMA WorksIs ==
  ASSUME Typed, Works
  PROVE  /\ Active /\ ~raising /\ Todo # <<>>
         /\ Now.op \in {"read", "write", "commit", "fetch", "raise"}
         /\ \E b \in BOOLEAN : Stays(Tail(Todo), b)
         /\ UNCHANGED <<slot, open, calm>>
         /\ raising' \in BOOLEAN /\ owes' \in BOOLEAN
         /\ db' \in [killed : BOOLEAN, halted : BOOLEAN]
         /\ failed' \in 0..MaxFailures
<1>1. /\ Active /\ ~raising /\ Todo # <<>>
      /\ Now.op \in {"read", "write", "commit", "fetch", "raise"}
  BY DEF Works, DoRead, DoWrite, DoFetch, DoClosed, DoFail, DoRaise, UsesHandle, At
<1>2. <<>> \o Tail(Todo) = Tail(Todo)
  BY <1>1, NowIs, ConcatEmptySeq
<1>3. Top.ok \in BOOLEAN
  BY <1>1, TopIs
<1>4. ASSUME GoOn(Top, <<>>)
      PROVE  \E b \in BOOLEAN : Stays(Tail(Todo), b)
  <2>1. Stays(<<>> \o Tail(Todo), Top.ok)
    BY <1>1, <1>4, GoesOn
  <2>2. Stays(Tail(Todo), Top.ok)
    BY <1>2, <2>1, Zenon
  <2> QED BY <1>3, <2>2
<1>5. /\ raising \in BOOLEAN /\ owes \in BOOLEAN /\ failed \in 0..MaxFailures
      /\ db \in [killed : BOOLEAN, halted : BOOLEAN]
  BY DEF Typed
<1>6. CASE DoRead
  <2>1. PICK b \in BOOLEAN : b = Answered(Now.arg, Top.ok)
    BY <1>3, AnsweredIs
  <2>2. GoOn([Top EXCEPT !.ok = b], <<>>)
    BY <1>6, <2>1, Zenon DEF DoRead
  <2>3. Stays(<<>> \o Tail(Todo), b)
    BY <1>1, <2>2, AnswersAndGoesOn
  <2>4. Stays(Tail(Todo), b)
    BY <1>2, <2>3, Zenon
  <2> QED BY <1>1, <1>5, <1>6, <2>1, <2>4 DEF DoRead
<1>7. CASE DoWrite
  <2>1. db' \in [killed : BOOLEAN, halted : BOOLEAN]
    BY <1>7, WrittenIs DEF DoWrite
  <2>2. owes' \in BOOLEAN
    BY <1>5, <1>7, Zenon DEF DoWrite
  <2> QED BY <1>1, <1>4, <1>5, <1>7, <2>1, <2>2 DEF DoWrite
<1>8. CASE DoFetch
  BY <1>1, <1>4, <1>5, <1>8 DEF DoFetch
<1>9. CASE DoClosed
  BY <1>1, <1>4, <1>5, <1>9 DEF DoClosed, Raised
<1>10. CASE DoFail
  <2>1. failed' \in 0..MaxFailures
    BY <1>5, <1>10, FailuresAssumption DEF DoFail
  <2> QED BY <1>1, <1>4, <1>5, <1>10, <2>1 DEF DoFail, Raised
<1>11. CASE DoRaise
  BY <1>1, <1>4, <1>5, <1>11 DEF DoRaise, Raised
<1> QED BY <1>6, <1>7, <1>8, <1>9, <1>10, <1>11 DEF Works

(* A call leaves the rest of the caller below the new function, and a      *)
(* return brings it back.                                                  *)
LEMMA CallIs ==
  ASSUME Typed, DoCall
  PROVE  /\ Active /\ ~raising /\ Todo # <<>> /\ Now.op \in {"call", "callon"}
         /\ Now \in Parts[Top.fn] /\ Now.arg \in Function
         /\ \E c \in Place :
              LET x == With(Top, Tail(Todo), Top.con, Top.con2, Top.owns, Top.ok) IN
              /\ x \in Frame
              /\ stack' = <<NewFrame(Now.arg, c)>> \o (<<x>> \o Tail(stack))
         /\ owes' \in BOOLEAN
         /\ UNCHANGED <<slot, open, raising, db, calm, failed>>
<1>1. Active /\ ~raising /\ Todo # <<>> /\ Now.op \in {"call", "callon"}
  BY DEF DoCall, At
<1>2. /\ Now \in Parts[Top.fn] /\ Tail(Todo) \in Seq(Step(Top.fn))
      /\ Top \in Frame /\ Top.fn \in Function /\ Tail(stack) \in Seq(Frame)
      /\ Top.con \in Place /\ Top.con2 \in Place
      /\ Top.owns \in SUBSET {"con", "con2"} /\ Top.ok \in BOOLEAN
  BY <1>1, TopIs, NowIs DEF StepOf
<1>3. Now.arg \in Function
  BY <1>1, <1>2, PartIs DEF PartOf
<1>4. PICK c \in Place : c = IF Now.op = "callon" THEN Con ELSE NoCon
  BY <1>2 DEF Con, Place
<1>5. PICK x : x = With(Top, Tail(Todo), Top.con, Top.con2, Top.owns, Top.ok)
  OBVIOUS
<1>6. x \in Frame
  BY <1>2, <1>5, WithIs, Zenon
<1>7. [Top EXCEPT !.todo = Tail(@)] = x
  <2>1. PICK q : q = Tail(Todo)
    OBVIOUS
  <2>2. [Top EXCEPT !.todo = q] = With(Top, q, Top.con, Top.con2, Top.owns, Top.ok)
    BY <1>2, TodoIs
  <2>3. [Top EXCEPT !.todo = Tail(@)] = [Top EXCEPT !.todo = q]
    BY <1>2, <2>1 DEF Todo
  <2> QED BY <1>5, <2>1, <2>2, <2>3
<1>8. PICK n : n = NewFrame(Now.arg, c)
  OBVIOUS
<1>9. n \in Frame
  BY <1>3, <1>8, NewFrameIs
<1>10. stack' = <<n, x>> \o Tail(stack)
  BY <1>4, <1>7, <1>8, Zenon DEF DoCall
<1>11. <<n, x>> \o Tail(stack) = <<n>> \o (<<x>> \o Tail(stack))
  <2>1. <<n>> \in Seq(Frame) /\ <<x>> \in Seq(Frame) /\ <<n>> \o <<x>> = <<n, x>>
    <3>1. <<n>> \in Seq(Frame) /\ <<x>> \in Seq(Frame)
      BY <1>6, <1>9, <1>5
    <3>2. <<n>> \o <<x>> = <<n, x>>
      BY <1>6, <1>9, PairIs
    <3> QED BY <3>1, <3>2
  <2>2. PICK t : t = Tail(stack)
    OBVIOUS
  <2>3. (<<n>> \o <<x>>) \o t = <<n>> \o (<<x>> \o t)
    BY <1>2, <2>1, <2>2, ConcatAssociative
  <2> QED BY <2>1, <2>2, <2>3
<1>12. /\ owes' \in BOOLEAN
       /\ UNCHANGED <<slot, open, raising, db, calm, failed>>
  BY Zenon DEF DoCall, Typed
<1> QED BY <1>1, <1>2, <1>3, <1>5, <1>6, <1>8, <1>10, <1>11, <1>12, Zenon

(* The frames after a call, a return and an exception that leaves.         *)
LEMMA PushIs ==
  ASSUME Typed, Active, NEW n \in Frame, NEW x \in Frame,
         stack' = <<n>> \o (<<x>> \o Tail(stack))
  PROVE  /\ stack' \in Seq(Frame) /\ stack' # <<>> /\ Len(stack') = Len(stack) + 1
         /\ stack'[1] = n /\ stack'[2] = x
         /\ \A i \in 2..Len(stack) : stack'[i + 1] = stack[i]
<1>1. /\ Len(stack) \in Nat /\ Len(stack) >= 1 /\ Tail(stack) \in Seq(Frame)
      /\ Len(Tail(stack)) = Len(stack) - 1
      /\ \A i \in 1..(Len(stack) - 1) : Tail(stack)[i] = stack[i + 1]
  BY TailIs DEF Typed, Active
<1>2. PICK t : t = <<x>> \o Tail(stack)
  OBVIOUS
<1>3. /\ t \in Seq(Frame) /\ Len(t) = Len(stack) /\ t[1] = x
      /\ \A i \in 1..(Len(stack) - 1) : t[i + 1] = Tail(stack)[i]
  <2>1. /\ t \in Seq(Frame) /\ Len(t) = Len(Tail(stack)) + 1 /\ t[1] = x
        /\ \A i \in 1..Len(Tail(stack)) : t[i + 1] = Tail(stack)[i]
    BY <1>1, <1>2, ConsIs
  <2> QED BY <1>1, <2>1
<1>4. /\ stack' \in Seq(Frame) /\ stack' # <<>> /\ Len(stack') = Len(t) + 1
      /\ stack'[1] = n /\ \A i \in 1..Len(t) : stack'[i + 1] = t[i]
  BY <1>2, <1>3, ConsIs
<1>5. ASSUME NEW i \in 2..Len(stack)
      PROVE  stack'[i + 1] = stack[i]
  <2>1. i - 1 \in 1..(Len(stack) - 1) /\ (i - 1) + 1 = i /\ i \in 1..Len(t)
    BY <1>1, <1>3
  <2>2. stack'[i + 1] = t[i] /\ t[(i - 1) + 1] = Tail(stack)[i - 1]
        /\ Tail(stack)[i - 1] = stack[(i - 1) + 1]
    BY <1>1, <1>3, <1>4, <2>1
  <2> QED BY <2>1, <2>2
<1>6. stack'[2] = x
  <2>1. 1 \in 1..Len(t) /\ 1 + 1 = 2
    BY <1>1, <1>3
  <2> QED BY <1>3, <1>4, <2>1
<1> QED BY <1>1, <1>3, <1>4, <1>5, <1>6

(* A return gives its answer to the caller.                                *)
LEMMA ReturnIs ==
  ASSUME Typed, DoReturn
  PROVE  /\ Active /\ ~raising /\ Todo = <<>> /\ Len(stack) > 1
         /\ stack' \in Seq(Frame) /\ stack' # <<>> /\ Len(stack') = Len(stack) - 1
         /\ stack[2] \in Frame
         /\ stack'[1] = With(stack[2], stack[2].todo, stack[2].con,
                             stack[2].con2, stack[2].owns, Top.ok)
         /\ \A i \in 2..(Len(stack) - 1) : stack'[i] = stack[i + 1]
         /\ UNCHANGED <<slot, open, raising, owes, db, calm, failed>>
<1>1. /\ ~raising /\ Todo = <<>> /\ Len(stack) > 1
      /\ stack' = <<[stack[2] EXCEPT !.ok = Top.ok]>> \o SubSeq(stack, 3, Len(stack))
      /\ UNCHANGED <<slot, open, raising, owes, db, calm, failed>>
  BY DEF DoReturn
<1>2. Len(stack) \in Nat /\ stack \in Seq(Frame) /\ stack[2] \in Frame
  BY <1>1 DEF Typed
<1>3. Active /\ Top.ok \in BOOLEAN
  <2>1. Active
    BY <1>1 DEF Active
  <2> QED BY <2>1, TopIs
<1>4. PICK x, b : x = stack[2] /\ b = Top.ok
  OBVIOUS
<1>5. PICK y : y = [x EXCEPT !.ok = b]
  OBVIOUS
<1>6. y = With(x, x.todo, x.con, x.con2, x.owns, b)
  <2>1. x = [fn |-> x.fn, todo |-> x.todo, con |-> x.con,
             con2 |-> x.con2, owns |-> x.owns, ok |-> x.ok]
    BY <1>2, <1>4, FrameIs
  <2> QED BY <1>5, <2>1 DEF With
<1>7. y \in Frame
  <2>1. x \in Frame
    BY <1>2, <1>4
  <2>2. /\ x.todo \in Seq(Step(x.fn)) /\ x.con \in Place /\ x.con2 \in Place
        /\ x.owns \in SUBSET {"con", "con2"}
    BY <2>1, FrameIs, Zenon
  <2> QED BY <1>3, <1>4, <1>6, <2>1, <2>2, WithIs, Zenon
<1>8. PICK t : t = SubSeq(stack, 3, Len(stack))
  OBVIOUS
<1>9. /\ t \in Seq(Frame) /\ Len(t) = Len(stack) - 2
      /\ \A i \in 1..(Len(stack) - 2) : t[i] = stack[i + 2]
  <2>1. \A i \in 3..Len(stack) : stack[i] \in Frame
    BY <1>2
  <2>2. 3 \in Int /\ Len(stack) \in Int
    BY <1>2
  <2>3. /\ t \in Seq(Frame)
        /\ Len(t) = IF 3 <= Len(stack) THEN Len(stack) - 3 + 1 ELSE 0
        /\ \A i \in 1..(Len(stack) - 3 + 1) : t[i] = stack[3 + i - 1]
    BY <1>8, <2>1, <2>2, SubSeqProperties
  <2>4. ASSUME NEW i \in 1..(Len(stack) - 2)
        PROVE  t[i] = stack[i + 2]
    <3>1. i \in 1..(Len(stack) - 3 + 1) /\ 3 + i - 1 = i + 2
      BY <1>2
    <3> QED BY <2>3, <3>1
  <2>5. Len(t) = Len(stack) - 2
    <3>1. Len(t) = IF 3 <= Len(stack) THEN Len(stack) - 3 + 1 ELSE 0
      BY <2>3, Zenon
    <3>2. \A n \in Nat : n > 1 => (IF 3 <= n THEN n - 3 + 1 ELSE 0) = n - 2
      OBVIOUS
    <3> QED BY <1>1, <1>2, <3>1, <3>2, Zenon
  <2> QED BY <2>3, <2>4, <2>5, Zenon
<1>10. stack' = <<y>> \o t
  BY <1>1, <1>4, <1>5, <1>8
<1>11. /\ stack' \in Seq(Frame) /\ stack' # <<>> /\ Len(stack') = Len(t) + 1
       /\ stack'[1] = y /\ \A i \in 1..Len(t) : stack'[i + 1] = t[i]
  BY <1>7, <1>9, <1>10, ConsIs
<1>12. ASSUME NEW i \in 2..(Len(stack) - 1)
       PROVE  stack'[i] = stack[i + 1]
  <2>1. /\ i - 1 \in 1..(Len(stack) - 2) /\ (i - 1) + 1 = i /\ (i - 1) + 2 = i + 1
        /\ i - 1 \in 1..Len(t)
    BY <1>2, <1>9
  <2>2. stack'[(i - 1) + 1] = t[i - 1] /\ t[i - 1] = stack[(i - 1) + 2]
    BY <1>9, <1>11, <2>1
  <2> QED BY <2>1, <2>2
<1>13. Len(stack') = Len(stack) - 1
  BY <1>2, <1>9, <1>11
<1> QED BY <1>1, <1>2, <1>3, <1>4, <1>6, <1>11, <1>12, <1>13, Zenon

(* An exception that leaves a function leaves the others as they were.     *)
LEMMA PopIs ==
  ASSUME Typed, Len(stack) > 1, stack' = Tail(stack)
  PROVE  /\ stack' \in Seq(Frame) /\ stack' # <<>> /\ Len(stack') = Len(stack) - 1
         /\ \A i \in 1..(Len(stack) - 1) : stack'[i] = stack[i + 1]
<1>1. stack \in Seq(Frame) /\ stack # <<>>
  BY DEF Typed
<1>2. /\ Tail(stack) \in Seq(Frame) /\ Len(stack) \in Nat
      /\ Len(Tail(stack)) = Len(stack) - 1
      /\ \A i \in 1..(Len(stack) - 1) : Tail(stack)[i] = stack[i + 1]
  BY <1>1, TailIs
<1> QED BY <1>2

(* The type invariant holds at the start.                                  *)
LEMMA InitTyped == Init => Typed
<1> SUFFICES ASSUME Init PROVE Typed
  OBVIOUS
<1>1. slot \in [{"rw", "ro"} -> Place]
  BY DEF Init, NoSlot, Place
<1>2. stack \in Seq(Frame) /\ failed \in 0..MaxFailures /\ open = {}
  BY EmptySeq, FailuresAssumption DEF Init
<1>3. db \in [killed : BOOLEAN, halted : BOOLEAN]
  BY Zenon DEF Init, Untouched
<1>4. raising \in BOOLEAN /\ owes \in BOOLEAN /\ calm \in BOOLEAN
  BY CalmAssumption, Zenon DEF Init
<1> QED BY <1>1, <1>2, <1>3, <1>4 DEF Typed

(* Every step keeps it.                                                    *)
LEMMA NextTyped == Typed /\ [Next]_vars => Typed'
<1> SUFFICES ASSUME Typed, [Next]_vars
             PROVE  Typed'
  OBVIOUS
<1>0. /\ slot \in [{"rw", "ro"} -> Place]
      /\ open \subseteq Handle /\ open \subseteq {slot.rw, slot.ro}
      /\ stack \in Seq(Frame)
      /\ raising \in BOOLEAN /\ owes \in BOOLEAN
      /\ db \in [killed : BOOLEAN, halted : BOOLEAN]
      /\ calm \in BOOLEAN /\ failed \in 0..MaxFailures
  BY DEF Typed
<1>1. ASSUME NEW f \in Entry, Start(f)
      PROVE  Typed'
  <2>1. f \in Function /\ NoCon \in Place
    BY EntryAssumption DEF Place
  <2>2. NewFrame(f, NoCon) \in Frame
    BY <2>1, NewFrameIs
  <2>3. stack' \in Seq(Frame)
    BY <1>1, <2>2 DEF Start
  <2>4. UNCHANGED <<slot, open, raising, owes, db, calm, failed>>
    BY <1>1 DEF Start
  <2> QED BY <1>0, <2>3, <2>4, Zenon DEF Typed
<1>2. ASSUME NEW f \in Given, StartOn(f)
      PROVE  Typed'
  <2>1. f \in Function /\ 1 \in Handle /\ 1 \in Place
    BY EntryAssumption DEF Place, Handle
  <2>2. NewFrame(f, 1) \in Frame
    BY <2>1, NewFrameIs
  <2>3. stack' \in Seq(Frame)
    BY <1>2, <2>2 DEF StartOn
  <2>4. /\ slot' \in [{"rw", "ro"} -> Place] /\ slot'.rw = 1 /\ open' = {1}
    BY <1>0, <1>2, <2>1 DEF StartOn
  <2>5. open' \subseteq Handle /\ open' \subseteq {slot'.rw, slot'.ro}
    BY <2>1, <2>4
  <2>6. UNCHANGED <<raising, owes, db, calm, failed>>
    BY <1>2 DEF StartOn
  <2> QED BY <1>0, <2>3, <2>4, <2>5, <2>6, Zenon DEF Typed
<1>3. CASE DoConnect
  <2>1. PICK h \in Handle :
          /\ h = HandleFor(Now.arg)
          /\ slot' = [slot EXCEPT ![Now.arg] = h]
          /\ open' = open \cup ({h} \ {slot[Now.arg]})
          /\ stack' \in Seq(Frame)
    BY <1>3, ConnectsTop
  <2>2. Now.arg \in {"rw", "ro"} /\ UNCHANGED <<raising, owes, db, calm, failed>>
    BY <1>3, ConnectIs
  <2>3. h \in Place
    BY DEF Place
  <2>5. slot' \in [{"rw", "ro"} -> Place]
    BY <1>0, <2>1, <2>2, <2>3
  <2>6. open' \subseteq Handle
    BY <1>0, <2>1
  <2>7. open' \subseteq {slot'.rw, slot'.ro}
    <3>1. slot[Now.arg] \in open => h = slot[Now.arg]
      BY <2>1, <2>2, HandleForIs
    <3> QED BY <1>0, <2>1, <2>2, <3>1
  <2> QED BY <1>0, <2>1, <2>2, <2>5, <2>6, <2>7, Zenon DEF Typed
<1>4. CASE DoClose
  <2>1. /\ Active /\ Todo # <<>> /\ open' = Closed /\ Stays(Tail(Todo), Top.ok)
        /\ UNCHANGED <<slot, raising, owes, db, calm, failed>>
    BY <1>4, CloseIs
  <2>2. stack' \in Seq(Frame)
    BY <2>1, TopIs, NowIs, StaysIs
  <2>3. open' \subseteq open
    BY <2>1 DEF Closed
  <2> QED BY <1>0, <2>1, <2>2, <2>3 DEF Typed
<1>5. CASE Works
  <2>1. /\ Active /\ Todo # <<>> /\ UNCHANGED <<slot, open, calm>>
        /\ raising' \in BOOLEAN /\ owes' \in BOOLEAN
        /\ db' \in [killed : BOOLEAN, halted : BOOLEAN]
        /\ failed' \in 0..MaxFailures
    BY <1>5, WorksIs
  <2>2. PICK b \in BOOLEAN : Stays(Tail(Todo), b)
    BY <1>5, WorksIs
  <2>3. stack' \in Seq(Frame)
    BY <2>1, <2>2, NowIs, StaysIs
  <2> QED BY <1>0, <2>1, <2>3, Zenon DEF Typed
<1>6. CASE Control
  <2>1. Active /\ Todo # <<>>
    BY <1>6, ControlIs
  <2>2. PICK q \in Seq(Step(Top.fn)), b \in BOOLEAN : Stays(q \o Tail(Todo), b)
    BY <1>6, ControlIs
  <2>3. q \o Tail(Todo) \in Seq(Step(Top.fn))
    BY <2>1, NowIs, ConcatProperties
  <2>4. stack' \in Seq(Frame)
    BY <2>1, <2>2, <2>3, StaysIs
  <2>5. UNCHANGED <<slot, open, raising, owes, db, calm, failed>>
    BY <1>6 DEF Control
  <2> QED BY <1>0, <2>4, <2>5, Zenon DEF Typed
<1>7. CASE Leave
  <2>1. Active /\ Todo # <<>>
    BY <1>7, LeaveIs
  <2>2. PICK q : Skips(Tail(Todo), q, Now) /\ Stays(q, Top.ok)
    BY <1>7, LeaveIs
  <2>3. /\ Top.fn \in Function /\ Now \in Step(Top.fn)
        /\ Tail(Todo) \in Seq(Step(Top.fn))
    BY <2>1, TopIs, NowIs
  <2>4. q \in Seq(Step(Top.fn))
    BY <2>2, <2>3, SkipsTyped
  <2>5. stack' \in Seq(Frame)
    BY <2>1, <2>2, <2>4, TopIs, StaysIs
  <2>6. UNCHANGED <<slot, open, raising, owes, db, calm, failed>>
    BY <1>7 DEF Leave
  <2> QED BY <1>0, <2>5, <2>6, Zenon DEF Typed
<1>8. CASE DoCall
  <2>1. /\ Active /\ Now.arg \in Function /\ owes' \in BOOLEAN
        /\ UNCHANGED <<slot, open, raising, db, calm, failed>>
    BY <1>8, CallIs
  <2>2. PICK c \in Place, x \in Frame :
          stack' = <<NewFrame(Now.arg, c)>> \o (<<x>> \o Tail(stack))
    BY <1>8, CallIs
  <2>3. NewFrame(Now.arg, c) \in Frame
    BY <2>1, NewFrameIs
  <2>4. stack' \in Seq(Frame)
    BY <2>1, <2>2, <2>3, PushIs
  <2> QED BY <1>0, <2>1, <2>4, Zenon DEF Typed
<1>9. CASE DoReturn
  <2>1. /\ stack' \in Seq(Frame)
        /\ UNCHANGED <<slot, open, raising, owes, db, calm, failed>>
    BY <1>9, ReturnIs
  <2> QED BY <1>0, <2>1, Zenon DEF Typed
<1>10. CASE DoUnwind
  <2>1. Active
    BY <1>10, UnwindIs
  <2>2. UNCHANGED <<slot, open, owes, db, calm, failed>>
    BY <1>10 DEF DoUnwind
  <2>3. ASSUME ~raising', NEW q, Skips(Todo, q, Raise), Stays(q, Top.ok)
        PROVE  stack' \in Seq(Frame) /\ raising' \in BOOLEAN
    <3>1. Raise \in Step(Top.fn) /\ Top.fn \in Function /\ Todo \in Seq(Step(Top.fn))
      BY <2>1, TopIs DEF Step
    <3>2. q \in Seq(Step(Top.fn))
      BY <2>3, <3>1, SkipsTyped
    <3>3. stack' \in Seq(Frame)
      BY <2>1, <2>3, <3>2, TopIs, StaysIs
    <3>4. raising' = FALSE \/ raising' = raising
      BY <1>10 DEF DoUnwind
    <3> QED BY <1>0, <3>3, <3>4
  <2>4. CASE Len(stack) > 1 /\ stack' = Tail(stack) /\ raising' = raising
    <3>1. stack' \in Seq(Frame)
      BY <2>4, PopIs
    <3> QED BY <1>0, <2>2, <2>4, <3>1, Zenon DEF Typed
  <2>5. \/ stack' \in Seq(Frame) /\ raising' \in BOOLEAN
        \/ Len(stack) > 1 /\ stack' = Tail(stack) /\ raising' = raising
    BY <1>10, <2>3, UnwindIs
  <2> QED BY <1>0, <2>2, <2>4, <2>5, Zenon DEF Typed
<1>11. CASE End
  <2>1. /\ slot' = NoSlot /\ open' = {} /\ stack' = <<>>
        /\ raising' = FALSE /\ owes' = FALSE
        /\ db' = Untouched /\ calm' \in Calm /\ failed' = 0
    BY <1>11 DEF End
  <2>2. slot' \in [{"rw", "ro"} -> Place]
    BY <2>1 DEF NoSlot, Place
  <2>3. stack' \in Seq(Frame) /\ failed' \in 0..MaxFailures
    BY <2>1, EmptySeq, FailuresAssumption
  <2>4. db' \in [killed : BOOLEAN, halted : BOOLEAN]
    BY <2>1, Zenon DEF Untouched
  <2>5. raising' \in BOOLEAN /\ owes' \in BOOLEAN /\ calm' \in BOOLEAN
    BY <2>1, CalmAssumption, Zenon
  <2> QED BY <2>1, <2>2, <2>3, <2>4, <2>5 DEF Typed
<1>12. CASE Elsewhere
  <2>1. /\ db' \in [killed : BOOLEAN, halted : BOOLEAN]
        /\ UNCHANGED <<slot, open, stack, raising, owes, calm, failed>>
    BY <1>12, WrittenIs DEF Elsewhere
  <2> QED BY <1>0, <2>1, Zenon DEF Typed
<1>13. CASE UNCHANGED vars
  BY <1>0, <1>13, Zenon DEF vars, Typed
<1> QED
  BY <1>1, <1>2, <1>3, <1>4, <1>5, <1>6, <1>7, <1>8, <1>9, <1>10, <1>11, <1>12,
     <1>13 DEF Next, Works

(* It holds throughout.                                                    *)
LEMMA AlwaysTyped == Spec => []Typed
BY InitTyped, NextTyped, PTL DEF Spec

(* The variables keep their types, and a function works on statements of   *)
(* its own, whatever it leaves, catches or is thrown out of.               *)
THEOREM TypeCorrect == Spec => []TypeOK
BY AlwaysTyped, TypedIsTypeOK, PTL

(* storage.connect never leaves an open handle behind: one that it no      *)
(* longer gives out is closed, so a thread has one for each mode at most.  *)
THEOREM OpenHandlesAreKept == Spec => [](open \subseteq {slot.rw, slot.ro})
<1>1. Typed => open \subseteq {slot.rw, slot.ro}
  BY DEF Typed
<1> QED BY <1>1, AlwaysTyped, PTL

-----------------------------------------------------------------------------
(* What is opened is closed.  A variable is safe in what is left of a      *)
(* function when a finally clause that was entered will close its handle,  *)
(* or, while nothing is raised, the next statements do, or enter a try     *)
(* whose finally clause does.                                              *)
Marked(q, v) ==
  \E k \in 1..Len(q) : q[k].op = "end_finally" /\ v \in Closes(q[k].other)

IsNext(q, v) == v \in Closes(q) \/ (q # <<>> /\ v \in Shuts(q[1]))

Safe(q, v, thrown) == Marked(q, v) \/ (thrown = FALSE /\ IsNext(q, v))

(* The variables that the first statements close.                          *)
LEMMA ClosesIs ==
  ASSUME NEW S, NEW q \in Seq(S), NEW v
  PROVE  v \in Closes(q) <=>
           \E k \in 1..Len(q) : v = q[k].on /\ \A j \in 1..k : q[j].op = "close"
BY DEF Closes

(* The next statement closes one of them, and the others are left.         *)
LEMMA ClosesNext ==
  ASSUME NEW S, NEW q \in Seq(S), NEW v \in Closes(q)
  PROVE  q # <<>> /\ q[1].op = "close" /\ (v = q[1].on \/ v \in Closes(Tail(q)))
<1>1. PICK k \in 1..Len(q) : v = q[k].on /\ \A j \in 1..k : q[j].op = "close"
  BY ClosesIs
<1>2. Len(q) \in Nat /\ q # <<>> /\ q[1].op = "close"
  BY <1>1
<1>3. /\ Tail(q) \in Seq(S) /\ Len(Tail(q)) = Len(q) - 1
      /\ \A i \in 1..(Len(q) - 1) : Tail(q)[i] = q[i + 1]
  BY <1>2, TailIs
<1>4. CASE k > 1
  <2>1. k - 1 \in 1..Len(Tail(q)) /\ (k - 1) + 1 = k /\ k - 1 \in 1..(Len(q) - 1)
    BY <1>2, <1>3, <1>4
  <2>2. Tail(q)[k - 1] = q[k]
    BY <1>3, <2>1
  <2>3. ASSUME NEW j \in 1..(k - 1)
        PROVE  Tail(q)[j].op = "close"
    <3>1. j \in 1..(Len(q) - 1) /\ j + 1 \in 1..k
      BY <1>2
    <3> QED BY <1>1, <1>3, <3>1
  <2>4. v \in Closes(Tail(q))
    BY <1>1, <1>3, <2>1, <2>2, <2>3, ClosesIs
  <2> QED BY <1>2, <2>4
<1>5. CASE k = 1
  BY <1>1, <1>2, <1>5
<1> QED BY <1>2, <1>4, <1>5

(* What follows changes nothing of it.                                     *)
LEMMA ClosesMore ==
  ASSUME NEW S, NEW q \in Seq(S), NEW t \in Seq(S), NEW v \in Closes(q)
  PROVE  v \in Closes(q \o t)
<1>1. PICK k \in 1..Len(q) : v = q[k].on /\ \A j \in 1..k : q[j].op = "close"
  BY ClosesIs
<1>2. PICK r : r = q \o t
  OBVIOUS
<1>3. Len(q) \in Nat /\ Len(t) \in Nat
  OBVIOUS
<1>4. /\ r \in Seq(S) /\ Len(r) = Len(q) + Len(t)
      /\ \A i \in 1..Len(q) : r[i] = q[i]
  BY <1>2, <1>3, ConcatProperties
<1>5. k \in 1..Len(r) /\ k \in 1..Len(q) /\ \A j \in 1..k : j \in 1..Len(q)
  BY <1>3, <1>4
<1>6. v = r[k].on /\ \A j \in 1..k : r[j].op = "close"
  BY <1>1, <1>4, <1>5, Zenon
<1> QED BY <1>2, <1>4, <1>5, <1>6, ClosesIs

(* The mark of a finally clause is the next statement or stays.            *)
LEMMA MarkedTail ==
  ASSUME NEW S, NEW q \in Seq(S), q # <<>>, NEW v, Marked(q, v)
  PROVE  \/ q[1].op = "end_finally" /\ v \in Closes(q[1].other)
         \/ Marked(Tail(q), v)
<1>1. PICK k \in 1..Len(q) : q[k].op = "end_finally" /\ v \in Closes(q[k].other)
  BY DEF Marked
<1>2. /\ Tail(q) \in Seq(S) /\ Len(q) \in Nat /\ Len(Tail(q)) = Len(q) - 1
      /\ \A i \in 1..(Len(q) - 1) : Tail(q)[i] = q[i + 1]
  BY TailIs
<1>3. CASE k > 1
  <2>1. k - 1 \in 1..Len(Tail(q)) /\ (k - 1) + 1 = k /\ k - 1 \in 1..(Len(q) - 1)
    BY <1>2, <1>3
  <2>2. Tail(q)[k - 1] = q[k]
    BY <1>2, <2>1
  <2> QED BY <1>1, <2>1, <2>2 DEF Marked
<1> QED BY <1>1, <1>2, <1>3

(* It stays below other statements.                                        *)
LEMMA MarkedMore ==
  ASSUME NEW S, NEW q \in Seq(S), NEW t \in Seq(S), NEW v, Marked(t, v)
  PROVE  Marked(q \o t, v)
<1>1. PICK k \in 1..Len(t) : t[k].op = "end_finally" /\ v \in Closes(t[k].other)
  BY DEF Marked
<1>2. PICK r : r = q \o t
  OBVIOUS
<1>3. Len(q) \in Nat /\ Len(t) \in Nat
  OBVIOUS
<1>4. /\ r \in Seq(S) /\ Len(r) = Len(q) + Len(t)
      /\ \A i \in 1..(Len(q) + Len(t)) :
           r[i] = IF i <= Len(q) THEN q[i] ELSE t[i - Len(q)]
  BY <1>2, ConcatProperties
<1>5. /\ k + Len(q) \in 1..(Len(q) + Len(t)) /\ ~(k + Len(q) <= Len(q))
      /\ (k + Len(q)) - Len(q) = k
  BY <1>3
<1>6. r[k + Len(q)] = t[k]
  BY <1>4, <1>5
<1>7. Marked(r, v)
  BY <1>1, <1>4, <1>5, <1>6 DEF Marked
<1> QED BY <1>2, <1>7

(* From the innermost mark on, no finally clause is passed over.           *)
LEMMA MarkedFrom ==
  ASSUME NEW S, NEW q \in Seq(S), NEW ops, NEW v, Marked(q, v)
  PROVE  LET rest == From(q, ops \cup {"end_finally"}) IN
         rest \in Seq(S) /\ rest # <<>> /\ Marked(rest, v)
<1>1. PICK rest : rest = From(q, ops \cup {"end_finally"})
  OBVIOUS
<1>2. rest \in Seq(S)
  BY <1>1, FromTyped
<1>3. PICK k \in 1..Len(q) : q[k].op = "end_finally" /\ v \in Closes(q[k].other)
  BY DEF Marked
<1>4. PICK m \in 1..Len(q) :
        /\ \A i \in 1..(m - 1) : q[i].op \notin ops \cup {"end_finally"}
        /\ rest = SubSeq(q, m, Len(q))
  BY <1>1, <1>3, FromIs
<1>5. Len(q) \in Nat
  OBVIOUS
<1>6. k >= m
  <2>1. k \in 1..(m - 1) => q[k].op # "end_finally"
    BY <1>4
  <2> QED BY <1>3, <1>5, <2>1
<1>7. /\ Len(rest) = Len(q) - m + 1
      /\ \A i \in 1..(Len(q) - m + 1) : rest[i] = q[m + i - 1]
  <2>1. \A i \in m..Len(q) : q[i] \in S
    BY <1>5
  <2>2. m \in Int /\ Len(q) \in Int /\ m <= Len(q)
    BY <1>5
  <2>3. /\ Len(rest) = IF m <= Len(q) THEN Len(q) - m + 1 ELSE 0
        /\ \A i \in 1..(Len(q) - m + 1) : rest[i] = q[m + i - 1]
    BY <1>4, <2>1, <2>2, SubSeqProperties
  <2>4. Len(rest) = Len(q) - m + 1
    BY <2>2, <2>3, Zenon
  <2> QED BY <2>3, <2>4, Zenon
<1>8. /\ k - m + 1 \in 1..(Len(q) - m + 1) /\ m + (k - m + 1) - 1 = k
      /\ k - m + 1 \in 1..Len(rest)
  BY <1>5, <1>6, <1>7
<1>9. rest[k - m + 1] = q[k]
  BY <1>7, <1>8
<1>10. Marked(rest, v)
  BY <1>3, <1>8, <1>9 DEF Marked
<1>11. rest # <<>>
  BY <1>8
<1> QED BY <1>1, <1>2, <1>10, <1>11

(* Leaving and catching keep what a finally clause will close.             *)
LEMMA SkipsSafe ==
  ASSUME NEW f \in Function, NEW q \in Seq(Step(f)), NEW i \in Step(f),
         NEW r, Skips(q, r, i), NEW v, Marked(q, v)
  PROVE  Safe(r, v, FALSE)
<1>1. PICK ops : LET rest == From(q, ops \cup {"end_finally"}) IN
    \/ /\ rest # <<>> /\ Head(rest).op = "end_finally"
       /\ r = Head(rest).other \o <<i>> \o Tail(rest)
    \/ rest # <<>> /\ Head(rest).op = "end_try" /\ r = Head(rest).other \o Tail(rest)
    \/ rest # <<>> /\ Head(rest).op # "end_finally" /\ r \in {rest, Tail(rest)}
    \/ rest = <<>> /\ r = <<>>
  BY DEF Skips
<1>2. PICK rest : rest = From(q, ops \cup {"end_finally"})
  OBVIOUS
<1>3. rest \in Seq(Step(f)) /\ rest # <<>> /\ Marked(rest, v)
  BY <1>2, MarkedFrom
<1>4. /\ Head(rest) \in Step(f) /\ Tail(rest) \in Seq(Step(f))
      /\ Head(rest) = rest[1]
  BY <1>3, TailIs
<1>5. PICK a, t : a = Head(rest).other /\ t = Tail(rest)
  OBVIOUS
<1>6. a \in Seq(Step(f)) /\ t \in Seq(Step(f)) /\ <<i>> \in Seq(Step(f))
  <2>1. a \in Seq(Parts[f]) /\ Parts[f] \subseteq Step(f)
    BY <1>4, <1>5, StepIs DEF StepOf, Step
  <2>2. a \in Seq(Step(f))
    BY <2>1, SeqMonotonic
  <2> QED BY <1>4, <1>5, <2>2
<1>7. (Head(rest).op = "end_finally" /\ v \in Closes(a)) \/ Marked(t, v)
  BY <1>3, <1>4, <1>5, MarkedTail
<1>8. CASE Head(rest).op = "end_finally" /\ r = (a \o <<i>>) \o t
  <2>1. a \o <<i>> \in Seq(Step(f))
    BY <1>6, ConcatProperties
  <2>2. CASE v \in Closes(a)
    <3>1. v \in Closes(a \o <<i>>)
      BY <1>6, <2>2, ClosesMore
    <3>2. v \in Closes((a \o <<i>>) \o t)
      BY <1>6, <2>1, <3>1, ClosesMore
    <3> QED BY <1>8, <3>2 DEF Safe, IsNext
  <2>3. CASE Marked(t, v)
    BY <1>6, <1>8, <2>1, <2>3, MarkedMore DEF Safe
  <2> QED BY <1>7, <2>2, <2>3
<1>9. CASE Head(rest).op # "end_finally" /\ r \in {a \o t, rest, t}
  <2>1. Marked(t, v)
    BY <1>7, <1>9
  <2>2. Marked(a \o t, v)
    BY <1>6, <2>1, MarkedMore
  <2> QED BY <1>3, <1>9, <2>1, <2>2 DEF Safe
<1>10. \/ Head(rest).op = "end_finally" /\ r = (a \o <<i>>) \o t
       \/ Head(rest).op # "end_finally" /\ r \in {a \o t, rest, t}
  BY <1>1, <1>2, <1>3, <1>5
<1> QED BY <1>8, <1>9, <1>10

(* What is left of guarded statements is guarded, and what the first of    *)
(* them opens is shut by the next.                                         *)
LEMMA GuardedTail ==
  ASSUME NEW S, NEW q \in Seq(S), q # <<>>, NEW O, Guarded(q, O)
  PROVE  /\ Guarded(Tail(q), O)
         /\ Opens(q[1]) \subseteq
              (IF Tail(q) = <<>> THEN O ELSE Shuts(Tail(q)[1]))
<1>1. /\ Tail(q) \in Seq(S) /\ Len(q) \in Nat /\ Len(q) >= 1
      /\ Len(Tail(q)) = Len(q) - 1
      /\ \A i \in 1..(Len(q) - 1) : Tail(q)[i] = q[i + 1]
  BY TailIs
<1>2. PICK t : t = Tail(q)
  OBVIOUS
<1>3. \A k \in 1..Len(q) :
        Opens(q[k]) \subseteq (IF k < Len(q) THEN Shuts(q[k + 1]) ELSE O)
  BY DEF Guarded
<1>4. ASSUME NEW k \in 1..Len(t)
      PROVE  Opens(t[k]) \subseteq (IF k < Len(t) THEN Shuts(t[k + 1]) ELSE O)
  <2>1. t[k] = q[k + 1] /\ k + 1 \in 1..Len(q)
    BY <1>1, <1>2
  <2>2. Opens(q[k + 1]) \subseteq
          (IF k + 1 < Len(q) THEN Shuts(q[(k + 1) + 1]) ELSE O)
    BY <1>3, <2>1
  <2>3. CASE k < Len(t)
    <3>1. k + 1 < Len(q) /\ t[k + 1] = q[(k + 1) + 1]
      BY <1>1, <1>2, <2>3
    <3>2. Opens(q[k + 1]) \subseteq Shuts(q[(k + 1) + 1])
      BY <2>2, <3>1, Zenon
    <3>3. Opens(t[k]) \subseteq Shuts(t[k + 1])
      BY <2>1, <3>1, <3>2, Zenon
    <3> QED BY <2>3, <3>3, Zenon
  <2>4. CASE ~(k < Len(t))
    <3>1. ~(k + 1 < Len(q))
      BY <1>1, <1>2, <2>4
    <3>2. Opens(q[k + 1]) \subseteq O
      BY <2>2, <3>1, Zenon
    <3>3. Opens(t[k]) \subseteq O
      BY <2>1, <3>2, Zenon
    <3> QED BY <2>4, <3>3, Zenon
  <2> QED BY <2>3, <2>4
<1>5. Guarded(t, O)
  <2>1. DOMAIN t = 1..Len(t)
    BY <1>1, <1>2
  <2> QED BY <1>4, <2>1, Zenon DEF Guarded
<1>6. Opens(q[1]) \subseteq (IF t = <<>> THEN O ELSE Shuts(t[1]))
  <2>1. Opens(q[1]) \subseteq (IF 1 < Len(q) THEN Shuts(q[1 + 1]) ELSE O)
    <3>1. 1 \in 1..Len(q)
      BY <1>1
    <3> QED BY <1>3, <3>1, Zenon
  <2>2. CASE t = <<>>
    <3>1. ~(1 < Len(q))
      BY <1>1, <1>2, <2>2
    <3> QED BY <2>1, <2>2, <3>1, Zenon
  <2>3. CASE t # <<>>
    <3>1. 1 < Len(q) /\ t[1] = q[1 + 1]
      BY <1>1, <1>2, <2>3
    <3>2. Opens(q[1]) \subseteq Shuts(t[1])
      BY <2>1, <3>1, Zenon
    <3> QED BY <2>3, <3>2, Zenon
  <2> QED BY <2>2, <2>3
<1> QED BY <1>2, <1>5, <1>6, Zenon

(* Guarded statements can follow each other when the next shuts what the   *)
(* last leaves open.                                                       *)
LEMMA GuardedConcat ==
  ASSUME NEW S, NEW q \in Seq(S), NEW t \in Seq(S), NEW O, NEW T,
         Guarded(q, O), Guarded(t, T),
         O \subseteq (IF t = <<>> THEN T ELSE Shuts(t[1]))
  PROVE  Guarded(q \o t, T)
<1>1. PICK r, m, n : r = q \o t /\ m = Len(q) /\ n = Len(t)
  OBVIOUS
<1>2. /\ m \in Nat /\ n \in Nat /\ r \in Seq(S) /\ Len(r) = m + n
      /\ \A i \in 1..(m + n) : r[i] = IF i <= m THEN q[i] ELSE t[i - m]
  BY <1>1, ConcatProperties
<1>3. /\ \A k \in 1..m : Opens(q[k]) \subseteq (IF k < m THEN Shuts(q[k + 1]) ELSE O)
      /\ \A k \in 1..n : Opens(t[k]) \subseteq (IF k < n THEN Shuts(t[k + 1]) ELSE T)
  <2>1. DOMAIN q = 1..m /\ DOMAIN t = 1..n
    BY <1>1
  <2> QED BY <1>1, <2>1, Zenon DEF Guarded
<1>4. ASSUME NEW k \in 1..(m + n)
      PROVE  Opens(r[k]) \subseteq (IF k < m + n THEN Shuts(r[k + 1]) ELSE T)
  <2>1. CASE k < m
    <3>1. /\ k \in 1..m /\ k + 1 \in 1..(m + n) /\ k <= m /\ k + 1 <= m
          /\ k < m + n
      BY <1>2, <2>1
    <3>2. r[k] = q[k] /\ r[k + 1] = q[k + 1]
      BY <1>2, <3>1, Zenon
    <3>3. Opens(q[k]) \subseteq Shuts(q[k + 1])
      BY <1>3, <2>1, <3>1, Zenon
    <3>4. Opens(r[k]) \subseteq Shuts(r[k + 1])
      BY <3>2, <3>3, Zenon
    <3> QED BY <3>1, <3>4, Zenon
  <2>2. CASE k = m
    <3>1. k \in 1..m /\ k <= m /\ ~(k < m)
      BY <1>2, <2>2
    <3>2. r[k] = q[k]
      BY <1>2, <3>1, Zenon
    <3>3. Opens(q[k]) \subseteq O
      BY <1>3, <3>1, Zenon
    <3>4. CASE t = <<>>
      <4>1. ~(k < m + n) /\ O \subseteq T
        BY <1>1, <1>2, <2>2, <3>4
      <4>2. Opens(r[k]) \subseteq T
        BY <3>2, <3>3, <4>1, Zenon
      <4> QED BY <4>1, <4>2, Zenon
    <3>5. CASE t # <<>>
      <4>1. n > 0
        BY <1>1, <3>5
      <4>2. k < m + n /\ k + 1 \in 1..(m + n) /\ ~(k + 1 <= m) /\ (k + 1) - m = 1
        BY <1>2, <2>2, <4>1
      <4>3. r[k + 1] = t[1]
        BY <1>2, <4>2, Zenon
      <4>4. O \subseteq Shuts(t[1])
        BY <3>5, Zenon
      <4>5. Opens(r[k]) \subseteq Shuts(r[k + 1])
        BY <3>2, <3>3, <4>3, <4>4, Zenon
      <4> QED BY <4>2, <4>5, Zenon
    <3> QED BY <3>4, <3>5
  <2>3. CASE k > m
    <3>1. k - m \in 1..n /\ ~(k <= m)
      BY <1>2, <2>3
    <3>2. r[k] = t[k - m]
      BY <1>2, <3>1, Zenon
    <3>3. CASE k < m + n
      <4>1. /\ k + 1 \in 1..(m + n) /\ ~(k + 1 <= m) /\ (k + 1) - m = (k - m) + 1
            /\ k - m < n
        BY <1>2, <2>3, <3>3
      <4>2. r[k + 1] = t[(k - m) + 1]
        <5>1. r[k + 1] = t[(k + 1) - m]
          BY <1>2, <4>1, Zenon
        <5> QED BY <4>1, <5>1
      <4>3. Opens(t[k - m]) \subseteq Shuts(t[(k - m) + 1])
        BY <1>3, <3>1, <4>1, Zenon
      <4>4. Opens(r[k]) \subseteq Shuts(r[k + 1])
        BY <3>2, <4>2, <4>3, Zenon
      <4> QED BY <3>3, <4>4, Zenon
    <3>4. CASE ~(k < m + n)
      <4>1. ~(k - m < n)
        BY <1>2, <3>4
      <4>2. Opens(t[k - m]) \subseteq T
        BY <1>3, <3>1, <4>1, Zenon
      <4>3. Opens(r[k]) \subseteq T
        BY <3>2, <4>2, Zenon
      <4> QED BY <3>4, <4>3, Zenon
    <3> QED BY <3>3, <3>4
  <2> QED BY <1>2, <2>1, <2>2, <2>3
<1>5. Guarded(r, T)
  <2>1. DOMAIN r = 1..(m + n) /\ Len(r) = m + n
    BY <1>2
  <2> QED BY <1>4, <2>1, Zenon DEF Guarded
<1> QED BY <1>1, <1>5

(* Guarded statements stay guarded from a mark on.                         *)
LEMMA GuardedFrom ==
  ASSUME NEW S, NEW q \in Seq(S), NEW ops, Guarded(q, {})
  PROVE  Guarded(From(q, ops), {})
<1>1. CASE From(q, ops) = <<>>
  BY <1>1 DEF Guarded
<1>2. ASSUME NEW m \in 1..Len(q), From(q, ops) = SubSeq(q, m, Len(q))
      PROVE  Guarded(From(q, ops), {})
  <2>1. PICK r, n : r = SubSeq(q, m, n) /\ n = Len(q)
    OBVIOUS
  <2>2. n \in Nat /\ m \in Int /\ m <= n /\ m >= 1
    BY <2>1
  <2>3. /\ r \in Seq(S) /\ Len(r) = n - m + 1
        /\ \A i \in 1..(n - m + 1) : r[i] = q[m + i - 1]
    <3>1. \A i \in m..n : q[i] \in S
      BY <2>1, <2>2
    <3>2. /\ r \in Seq(S)
          /\ Len(r) = IF m <= n THEN n - m + 1 ELSE 0
          /\ \A i \in 1..(n - m + 1) : r[i] = q[m + i - 1]
      BY <2>1, <2>2, <3>1, SubSeqProperties
    <3> QED BY <2>2, <3>2, Zenon
  <2>4. \A k \in 1..n :
          Opens(q[k]) \subseteq (IF k < n THEN Shuts(q[k + 1]) ELSE {})
    <3>1. DOMAIN q = 1..n
      BY <2>1
    <3> QED BY <2>1, <3>1, Zenon DEF Guarded
  <2>5. ASSUME NEW k \in 1..(n - m + 1)
        PROVE  Opens(r[k]) \subseteq
                 (IF k < n - m + 1 THEN Shuts(r[k + 1]) ELSE {})
    <3>1. m + k - 1 \in 1..n
      BY <2>2
    <3>2. r[k] = q[m + k - 1]
      BY <2>3, Zenon
    <3>3. CASE k < n - m + 1
      <4>1. /\ m + k - 1 < n /\ k + 1 \in 1..(n - m + 1)
            /\ m + (k + 1) - 1 = (m + k - 1) + 1
        BY <2>2, <3>3
      <4>2. r[k + 1] = q[(m + k - 1) + 1]
        <5>1. r[k + 1] = q[m + (k + 1) - 1]
          BY <2>3, <4>1, Zenon
        <5> QED BY <4>1, <5>1
      <4>3. Opens(q[m + k - 1]) \subseteq Shuts(q[(m + k - 1) + 1])
        BY <2>4, <3>1, <4>1, Zenon
      <4>4. Opens(r[k]) \subseteq Shuts(r[k + 1])
        BY <3>2, <4>2, <4>3, Zenon
      <4> QED BY <3>3, <4>4, Zenon
    <3>4. CASE ~(k < n - m + 1)
      <4>1. ~(m + k - 1 < n)
        BY <2>2, <3>4
      <4>2. Opens(q[m + k - 1]) \subseteq {}
        BY <2>4, <3>1, <4>1, Zenon
      <4>3. Opens(r[k]) \subseteq {}
        BY <3>2, <4>2, Zenon
      <4> QED BY <3>4, <4>3, Zenon
    <3> QED BY <3>3, <3>4
  <2>6. DOMAIN r = 1..(n - m + 1)
    BY <2>3
  <2>7. Guarded(r, {})
    BY <2>3, <2>5, <2>6, Zenon DEF Guarded
  <2> QED BY <1>2, <2>1, <2>7
<1> QED BY <1>1, <1>2, FromIs

(* A statement that opens nothing is guarded.                              *)
LEMMA GuardedOne ==
  ASSUME NEW i, Opens(i) = {}
  PROVE  Guarded(<<i>>, {})
BY DEF Guarded

(* The functions that close what they open, in what is left of them.       *)
TidyStepOf(i) ==
  /\ Guarded(i.other, {})
  /\ i.op \in {"either", "if", "ungiven", "each", "forever", "try", "finally"}
       => Guarded(i.body, Opens(i))
  /\ i.op = "again" => i.arg \in {"each", "forever"}

(* The statements of a tidy function and the marks are of this kind.       *)
LEMMA TidyStepIs ==
  ASSUME NEW f \in Tidy, NEW i \in Step(f)
  PROVE  TidyStepOf(i)
<1>1. f \in Function /\ IsTidy(f)
  BY TidyAssumption
<1>2. ASSUME NEW j \in Parts[f]
      PROVE  /\ PartOf(f, j)
             /\ Guarded(j.body, Opens(j)) /\ Guarded(j.other, {})
  BY <1>1, PartIs DEF IsTidy
<1>3. CASE i \in Parts[f]
  <2>1. i.op # "again"
    BY <1>2, <1>3 DEF PartOf, Kinds
  <2> QED BY <1>2, <1>3, <2>1 DEF TidyStepOf
<1>4. CASE i = Raise
  <2>1. i.op = "raise" /\ i.other = <<>>
    BY <1>4 DEF Raise, Plain, Statement
  <2>2. Guarded(<<>>, {})
    BY DEF Guarded
  <2> QED BY <2>1, <2>2 DEF TidyStepOf
<1>5. ASSUME NEW j \in Parts[f], i = EndTry(j) \/ i = EndFinally(j)
      PROVE  TidyStepOf(i)
  <2>1. i.other = j.other /\ i.op \in {"end_try", "end_finally"}
    BY <1>2, <1>5 DEF PartOf, EndTry, EndFinally
  <2> QED BY <1>2, <2>1 DEF TidyStepOf
<1>6. ASSUME NEW j \in Loops(f), i = Again(j)
      PROVE  TidyStepOf(i)
  <2>1. /\ PartOf(f, j) /\ j.op \in {"each", "forever"} /\ Guarded(j.other, {})
    BY <1>2 DEF Loops
  <2>2. i = [op |-> "again", arg |-> j.op, on |-> j.on, body |-> j.body,
             other |-> j.other]
    BY <1>6, <2>1, AgainIs DEF PartOf
  <2>3. i.op = "again" /\ i.arg = j.op /\ i.other = j.other
    BY <2>2
  <2> QED BY <2>1, <2>3 DEF TidyStepOf
<1>7. ASSUME NEW j \in Loops(f), i = [j EXCEPT !.arg = j.op]
      PROVE  TidyStepOf(i)
  <2>1. /\ PartOf(f, j) /\ j.op \in {"each", "forever"}
        /\ Guarded(j.body, Opens(j)) /\ Guarded(j.other, {})
    BY <1>2 DEF Loops
  <2>2. i.op = j.op /\ i.body = j.body /\ i.other = j.other
    BY <1>7, <2>1 DEF PartOf
  <2>3. Opens(i) = {} /\ Opens(j) = {}
    BY <2>1, <2>2 DEF Opens
  <2>4. Guarded(i.body, Opens(i))
    BY <2>1, <2>2, <2>3
  <2> QED BY <2>1, <2>2, <2>4 DEF TidyStepOf
<1> QED BY <1>3, <1>4, <1>5, <1>6, <1>7 DEF Step

(* The marks open nothing.                                                 *)
LEMMA MarksOpenNothing ==
  ASSUME NEW i, i = [op |-> i.op, arg |-> i.arg, on |-> i.on, body |-> i.body,
                     other |-> i.other]
  PROVE  /\ Opens(Again(i)) = {} /\ Opens(EndTry(i)) = {}
         /\ Opens(EndFinally(i)) = {} /\ EndFinally(i).op = "end_finally"
         /\ EndFinally(i).other = i.other
<1>1. Again(i).op = "again"
  BY AgainIs
<1>2. EndTry(i).op = "end_try" /\ EndFinally(i).op = "end_finally"
      /\ EndFinally(i).other = i.other
  BY DEF EndTry, EndFinally
<1> QED BY <1>1, <1>2 DEF Opens

(* Branches, loops, tries and finally clauses of a tidy function leave it  *)
(* guarded.                                                                *)
LEMMA ContinuesGuarded ==
  ASSUME NEW f \in Tidy, NEW q \in Seq(Step(f)), q # <<>>, Guarded(q, {}),
         NEW b \in Seq(Step(f)), Continues(q[1], b)
  PROVE  Guarded(b \o Tail(q), {})
<1>1. PICK i, t : i = q[1] /\ t = Tail(q)
  OBVIOUS
<1>2. i \in Step(f) /\ t \in Seq(Step(f)) /\ f \in Function
  BY <1>1, TailIs, TidyAssumption
<1>3. /\ i = [op |-> i.op, arg |-> i.arg, on |-> i.on, body |-> i.body,
              other |-> i.other]
      /\ i.body \in Seq(Step(f)) /\ i.other \in Seq(Step(f))
  <2>1. StepOf(f, i) /\ Parts[f] \subseteq Step(f)
    BY <1>2, StepIs DEF Step
  <2> QED BY <2>1, SeqMonotonic DEF StepOf
<1>4. TidyStepOf(i)
  BY <1>2, TidyStepIs
<1>5. Guarded(t, {}) /\ Opens(i) \subseteq (IF t = <<>> THEN {} ELSE Shuts(t[1]))
  BY <1>1, GuardedTail
<1>6. ASSUME NEW O, O \subseteq Opens(i), Guarded(b, O)
      PROVE  Guarded(b \o t, {})
  <2>1. O \subseteq (IF t = <<>> THEN {} ELSE Shuts(t[1]))
    BY <1>5, <1>6
  <2> QED BY <1>2, <1>5, <1>6, <2>1, GuardedConcat
<1>7. ASSUME NEW j \in Step(f), Opens(j) = {},
             i.op \in {"each", "forever", "try", "finally"}, b = i.body \o <<j>>
      PROVE  Guarded(b \o t, {})
  <2>1. Opens(i) = {}
    BY <1>7 DEF Opens
  <2>2. Guarded(i.body, {})
    BY <1>4, <1>7, <2>1 DEF TidyStepOf
  <2>3. Guarded(<<j>>, {}) /\ <<j>> \in Seq(Step(f))
    BY <1>7, GuardedOne
  <2>4. Guarded(i.body \o <<j>>, {})
    <3>1. PICK p : p = <<j>>
      OBVIOUS
    <3>2. {} \subseteq (IF p = <<>> THEN {} ELSE Shuts(p[1]))
      OBVIOUS
    <3>3. Guarded(p, {}) /\ p \in Seq(Step(f))
      BY <2>3, <3>1
    <3> QED BY <1>3, <2>2, <3>1, <3>2, <3>3, GuardedConcat
  <2> QED BY <1>6, <1>7, <2>4
<1>8. StepOf(f, i)
  BY <1>2, StepIs
<1>9. CASE b = <<>>
  <2>1. Guarded(<<>>, {})
    BY DEF Guarded
  <2> QED BY <1>1, <1>6, <1>9, <2>1
<1>10. CASE b = i.body /\ i.op \in {"either", "if", "ungiven"}
  BY <1>1, <1>4, <1>6, <1>10 DEF TidyStepOf
<1>11. CASE b = i.other
  BY <1>1, <1>4, <1>6, <1>11 DEF TidyStepOf
<1>12. CASE b = i.body \o <<Again(i)>> /\ i.op \in {"each", "forever"}
  BY <1>1, <1>3, <1>7, <1>8, <1>12, MarksOpenNothing DEF StepOf
<1>13. CASE b = <<[i EXCEPT !.op = i.arg]>> /\ i.op = "again"
  <2>1. PICK j : j = [i EXCEPT !.op = i.arg]
    OBVIOUS
  <2>2. j.op = i.arg
    BY <1>3, <2>1
  <2>3. i.arg \in {"each", "forever"}
    BY <1>4, <1>13 DEF TidyStepOf
  <2>4. Opens(j) = {}
    BY <2>2, <2>3 DEF Opens
  <2>5. Guarded(<<j>>, {})
    BY <2>4, GuardedOne
  <2> QED BY <1>1, <1>6, <1>13, <2>1, <2>5
<1>14. CASE b = i.body \o <<EndTry(i)>> /\ i.op = "try"
  BY <1>1, <1>3, <1>7, <1>8, <1>14, MarksOpenNothing DEF StepOf
<1>15. CASE b = i.body \o <<EndFinally(i)>> /\ i.op = "finally"
  BY <1>1, <1>3, <1>7, <1>8, <1>15, MarksOpenNothing DEF StepOf
<1> QED
  BY <1>1, <1>9, <1>10, <1>11, <1>12, <1>13, <1>14, <1>15 DEF Continues

(* The mark stays above other statements.                                  *)
LEMMA MarkedBefore ==
  ASSUME NEW S, NEW q \in Seq(S), NEW t \in Seq(S), NEW v, Marked(q, v)
  PROVE  Marked(q \o t, v)
<1>1. PICK k \in 1..Len(q) : q[k].op = "end_finally" /\ v \in Closes(q[k].other)
  BY DEF Marked
<1>2. PICK r : r = q \o t
  OBVIOUS
<1>3. /\ Len(q) \in Nat /\ Len(t) \in Nat /\ Len(r) = Len(q) + Len(t)
      /\ \A i \in 1..Len(q) : r[i] = q[i]
  BY <1>2, ConcatProperties
<1>4. k \in 1..Len(r) /\ r[k] = q[k]
  BY <1>3
<1> QED BY <1>1, <1>2, <1>4 DEF Marked

(* They keep every variable safe: a finally clause that is entered leaves  *)
(* its mark, and one that is reached closes.                               *)
LEMMA ContinuesSafe ==
  ASSUME NEW f \in Function, NEW q \in Seq(Step(f)), q # <<>>,
         NEW b \in Seq(Step(f)), Continues(q[1], b), NEW v, Safe(q, v, FALSE)
  PROVE  Safe(b \o Tail(q), v, FALSE)
<1>1. PICK i, t : i = q[1] /\ t = Tail(q)
  OBVIOUS
<1>2. i \in Step(f) /\ t \in Seq(Step(f))
  BY <1>1, TailIs
<1>3. Continues(i, b)
  BY <1>1
<1>4. CASE Marked(t, v)
  BY <1>1, <1>2, <1>4, MarkedMore DEF Safe
<1>5. CASE i.op = "end_finally" /\ v \in Closes(i.other)
  <2>1. b = i.other
    BY <1>3, <1>5 DEF Continues
  <2>2. v \in Closes(b \o t)
    BY <1>2, <1>5, <2>1, ClosesMore
  <2> QED BY <1>1, <2>2 DEF Safe, IsNext
<1>6. CASE v \in Closes(q)
  <2>1. i.op = "close"
    BY <1>1, <1>6, ClosesNext
  <2> QED BY <1>3, <2>1 DEF Continues
<1>7. CASE v \in Shuts(i)
  <2>1. i.op = "finally" /\ v \in Closes(i.other)
    BY <1>7 DEF Shuts
  <2>2. PICK e : e = EndFinally(i)
    OBVIOUS
  <2>3. b = i.body \o <<e>>
    BY <1>3, <2>1, <2>2 DEF Continues
  <2>4. StepOf(f, i) /\ Parts[f] \subseteq Step(f)
    BY <1>2, StepIs DEF Step
  <2>5. i.body \in Seq(Step(f)) /\ e \in Step(f)
    BY <2>1, <2>2, <2>4, SeqMonotonic DEF StepOf
  <2>6. e.op = "end_finally" /\ e.other = i.other
    BY <2>2, <2>4, MarksOpenNothing DEF StepOf
  <2>7. PICK p : p = <<e>>
    OBVIOUS
  <2>8. p \in Seq(Step(f)) /\ Len(p) = 1 /\ p[1] = e
    BY <2>5, <2>7
  <2>9. Marked(p, v)
    BY <2>1, <2>6, <2>8 DEF Marked
  <2>10. Marked(b, v)
    BY <2>3, <2>5, <2>7, <2>8, <2>9, MarkedMore
  <2>11. Marked(b \o t, v)
    BY <1>2, <2>10, MarkedBefore
  <2> QED BY <1>1, <2>11 DEF Safe
<1>8. Marked(q, v) \/ v \in Closes(q) \/ v \in Shuts(q[1])
  BY DEF Safe, IsNext
<1> QED BY <1>1, <1>4, <1>5, <1>6, <1>7, <1>8, MarkedTail

(* Leaving and catching leave the function guarded.                        *)
LEMMA SkipsGuarded ==
  ASSUME NEW f \in Tidy, NEW q \in Seq(Step(f)), Guarded(q, {}),
         NEW i \in Step(f), Opens(i) = {}, NEW r, Skips(q, r, i)
  PROVE  Guarded(r, {})
<1>1. PICK ops : LET rest == From(q, ops \cup {"end_finally"}) IN
    \/ /\ rest # <<>> /\ Head(rest).op = "end_finally"
       /\ r = Head(rest).other \o <<i>> \o Tail(rest)
    \/ rest # <<>> /\ Head(rest).op = "end_try" /\ r = Head(rest).other \o Tail(rest)
    \/ rest # <<>> /\ Head(rest).op # "end_finally" /\ r \in {rest, Tail(rest)}
    \/ rest = <<>> /\ r = <<>>
  BY DEF Skips
<1>2. PICK rest : rest = From(q, ops \cup {"end_finally"})
  OBVIOUS
<1>3. rest \in Seq(Step(f)) /\ Guarded(rest, {})
  BY <1>2, FromTyped, GuardedFrom
<1>4. CASE rest # <<>>
  <2>1. PICK a, t, p : a = Head(rest).other /\ t = Tail(rest) /\ p = <<i>>
    OBVIOUS
  <2>2. Head(rest) \in Step(f) /\ t \in Seq(Step(f)) /\ Guarded(t, {})
    BY <1>3, <1>4, <2>1, TailIs, GuardedTail
  <2>3. f \in Function
    BY TidyAssumption
  <2>4. a \in Seq(Step(f))
    <3>1. StepOf(f, Head(rest)) /\ Parts[f] \subseteq Step(f)
      BY <2>2, <2>3, StepIs DEF Step
    <3> QED BY <2>1, <3>1, SeqMonotonic DEF StepOf
  <2>5. Guarded(a, {})
    BY <2>1, <2>2, TidyStepIs DEF TidyStepOf
  <2>6. p \in Seq(Step(f)) /\ Guarded(p, {})
    BY <2>1, GuardedOne
  <2>7. ASSUME NEW x \in Seq(Step(f)), NEW y \in Seq(Step(f)),
               Guarded(x, {}), Guarded(y, {})
        PROVE  Guarded(x \o y, {})
    <3>1. {} \subseteq (IF y = <<>> THEN {} ELSE Shuts(y[1]))
      OBVIOUS
    <3> QED BY <2>7, <3>1, GuardedConcat
  <2>8. a \o p \in Seq(Step(f))
    BY <2>4, <2>6, ConcatProperties
  <2>9. Guarded(a \o t, {}) /\ Guarded((a \o p) \o t, {})
    BY <2>2, <2>4, <2>5, <2>6, <2>7, <2>8
  <2>10. r \in {(a \o p) \o t, a \o t, rest, t}
    BY <1>1, <1>2, <1>4, <2>1
  <2> QED BY <1>3, <2>2, <2>9, <2>10
<1>5. CASE rest = <<>>
  <2>1. r = <<>>
    BY <1>1, <1>2, <1>5, Zenon
  <2> QED BY <2>1 DEF Guarded
<1> QED BY <1>4, <1>5

-----------------------------------------------------------------------------
(* The discipline of a run of functions that close what they open:         *)
(* whatever is left of each of them is guarded; a variable whose handle is *)
(* open holds the handle of its mode, so that connecting it again changes  *)
(* nothing; and every open handle is in a safe variable.                   *)
Tidied(st) ==
  \A i \in 1..Len(st) : st[i].fn \in Tidy /\ Guarded(st[i].todo, {})

Pinned(st, sl, op) ==
  \A i \in 1..Len(st) : \A s \in Parts[st[i].fn] :
    s.op = "connect" /\ s.on \in st[i].owns /\ Value(st[i], s.on) \in op
      => sl[s.arg] = Value(st[i], s.on)

Keeps(st, i, v, thrown) ==
  IF i = 1 THEN Safe(st[i].todo, v, thrown) ELSE Marked(st[i].todo, v)

Kept(st, op, thrown) ==
  \A h \in op : \E i \in 1..Len(st) : \E v \in st[i].owns :
    Value(st[i], v) = h /\ Keeps(st, i, v, thrown)

Disciplined(st, sl, op, thrown) ==
  Tidied(st) /\ Pinned(st, sl, op) /\ Kept(st, op, thrown)

(* A frame of the same function with the same handles.                     *)
Like(x, y) == y.fn = x.fn /\ y.owns = x.owns /\ y.con = x.con /\ y.con2 = x.con2

(* Functions that are alike hold the same handles.                         *)
LEMMA LikeValue ==
  ASSUME NEW x, NEW y, Like(x, y), NEW v
  PROVE  Value(y, v) = Value(x, v)
BY DEF Like, Value

(* The innermost function goes on.                                         *)
LEMMA TopChanges ==
  ASSUME NEW st \in Seq(Frame), NEW st2 \in Seq(Frame), st # <<>>,
         Len(st2) = Len(st), \A i \in 2..Len(st) : st2[i] = st[i],
         Like(st[1], st2[1]), Guarded(st2[1].todo, {}),
         NEW sl, NEW op, NEW op2 \in SUBSET op, NEW thrown, NEW thrown2,
         Disciplined(st, sl, op, thrown),
         \A v \in st[1].owns :
           Value(st[1], v) \in op2 /\ Safe(st[1].todo, v, thrown)
             => Safe(st2[1].todo, v, thrown2)
  PROVE  Disciplined(st2, sl, op2, thrown2)
<1>1. Len(st) \in Nat /\ Len(st) >= 1
  OBVIOUS
<1>2. ASSUME NEW i \in 1..Len(st), i # 1
      PROVE  i \in 2..Len(st) /\ st2[i] = st[i]
  BY <1>1, <1>2
<1>3. ASSUME NEW i \in 1..Len(st)
      PROVE  Like(st[i], st2[i])
  BY <1>2 DEF Like
<1>4. Tidied(st2)
  <2> SUFFICES ASSUME NEW i \in 1..Len(st)
               PROVE  st2[i].fn \in Tidy /\ Guarded(st2[i].todo, {})
    BY DEF Tidied
  <2>1. st[i].fn \in Tidy /\ Guarded(st[i].todo, {})
    BY DEF Disciplined, Tidied
  <2>2. st2[i].fn = st[i].fn
    BY <1>3 DEF Like
  <2> QED BY <1>2, <2>1, <2>2
<1>5. Pinned(st2, sl, op2)
  <2> SUFFICES ASSUME NEW i \in 1..Len(st), NEW s \in Parts[st2[i].fn],
                      s.op = "connect", s.on \in st2[i].owns,
                      Value(st2[i], s.on) \in op2
               PROVE  sl[s.arg] = Value(st2[i], s.on)
    BY Zenon DEF Pinned
  <2>1. Like(st[i], st2[i]) /\ Value(st2[i], s.on) = Value(st[i], s.on)
    BY <1>3, LikeValue
  <2>2. s \in Parts[st[i].fn] /\ s.on \in st[i].owns
    BY <2>1 DEF Like
  <2> QED BY <2>1, <2>2 DEF Disciplined, Pinned
<1>6. Kept(st2, op2, thrown2)
  <2> SUFFICES ASSUME NEW h \in op2
               PROVE  \E i \in 1..Len(st2) : \E v \in st2[i].owns :
                        Value(st2[i], v) = h /\ Keeps(st2, i, v, thrown2)
    BY DEF Kept
  <2>1. PICK i \in 1..Len(st) : \E v \in st[i].owns :
          Value(st[i], v) = h /\ Keeps(st, i, v, thrown)
    BY DEF Disciplined, Kept
  <2>2. PICK v \in st[i].owns : Value(st[i], v) = h /\ Keeps(st, i, v, thrown)
    BY <2>1
  <2>3. Like(st[i], st2[i]) /\ Value(st2[i], v) = h
    BY <1>3, <2>2, LikeValue
  <2>4. v \in st2[i].owns
    BY <2>3 DEF Like
  <2>5. Keeps(st2, i, v, thrown2)
    <3>1. CASE i = 1
      BY <2>2, <3>1 DEF Keeps
    <3>2. CASE i # 1
      BY <1>2, <2>2, <3>2 DEF Keeps
    <3> QED BY <3>1, <3>2
  <2> QED BY <2>3, <2>4, <2>5
<1> QED BY <1>4, <1>5, <1>6 DEF Disciplined

(* It calls a function.                                                    *)
LEMMA TopCalls ==
  ASSUME NEW st \in Seq(Frame), NEW st2 \in Seq(Frame), st # <<>>,
         Len(st2) = Len(st) + 1, \A i \in 2..Len(st) : st2[i + 1] = st[i],
         Like(st[1], st2[2]), Guarded(st2[2].todo, {}),
         st2[1].fn \in Tidy, st2[1].owns = {}, Guarded(st2[1].todo, {}),
         NEW sl, NEW op, NEW thrown, NEW thrown2,
         Disciplined(st, sl, op, thrown),
         \A v \in st[1].owns :
           Safe(st[1].todo, v, thrown) => Marked(st2[2].todo, v)
  PROVE  Disciplined(st2, sl, op, thrown2)
<1>1. Len(st) \in Nat /\ Len(st) >= 1
  OBVIOUS
<1>2. ASSUME NEW i \in 1..Len(st), i # 1
      PROVE  i \in 2..Len(st) /\ st2[i + 1] = st[i]
  BY <1>1, <1>2
<1>3. ASSUME NEW i \in 1..Len(st)
      PROVE  Like(st[i], st2[i + 1]) /\ i + 1 \in 1..Len(st2) /\ i + 1 # 1
  BY <1>1, <1>2 DEF Like
<1>4. ASSUME NEW i \in 1..Len(st2), i # 1
      PROVE  \E j \in 1..Len(st) : i = j + 1
  <2>1. i - 1 \in 1..Len(st) /\ i = (i - 1) + 1
    BY <1>1, <1>4
  <2> QED BY <2>1
<1>5. Tidied(st2)
  <2> SUFFICES ASSUME NEW i \in 1..Len(st2), i # 1
               PROVE  st2[i].fn \in Tidy /\ Guarded(st2[i].todo, {})
    BY DEF Tidied
  <2>1. PICK j \in 1..Len(st) : i = j + 1
    BY <1>4
  <2>2. st[j].fn \in Tidy /\ Guarded(st[j].todo, {})
    BY DEF Disciplined, Tidied
  <2>3. st2[i].fn = st[j].fn
    BY <1>3, <2>1 DEF Like
  <2>4. j # 1 => st2[i].todo = st[j].todo
    BY <1>2, <2>1
  <2>5. j = 1 => i = 2
    BY <2>1
  <2> QED BY <2>2, <2>3, <2>4, <2>5
<1>6. Pinned(st2, sl, op)
  <2> SUFFICES ASSUME NEW i \in 1..Len(st2), NEW s \in Parts[st2[i].fn],
                      s.op = "connect", s.on \in st2[i].owns,
                      Value(st2[i], s.on) \in op
               PROVE  sl[s.arg] = Value(st2[i], s.on)
    BY Zenon DEF Pinned
  <2>1. PICK j \in 1..Len(st) : i = j + 1
    BY <1>4
  <2>2. Like(st[j], st2[i]) /\ Value(st2[i], s.on) = Value(st[j], s.on)
    BY <1>3, <2>1, LikeValue
  <2>3. s \in Parts[st[j].fn] /\ s.on \in st[j].owns
    BY <2>2 DEF Like
  <2> QED BY <2>2, <2>3 DEF Disciplined, Pinned
<1>7. Kept(st2, op, thrown2)
  <2> SUFFICES ASSUME NEW h \in op
               PROVE  \E i \in 1..Len(st2) : \E v \in st2[i].owns :
                        Value(st2[i], v) = h /\ Keeps(st2, i, v, thrown2)
    BY DEF Kept
  <2>1. PICK j \in 1..Len(st) : \E v \in st[j].owns :
          Value(st[j], v) = h /\ Keeps(st, j, v, thrown)
    BY DEF Disciplined, Kept
  <2>2. PICK v \in st[j].owns : Value(st[j], v) = h /\ Keeps(st, j, v, thrown)
    BY <2>1
  <2>3. PICK i : i = j + 1
    OBVIOUS
  <2>4. /\ Like(st[j], st2[i]) /\ Value(st2[i], v) = h
        /\ i \in 1..Len(st2) /\ i # 1
    BY <1>3, <2>2, <2>3, LikeValue
  <2>5. v \in st2[i].owns
    BY <2>4 DEF Like
  <2>6. Marked(st2[i].todo, v)
    <3>1. CASE j = 1
      <4>1. Safe(st[1].todo, v, thrown) /\ i = 2
        BY <2>2, <2>3, <3>1 DEF Keeps
      <4> QED BY <3>1, <4>1
    <3>2. CASE j # 1
      BY <1>2, <2>2, <2>3, <3>2 DEF Keeps
    <3> QED BY <3>1, <3>2
  <2>7. Keeps(st2, i, v, thrown2)
    BY <2>4, <2>6 DEF Keeps
  <2> QED BY <2>4, <2>5, <2>7
<1> QED BY <1>5, <1>6, <1>7 DEF Disciplined

(* It ends, and nothing is safe in it any more.                            *)
LEMMA TopEnds ==
  ASSUME NEW st \in Seq(Frame), NEW st2 \in Seq(Frame), Len(st) > 1,
         Len(st2) = Len(st) - 1,
         \A i \in 1..Len(st2) :
           Like(st[i + 1], st2[i]) /\ st2[i].todo = st[i + 1].todo,
         NEW sl, NEW op, NEW thrown, NEW thrown2,
         Disciplined(st, sl, op, thrown),
         \A v \in st[1].owns : ~Safe(st[1].todo, v, thrown)
  PROVE  Disciplined(st2, sl, op, thrown2)
<1>1. Len(st) \in Nat /\ Len(st) > 1
  OBVIOUS
<1>2. ASSUME NEW i \in 1..Len(st2)
      PROVE  i + 1 \in 1..Len(st) /\ i + 1 # 1
  BY <1>1
<1>3. Tidied(st2)
  <2> SUFFICES ASSUME NEW i \in 1..Len(st2)
               PROVE  st2[i].fn \in Tidy /\ Guarded(st2[i].todo, {})
    BY DEF Tidied
  <2>1. st[i + 1].fn \in Tidy /\ Guarded(st[i + 1].todo, {})
    BY <1>2 DEF Disciplined, Tidied
  <2> QED BY <2>1 DEF Like
<1>4. Pinned(st2, sl, op)
  <2> SUFFICES ASSUME NEW i \in 1..Len(st2), NEW s \in Parts[st2[i].fn],
                      s.op = "connect", s.on \in st2[i].owns,
                      Value(st2[i], s.on) \in op
               PROVE  sl[s.arg] = Value(st2[i], s.on)
    BY Zenon DEF Pinned
  <2>1. PICK j \in 1..Len(st) : j = i + 1
    BY <1>2
  <2>2. Like(st[j], st2[i]) /\ Value(st2[i], s.on) = Value(st[j], s.on)
    BY <2>1, LikeValue
  <2>3. s \in Parts[st[j].fn] /\ s.on \in st[j].owns
    BY <2>2 DEF Like
  <2> QED BY <2>2, <2>3 DEF Disciplined, Pinned
<1>5. Kept(st2, op, thrown2)
  <2> SUFFICES ASSUME NEW h \in op
               PROVE  \E i \in 1..Len(st2) : \E v \in st2[i].owns :
                        Value(st2[i], v) = h /\ Keeps(st2, i, v, thrown2)
    BY DEF Kept
  <2>1. PICK j \in 1..Len(st) : \E v \in st[j].owns :
          Value(st[j], v) = h /\ Keeps(st, j, v, thrown)
    BY DEF Disciplined, Kept
  <2>2. PICK v \in st[j].owns : Value(st[j], v) = h /\ Keeps(st, j, v, thrown)
    BY <2>1
  <2>3. j # 1
    BY <2>2 DEF Keeps
  <2>4. PICK i \in 1..Len(st2) : j = i + 1
    <3>1. j - 1 \in 1..Len(st2) /\ j = (j - 1) + 1
      BY <1>1, <2>3
    <3> QED BY <3>1
  <2>5. Like(st[j], st2[i]) /\ st2[i].todo = st[j].todo
    BY <2>4
  <2>6. Value(st2[i], v) = h
    BY <2>2, <2>5, LikeValue
  <2>7. v \in st2[i].owns
    BY <2>5 DEF Like
  <2>8. Marked(st2[i].todo, v)
    BY <2>2, <2>3, <2>5 DEF Keeps
  <2>9. Keeps(st2, i, v, thrown2)
    BY <2>8 DEF Keeps, Safe
  <2> QED BY <2>6, <2>7, <2>9
<1> QED BY <1>3, <1>4, <1>5 DEF Disciplined

(* It opens a handle, or gets the one that it or others have.              *)
ConnectsTo(st, st2, i, h, sl, sl2, op, op2) ==
  /\ st \in Seq(Frame) /\ st2 \in Seq(Frame) /\ st # <<>>
  /\ Len(st2) = Len(st) /\ \A k \in 2..Len(st) : st2[k] = st[k]
  /\ i \in Parts[st[1].fn] /\ i.op = "connect" /\ i.arg \in {"rw", "ro"}
  /\ st[1].todo # <<>> /\ st[1].todo[1] = i
  /\ st[1].todo \in Seq(Step(st[1].fn))
  /\ st2[1].fn = st[1].fn /\ st2[1].todo = Tail(st[1].todo)
  /\ st2[1].owns = st[1].owns \cup {i.on} /\ Value(st2[1], i.on) = h
  /\ \A v \in st[1].owns \ {i.on} : Value(st2[1], v) = Value(st[1], v)
  /\ sl \in [{"rw", "ro"} -> Place] /\ sl2 = [sl EXCEPT ![i.arg] = h]
  /\ op2 = op \cup {h}
  /\ \/ h \in op /\ h = sl[i.arg]
     \/ /\ h \notin op /\ sl[i.arg] \notin op
        /\ \A k \in 1..Len(st) : \A v \in st[k].owns : Value(st[k], v) # h

(* The variable that it connects is safe, because the next statement       *)
(* closes it; a handle that it had in that variable is the same, or was    *)
(* closed.                                                                 *)
LEMMA TopConnects ==
  ASSUME NEW st, NEW st2, NEW i, NEW h, NEW sl, NEW sl2, NEW op, NEW op2,
         ConnectsTo(st, st2, i, h, sl, sl2, op, op2),
         Disciplined(st, sl, op, FALSE)
  PROVE  Disciplined(st2, sl2, op2, FALSE)
<1> USE DEF ConnectsTo
<1>1. Len(st) \in Nat /\ Len(st) >= 1 /\ 1 \in 1..Len(st)
  OBVIOUS
<1>2. PICK f, t : f = st[1].fn /\ t = Tail(st[1].todo)
  OBVIOUS
<1>3. f \in Tidy /\ Guarded(st[1].todo, {})
  BY <1>1, <1>2 DEF Disciplined, Tidied
<1>4. IsTidy(f)
  BY <1>3, TidyAssumption
<1>5. /\ t \in Seq(Step(f)) /\ Guarded(t, {})
      /\ Opens(i) \subseteq (IF t = <<>> THEN {} ELSE Shuts(t[1]))
  BY <1>2, <1>3, TailIs, GuardedTail
<1>6. t # <<>> /\ i.on \in Shuts(t[1])
  <2>1. i.on \in Opens(i)
    BY DEF Opens
  <2> QED BY <1>5, <2>1
<1>7. ASSUME NEW k \in 1..Len(st), k # 1
      PROVE  k \in 2..Len(st) /\ st2[k] = st[k]
  BY <1>1, <1>7
<1>8. ASSUME NEW k \in 1..Len(st)
      PROVE  st2[k].fn = st[k].fn
  BY <1>7
<1>9. sl2[i.arg] = h /\ \A m \in {"rw", "ro"} \ {i.arg} : sl2[m] = sl[m]
  OBVIOUS
<1>10. Tidied(st2)
  <2> SUFFICES ASSUME NEW k \in 1..Len(st)
               PROVE  st2[k].fn \in Tidy /\ Guarded(st2[k].todo, {})
    BY DEF Tidied
  <2>1. st[k].fn \in Tidy /\ Guarded(st[k].todo, {})
    BY DEF Disciplined, Tidied
  <2> QED BY <1>2, <1>5, <1>7, <1>8, <2>1
<1>11. ASSUME NEW k \in 1..Len(st), NEW s \in Parts[st[k].fn],
              s.op = "connect", s.on \in st[k].owns,
              Value(st[k], s.on) \in op2
       PROVE  sl2[s.arg] = Value(st[k], s.on)
  <2>1. Value(st[k], s.on) \in op
    BY <1>11
  <2>2. sl[s.arg] = Value(st[k], s.on)
    BY <1>11, <2>1 DEF Disciplined, Pinned
  <2>3. s.arg \in {"rw", "ro"}
    <3>1. st[k].fn \in Function
      BY TidyAssumption DEF Disciplined, Tidied
    <3> QED BY <1>11, <3>1, PartIs DEF PartOf
  <2>4. CASE s.arg = i.arg
    BY <1>9, <2>1, <2>2, <2>4
  <2>5. CASE s.arg # i.arg
    BY <1>9, <2>2, <2>3, <2>5
  <2> QED BY <2>4, <2>5
<1>12. Pinned(st2, sl2, op2)
  <2> SUFFICES ASSUME NEW k \in 1..Len(st2), NEW s \in Parts[st2[k].fn],
                      s.op = "connect", s.on \in st2[k].owns,
                      Value(st2[k], s.on) \in op2
               PROVE  sl2[s.arg] = Value(st2[k], s.on)
    BY Zenon DEF Pinned
  <2>0. k \in 1..Len(st)
    OBVIOUS
  <2>1. s \in Parts[st[k].fn]
    BY <1>8, <2>0
  <2>2. CASE k # 1
    BY <1>7, <1>11, <2>0, <2>1, <2>2
  <2>3. CASE k = 1 /\ s.on # i.on
    <3>1. s.on \in st[1].owns /\ Value(st2[1], s.on) = Value(st[1], s.on)
      BY <2>3
    <3> QED BY <1>11, <2>0, <2>1, <2>3, <3>1
  <2>4. CASE k = 1 /\ s.on = i.on
    <3>1. s.arg = i.arg
      BY <1>2, <1>4, <2>1, <2>4 DEF IsTidy
    <3> QED BY <1>9, <2>4, <3>1
  <2> QED BY <2>2, <2>3, <2>4
<1>13. Safe(t, i.on, FALSE)
  BY <1>6 DEF Safe, IsNext
<1>14. Kept(st2, op2, FALSE)
  <2> SUFFICES ASSUME NEW g \in op2
               PROVE  \E k \in 1..Len(st2) : \E v \in st2[k].owns :
                        Value(st2[k], v) = g /\ Keeps(st2, k, v, FALSE)
    BY DEF Kept
  <2>1. CASE g = h
    <3>1. i.on \in st2[1].owns /\ Value(st2[1], i.on) = g
      BY <2>1
    <3>2. Keeps(st2, 1, i.on, FALSE)
      BY <1>2, <1>13 DEF Keeps
    <3> QED BY <1>1, <3>1, <3>2
  <2>2. CASE g # h
    <3>1. g \in op
      BY <2>2
    <3>2. PICK k \in 1..Len(st) : \E v \in st[k].owns :
            Value(st[k], v) = g /\ Keeps(st, k, v, FALSE)
      BY <3>1 DEF Disciplined, Kept
    <3>3. PICK v \in st[k].owns : Value(st[k], v) = g /\ Keeps(st, k, v, FALSE)
      BY <3>2
    <3>4. CASE k # 1
      <4>1. Keeps(st2, k, v, FALSE)
        BY <1>7, <3>3, <3>4 DEF Keeps
      <4> QED BY <1>7, <3>3, <3>4, <4>1
    <3>5. CASE k = 1
      <4>1. Safe(st[1].todo, v, FALSE)
        BY <3>3, <3>5 DEF Keeps
      <4>2. v # i.on
        <5> SUFFICES ASSUME v = i.on PROVE FALSE
          OBVIOUS
        <5>1. i \in Parts[st[1].fn] /\ i.on \in st[1].owns /\ Value(st[1], i.on) = g
          BY <3>3, <3>5
        <5>2. sl[i.arg] = g
          BY <1>1, <3>1, <5>1 DEF Disciplined, Pinned
        <5> QED BY <2>2, <3>1, <5>2
      <4>3. v \in st2[1].owns /\ Value(st2[1], v) = g
        BY <3>3, <3>5, <4>2
      <4>4. Marked(t, v)
        <5>1. ~IsNext(st[1].todo, v)
          <6>1. v \notin Shuts(i)
            BY DEF Shuts
          <6>2. v \notin Closes(st[1].todo)
            BY ClosesNext
          <6> QED BY <6>1, <6>2 DEF IsNext
        <5>2. Marked(st[1].todo, v)
          BY <4>1, <5>1 DEF Safe
        <5> QED BY <1>2, <5>2, MarkedTail
      <4>5. Keeps(st2, 1, v, FALSE)
        BY <1>2, <4>4 DEF Keeps, Safe
      <4> QED BY <1>1, <4>3, <4>5
    <3> QED BY <3>4, <3>5
  <2> QED BY <2>1, <2>2
<1> QED BY <1>10, <1>12, <1>14 DEF Disciplined

-----------------------------------------------------------------------------
(* The discipline is kept from the start of such a run to its end.         *)
Clean ==
  /\ stack = <<>> => open = {}
  /\ stack # <<>> /\ stack[Len(stack)].fn \in Tidy \ Given =>
       Disciplined(stack, slot, open, raising)

(* It is kept where the innermost function goes on and keeps its safe      *)
(* variables safe.                                                         *)
LEMMA StaysClean ==
  ASSUME Typed, Active, Clean,
         NEW q \in Seq(Step(Top.fn)), NEW b \in BOOLEAN, Stays(q, b),
         slot' = slot, open' \subseteq open,
         Top.fn \in Tidy /\ Guarded(Todo, {}) => Guarded(q, {}),
         \A v \in Top.owns :
           Value(Top, v) \in open' /\ Safe(Todo, v, raising) => Safe(q, v, raising')
  PROVE  Clean'
<1>1. PICK st, st2, sl, op, op2, ra, ra2 :
        /\ st = stack /\ st2 = stack' /\ sl = slot /\ op = open /\ op2 = open'
        /\ ra = raising /\ ra2 = raising'
  OBVIOUS
<1>2. /\ st \in Seq(Frame) /\ st # <<>> /\ Top = st[1] /\ Len(st) \in Nat
      /\ Len(st) >= 1
  BY <1>1, TopIs DEF Typed, Active
<1>3. /\ st2 \in Seq(Frame) /\ st2 # <<>> /\ Len(st2) = Len(st)
      /\ \A i \in 2..Len(st) : st2[i] = st[i]
      /\ st2[1] = With(Top, q, Top.con, Top.con2, Top.owns, b)
  BY <1>1, StaysIs
<1>4. PICK x : x = Top
  OBVIOUS
<1>5. Like(st[1], st2[1]) /\ st2[1].todo = q
  <2>1. PICK y : y = With(x, q, x.con, x.con2, x.owns, b)
    OBVIOUS
  <2>2. /\ y.fn = x.fn /\ y.owns = x.owns /\ y.con = x.con /\ y.con2 = x.con2
        /\ y.todo = q
    BY <2>1 DEF With
  <2>3. y = st2[1] /\ x = st[1]
    BY <1>2, <1>3, <1>4, <2>1
  <2> QED BY <2>2, <2>3 DEF Like
<1>6. st2[Len(st2)].fn = st[Len(st)].fn
  <2>1. CASE Len(st) = 1
    BY <1>3, <1>5, <2>1 DEF Like
  <2>2. CASE Len(st) # 1
    <3>1. \A n \in Nat : n >= 1 /\ n # 1 => n \in 2..n
      OBVIOUS
    <3>2. Len(st) \in 2..Len(st)
      BY <1>2, <2>2, <3>1, Zenon
    <3> QED BY <1>3, <3>2, Zenon
  <2> QED BY <2>1, <2>2
<1>7. CASE st[Len(st)].fn \in Tidy \ Given
  <2>1. Disciplined(st, sl, op, ra)
    BY <1>1, <1>2, <1>7 DEF Clean
  <2>2. Top.fn \in Tidy /\ Guarded(Todo, {})
    BY <1>2, <2>1 DEF Disciplined, Tidied, Todo
  <2>3. Guarded(st2[1].todo, {})
    BY <1>5, <2>2
  <2>4. ASSUME NEW v \in st[1].owns, Value(st[1], v) \in op2,
               Safe(st[1].todo, v, ra)
        PROVE  Safe(st2[1].todo, v, ra2)
    BY <1>1, <1>2, <1>5, <2>4 DEF Todo
  <2>5. op2 \in SUBSET op
    BY <1>1
  <2>6. Disciplined(st2, sl, op2, ra2)
    BY <1>2, <1>3, <1>5, <2>1, <2>3, <2>4, <2>5, TopChanges
  <2>7. Disciplined(stack', slot', open', raising')
    BY <1>1, <2>6
  <2> QED BY <1>1, <1>3, <2>7 DEF Clean
<1>8. CASE st[Len(st)].fn \notin Tidy \ Given
  <2>1. stack' # <<>> /\ stack'[Len(stack')].fn \notin Tidy \ Given
    BY <1>1, <1>3, <1>6, <1>8
  <2> QED BY <2>1 DEF Clean
<1> QED BY <1>7, <1>8

(* A statement that is no close, try or finally clause keeps the marks.    *)
LEMMA PlainSafe ==
  ASSUME NEW S, NEW q \in Seq(S), q # <<>>,
         q[1].op \notin {"close", "finally", "end_finally"},
         NEW v, NEW thrown, Safe(q, v, thrown)
  PROVE  Marked(Tail(q), v)
<1>1. v \notin Closes(q)
  BY ClosesNext
<1>2. v \notin Shuts(q[1])
  BY DEF Shuts
<1>3. Marked(q, v)
  BY <1>1, <1>2 DEF Safe, IsNext
<1> QED BY <1>3, MarkedTail

(* In a function that ends nothing is safe.                                *)
LEMMA NothingSafe ==
  ASSUME NEW S, NEW q \in Seq(S), NEW v, NEW thrown,
         q = <<>> \/ (thrown = TRUE /\ Guards(q) = <<>>)
  PROVE  ~Safe(q, v, thrown)
<1>1. CASE q = <<>>
  <2>1. ~Marked(q, v)
    BY <1>1 DEF Marked
  <2>2. v \notin Closes(q)
    BY <1>1 DEF Closes
  <2> QED BY <1>1, <2>1, <2>2 DEF Safe, IsNext
<1>2. CASE thrown = TRUE /\ Guards(q) = <<>>
  <2>1. ~Marked(q, v)
    <3> SUFFICES ASSUME Marked(q, v) PROVE FALSE
      OBVIOUS
    <3>1. From(q, {"end_try"} \cup {"end_finally"}) # <<>>
      BY MarkedFrom
    <3>2. {"end_try"} \cup {"end_finally"} = {"end_try", "end_finally"}
      OBVIOUS
    <3> QED BY <1>2, <3>1, <3>2, Zenon DEF Guards
  <2> QED BY <1>2, <2>1 DEF Safe
<1> QED BY <1>1, <1>2

(* A script starts with no handle.                                         *)
LEMMA StartsClean ==
  ASSUME Typed, NEW f \in Entry, Clean, Start(f)
  PROVE  Clean'
<1>1. /\ stack' = <<NewFrame(f, NoCon)>> /\ open' = {}
  <2>1. stack = <<>>
    BY DEF Start, Active
  <2> QED BY <2>1 DEF Start, Clean
<1>2. PICK st, x : st = stack' /\ x = NewFrame(f, NoCon)
  OBVIOUS
<1>3. st = <<x>> /\ Len(st) = 1 /\ st[1] = x /\ st # <<>>
  BY <1>1, <1>2
<1>4. x.fn = f /\ x.todo = Code[f] /\ x.owns = {}
  BY <1>2 DEF NewFrame
<1>5. ASSUME f \in Tidy, NEW sl, NEW ra
      PROVE  Disciplined(st, sl, {}, ra)
  <2>1. Guarded(Code[f], {})
    BY <1>5, TidyAssumption DEF IsTidy
  <2>2. Tidied(st)
    BY <1>3, <1>4, <1>5, <2>1 DEF Tidied
  <2>3. Pinned(st, sl, {})
    BY DEF Pinned
  <2>4. Kept(st, {}, ra)
    BY DEF Kept
  <2> QED BY <2>2, <2>3, <2>4 DEF Disciplined
<1>6. stack'[Len(stack')].fn = f
  BY <1>2, <1>3, <1>4
<1> QED BY <1>1, <1>2, <1>3, <1>5, <1>6 DEF Clean

(* Nothing is claimed of a function that starts on its caller's handle.    *)
LEMMA StartsOnClean ==
  ASSUME NEW f \in Given, StartOn(f)
  PROVE  Clean'
<1>1. PICK st, x : st = stack' /\ x = NewFrame(f, 1)
  OBVIOUS
<1>2. st = <<x>>
  BY <1>1 DEF StartOn
<1>3. Len(st) = 1 /\ st[1] = x /\ st # <<>>
  BY <1>2
<1>4. x.fn = f
  BY <1>1 DEF NewFrame
<1>5. stack' # <<>> /\ stack'[Len(stack')].fn = f
  BY <1>1, <1>3, <1>4
<1> QED BY <1>5 DEF Clean

(* A connect is followed by the statement that closes.                     *)
LEMMA ConnectsClean ==
  ASSUME Typed, Clean, DoConnect
  PROVE  Clean'
<1>1. /\ Active /\ ~raising /\ Todo # <<>> /\ Now.op = "connect"
      /\ Now.arg \in {"rw", "ro"} /\ Now \in Parts[Top.fn]
  BY ConnectsTop
<1>2. PICK h \in Handle :
        /\ h = HandleFor(Now.arg)
        /\ slot' = [slot EXCEPT ![Now.arg] = h]
        /\ open' = open \cup ({h} \ {slot[Now.arg]})
        /\ raising' = raising
        /\ stack' \in Seq(Frame) /\ Len(stack') = Len(stack)
        /\ \A k \in 2..Len(stack) : stack'[k] = stack[k]
        /\ stack'[1].fn = Top.fn /\ stack'[1].todo = Tail(Todo)
        /\ stack'[1].owns = Top.owns \cup {Now.on}
        /\ Value(stack'[1], Now.on) = h
        /\ \A v \in Top.owns \ {Now.on} : Value(stack'[1], v) = Value(Top, v)
  BY ConnectsTop
<1>3. /\ Top = stack[1] /\ Todo \in Seq(Step(Top.fn)) /\ Now = Todo[1]
      /\ Len(stack) \in Nat /\ Len(stack) >= 1
  BY <1>1, TopIs, TailIs DEF Now
<1>4. PICK st, st2, sl, sl2, op, op2, i :
        /\ st = stack /\ st2 = stack' /\ sl = slot /\ sl2 = slot'
        /\ op = open /\ op2 = open' /\ i = Now
  OBVIOUS
<1>5. /\ st \in Seq(Frame) /\ st # <<>> /\ Len(st) \in Nat /\ Len(st) >= 1
      /\ i.op = "connect" /\ i.arg \in {"rw", "ro"} /\ i \in Parts[st[1].fn]
      /\ st[1].todo # <<>> /\ st[1].todo[1] = i
      /\ st[1].todo \in Seq(Step(st[1].fn))
      /\ sl \in [{"rw", "ro"} -> Place]
  BY <1>1, <1>3, <1>4 DEF Typed, Active, Todo
<1>6. /\ st2 \in Seq(Frame) /\ Len(st2) = Len(st)
      /\ \A k \in 2..Len(st) : st2[k] = st[k]
      /\ st2[1].fn = st[1].fn /\ st2[1].todo = Tail(st[1].todo)
      /\ st2[1].owns = st[1].owns \cup {i.on}
      /\ Value(st2[1], i.on) = h
      /\ \A v \in st[1].owns \ {i.on} : Value(st2[1], v) = Value(st[1], v)
  BY <1>2, <1>3, <1>4, Zenon DEF Todo
<1>11. /\ sl2 = [sl EXCEPT ![i.arg] = h] /\ op2 = op \cup {h}
       /\ \/ h \in op /\ h = sl[i.arg]
          \/ /\ h \notin op /\ sl[i.arg] \notin op /\ h \notin InUse
  <2>1. /\ slot[Now.arg] \in open => h = slot[Now.arg]
        /\ slot[Now.arg] \notin open => h \notin InUse
    BY <1>1, <1>2, HandleForIs
  <2>2. slot[Now.arg] \in {slot.rw, slot.ro}
    BY <1>1
  <2>3. open \subseteq InUse /\ slot[Now.arg] \in InUse
    BY <2>2 DEF InUse
  <2> QED BY <1>2, <1>4, <2>1, <2>3
<1>12. \/ h \in op /\ h = sl[i.arg]
       \/ /\ h \notin op /\ sl[i.arg] \notin op
          /\ \A k \in 1..Len(st) : \A v \in st[k].owns : Value(st[k], v) # h
  <2>1. ASSUME NEW k \in 1..Len(st), NEW v
        PROVE  Value(st[k], v) \in InUse
    <3>1. k \in DOMAIN stack
      BY <1>3, <1>4
    <3>2. {stack[k].con, stack[k].con2} \subseteq InUse
      BY <3>1 DEF InUse
    <3> QED BY <1>4, <3>2 DEF Value
  <2> QED BY <1>11, <2>1
<1>13. st2[Len(st2)].fn = st[Len(st)].fn
  <2>1. CASE Len(st) = 1
    BY <1>6, <2>1
  <2>2. CASE Len(st) # 1
    <3>1. PICK n : n = Len(st)
      OBVIOUS
    <3>2. n \in Nat /\ n >= 1 /\ n # 1
      BY <1>5, <2>2, <3>1, Zenon
    <3>3. n \in 2..n
      BY <3>2
    <3> QED BY <1>6, <3>1, <3>3
  <2> QED BY <2>1, <2>2
<1>14. CASE st[Len(st)].fn \in Tidy \ Given
  <2>1. raising = FALSE /\ raising' = FALSE
    BY <1>1, <1>2 DEF Typed
  <2>2. Disciplined(st, sl, op, FALSE)
    BY <1>4, <1>5, <1>14, <2>1 DEF Clean
  <2>3. sl2 = [sl EXCEPT ![i.arg] = h] /\ op2 = op \cup {h}
    BY <1>11, Zenon
  <2>4. Disciplined(st2, sl2, op2, FALSE)
    <3>1. /\ st \in Seq(Frame) /\ st2 \in Seq(Frame) /\ st # <<>>
          /\ i \in Parts[st[1].fn] /\ sl \in [{"rw", "ro"} -> Place]
      BY <1>5, <1>6, Zenon
    <3>2. /\ Len(st2) = Len(st) /\ \A k \in 2..Len(st) : st2[k] = st[k]
          /\ st2[1].fn = st[1].fn /\ st2[1].todo = Tail(st[1].todo)
          /\ st2[1].owns = st[1].owns \cup {i.on}
          /\ Value(st2[1], i.on) = h
          /\ \A v \in st[1].owns \ {i.on} : Value(st2[1], v) = Value(st[1], v)
      BY <1>6, Zenon
    <3>3. /\ i.op = "connect" /\ i.arg \in {"rw", "ro"}
          /\ st[1].todo # <<>> /\ st[1].todo[1] = i
          /\ st[1].todo \in Seq(Step(st[1].fn))
      BY <1>5, Zenon
    <3>4. ConnectsTo(st, st2, i, h, sl, sl2, op, op2)
      BY <1>12, <2>3, <3>1, <3>2, <3>3, Zenon DEF ConnectsTo
    <3> QED BY <2>2, <3>4, TopConnects, Zenon
  <2>5. Disciplined(stack', slot', open', raising')
    BY <1>4, <2>1, <2>4
  <2>6. stack' # <<>>
    BY <1>4, <1>5, <1>6
  <2> QED BY <2>5, <2>6 DEF Clean
<1>15. CASE st[Len(st)].fn \notin Tidy \ Given
  <2>1. stack' # <<>> /\ stack'[Len(stack')].fn \notin Tidy \ Given
    BY <1>4, <1>5, <1>6, <1>13, <1>15
  <2> QED BY <2>1 DEF Clean
<1> QED BY <1>14, <1>15

(* A statement that reads, writes, asks a host or raises.                  *)
LEMMA WorksClean ==
  ASSUME Typed, Clean, Works
  PROVE  Clean'
<1>1. /\ Active /\ ~raising /\ Todo # <<>>
      /\ Now.op \in {"read", "write", "commit", "fetch", "raise"}
      /\ slot' = slot /\ open' = open
  BY WorksIs
<1>2. PICK b \in BOOLEAN : Stays(Tail(Todo), b)
  BY WorksIs
<1>3. PICK q, t, f, own, r :
        /\ q = Todo /\ t = Tail(Todo) /\ f = Top.fn /\ own = Top.owns
        /\ r = raising'
  OBVIOUS
<1>4. q \in Seq(Step(f)) /\ q # <<>> /\ t = Tail(q) /\ t \in Seq(Step(f)) /\ Now = q[1]
  BY <1>1, <1>3, TopIs, TailIs DEF Now
<1>5. Guarded(q, {}) => Guarded(t, {})
  BY <1>4, GuardedTail
<1>6. ASSUME NEW v, NEW thrown, Safe(q, v, thrown)
      PROVE  Safe(t, v, r)
  BY <1>1, <1>4, <1>6, PlainSafe DEF Safe
<1>7. Stays(t, b) /\ t \in Seq(Step(Top.fn))
  BY <1>2, <1>3, <1>4, Zenon
<1>8. Top.fn \in Tidy /\ Guarded(Todo, {}) => Guarded(t, {})
  BY <1>3, <1>5
<1>9. \A v \in Top.owns :
        Value(Top, v) \in open' /\ Safe(Todo, v, raising) => Safe(t, v, raising')
  BY <1>3, <1>6
<1> QED BY <1>1, <1>7, <1>8, <1>9, StaysClean

(* A variable whose handle is closed needs no close any more.              *)
LEMMA ClosesClean ==
  ASSUME Typed, Clean, DoClose
  PROVE  Clean'
<1>1. /\ Active /\ ~raising /\ Todo # <<>> /\ Now.op = "close"
      /\ open' = Closed /\ Stays(Tail(Todo), Top.ok)
      /\ slot' = slot /\ raising' = raising
  BY CloseIs
<1>2. PICK q, t, f, b :
        q = Todo /\ t = Tail(Todo) /\ f = Top.fn /\ b = Top.ok
  OBVIOUS
<1>3. q \in Seq(Step(f)) /\ q # <<>> /\ t = Tail(q) /\ t \in Seq(Step(f)) /\ Now = q[1]
  BY <1>1, <1>2, TopIs, TailIs DEF Now
<1>4. Guarded(q, {}) => Guarded(t, {})
  BY <1>3, GuardedTail
<1>5. raising = FALSE /\ raising' = FALSE
  BY <1>1 DEF Typed
<1>6. ASSUME NEW v \in Top.owns, Value(Top, v) \in open', Safe(q, v, FALSE)
      PROVE  Safe(t, v, FALSE)
  <2>1. v \notin Shuts(q[1])
    BY <1>1, <1>3 DEF Shuts
  <2>2. CASE Marked(q, v)
    BY <1>1, <1>3, <2>2, MarkedTail DEF Safe
  <2>3. CASE v \in Closes(q)
    <3>1. v = Now.on \/ v \in Closes(t)
      BY <1>3, <2>3, ClosesNext
    <3>2. v # Now.on
      <4> SUFFICES ASSUME v = Now.on PROVE FALSE
        OBVIOUS
      <4>1. Value(Top, v) = Con
        BY DEF Value, Con
      <4>2. open' = open \ {Con}
        BY <1>1 DEF Closed
      <4> QED BY <1>6, <4>1, <4>2
    <3> QED BY <3>1, <3>2 DEF Safe, IsNext
  <2> QED BY <1>6, <2>1, <2>2, <2>3 DEF Safe, IsNext
<1>7. Stays(t, b) /\ t \in Seq(Step(Top.fn)) /\ b \in BOOLEAN
  BY <1>1, <1>2, <1>3, TopIs, Zenon
<1>8. Top.fn \in Tidy /\ Guarded(Todo, {}) => Guarded(t, {})
  BY <1>2, <1>4
<1>9. \A v \in Top.owns :
        Value(Top, v) \in open' /\ Safe(Todo, v, raising) => Safe(t, v, raising')
  BY <1>2, <1>5, <1>6, Zenon
<1>10. open' \subseteq open
  BY <1>1 DEF Closed
<1> QED BY <1>1, <1>7, <1>8, <1>9, <1>10, StaysClean

(* A branch, a loop, a try or a finally clause is entered, or passed.      *)
LEMMA ControlsClean ==
  ASSUME Typed, Clean, Control
  PROVE  Clean'
<1>1. Active /\ ~raising /\ Todo # <<>>
  BY ControlIs
<1>2. slot' = slot /\ open' = open /\ raising' = raising
  BY DEF Control
<1>3. PICK p \in Seq(Step(Top.fn)), b \in BOOLEAN :
        Continues(Now, p) /\ Stays(p \o Tail(Todo), b)
  BY ControlIs
<1>4. PICK q, f, t : q = Todo /\ f = Top.fn /\ t = p \o Tail(Todo)
  OBVIOUS
<1>5. /\ q \in Seq(Step(f)) /\ q # <<>> /\ Tail(q) \in Seq(Step(f))
      /\ f \in Function /\ Now = q[1] /\ t = p \o Tail(q)
  BY <1>1, <1>4, TopIs, TailIs DEF Now
<1>6. p \in Seq(Step(f)) /\ Continues(q[1], p)
  BY <1>3, <1>4, <1>5
<1>7. f \in Tidy /\ Guarded(q, {}) => Guarded(t, {})
  BY <1>5, <1>6, ContinuesGuarded
<1>8. ASSUME NEW v, Safe(q, v, FALSE)
      PROVE  Safe(t, v, FALSE)
  BY <1>5, <1>6, <1>8, ContinuesSafe
<1>9. t \in Seq(Step(f))
  BY <1>5, <1>6, ConcatProperties
<1>10. raising = FALSE /\ raising' = FALSE
  BY <1>1, <1>2 DEF Typed
<1>11. Stays(t, b) /\ t \in Seq(Step(Top.fn)) /\ open' \subseteq open
  BY <1>2, <1>3, <1>4, <1>9, Zenon
<1>12. Top.fn \in Tidy /\ Guarded(Todo, {}) => Guarded(t, {})
  BY <1>4, <1>7
<1>13. \A v \in Top.owns :
         Value(Top, v) \in open' /\ Safe(Todo, v, raising) => Safe(t, v, raising')
  BY <1>4, <1>8, <1>10, Zenon
<1> QED BY <1>1, <1>2, <1>11, <1>12, <1>13, StaysClean

(* A return, break or continue passes the finally clauses on its way.      *)
LEMMA LeavesClean ==
  ASSUME Typed, Clean, Leave
  PROVE  Clean'
<1>1. /\ Active /\ ~raising /\ Todo # <<>>
      /\ Now.op \in {"return", "break", "continue"}
  BY LeaveIs
<1>2. slot' = slot /\ open' = open /\ raising' = raising
  BY DEF Leave
<1>3. PICK t : Skips(Tail(Todo), t, Now) /\ Stays(t, Top.ok)
  BY LeaveIs
<1>4. PICK q, f, i, b, p :
        q = Todo /\ f = Top.fn /\ i = Now /\ b = Top.ok /\ p = Tail(Todo)
  OBVIOUS
<1>5. /\ q \in Seq(Step(f)) /\ q # <<>> /\ p = Tail(q) /\ p \in Seq(Step(f))
      /\ f \in Function /\ i = q[1] /\ i \in Step(f) /\ b \in BOOLEAN
      /\ i.op \in {"return", "break", "continue"} /\ Skips(p, t, i)
  BY <1>1, <1>3, <1>4, TopIs, NowIs, TailIs, Zenon DEF Now
<1>6. t \in Seq(Step(f))
  BY <1>5, SkipsTyped
<1>7. f \in Tidy /\ Guarded(q, {}) => Guarded(t, {})
  <2>1. Opens(i) = {}
    BY <1>5 DEF Opens
  <2>2. Guarded(q, {}) => Guarded(p, {})
    BY <1>5, GuardedTail
  <2> QED BY <1>5, <2>1, <2>2, SkipsGuarded
<1>8. ASSUME NEW v, Safe(q, v, FALSE)
      PROVE  Safe(t, v, FALSE)
  <2>1. Marked(p, v)
    BY <1>5, <1>8, PlainSafe
  <2> QED BY <1>5, <2>1, SkipsSafe
<1>9. raising = FALSE /\ raising' = FALSE
  BY <1>1, <1>2 DEF Typed
<1>10. Stays(t, b) /\ t \in Seq(Step(Top.fn)) /\ open' \subseteq open
  BY <1>2, <1>3, <1>4, <1>6, Zenon
<1>11. Top.fn \in Tidy /\ Guarded(Todo, {}) => Guarded(t, {})
  BY <1>4, <1>7
<1>12. \A v \in Top.owns :
         Value(Top, v) \in open' /\ Safe(Todo, v, raising) => Safe(t, v, raising')
  BY <1>4, <1>8, <1>9, Zenon
<1> QED BY <1>1, <1>2, <1>5, <1>10, <1>11, <1>12, StaysClean

(* A call: the caller keeps what its finally clauses will close, and the   *)
(* function that starts has opened nothing.                                *)
LEMMA CallsClean ==
  ASSUME Typed, Clean, DoCall
  PROVE  Clean'
<1>1. /\ Active /\ ~raising /\ Todo # <<>> /\ Now.op \in {"call", "callon"}
      /\ Now \in Parts[Top.fn] /\ Now.arg \in Function
      /\ slot' = slot /\ open' = open
  BY CallIs
<1>2. PICK c \in Place :
        LET x == With(Top, Tail(Todo), Top.con, Top.con2, Top.owns, Top.ok) IN
        /\ x \in Frame
        /\ stack' = <<NewFrame(Now.arg, c)>> \o (<<x>> \o Tail(stack))
  BY CallIs
<1>3. PICK y : y = With(Top, Tail(Todo), Top.con, Top.con2, Top.owns, Top.ok)
  OBVIOUS
<1>4. PICK n : n = NewFrame(Now.arg, c)
  OBVIOUS
<1>5. /\ y \in Frame /\ n \in Frame
      /\ stack' = <<n>> \o (<<y>> \o Tail(stack))
  BY <1>1, <1>2, <1>3, <1>4, NewFrameIs, Zenon
<1>6. PICK st, st2, sl, op, ra, ra2, x, q, g :
        /\ st = stack /\ st2 = stack' /\ sl = slot /\ op = open
        /\ ra = raising /\ ra2 = raising' /\ x = Top /\ q = Todo /\ g = Now.arg
  OBVIOUS
<1>7. /\ st2 \in Seq(Frame) /\ st2 # <<>> /\ Len(st2) = Len(st) + 1
      /\ st2[1] = n /\ st2[2] = y
      /\ \A i \in 2..Len(st) : st2[i + 1] = st[i]
  BY <1>1, <1>5, <1>6, PushIs, Zenon
<1>8. /\ st \in Seq(Frame) /\ st # <<>> /\ Len(st) \in Nat /\ Len(st) >= 1
      /\ x = st[1] /\ q = x.todo /\ q # <<>> /\ q \in Seq(Step(x.fn))
      /\ Now = q[1] /\ Tail(q) = Tail(Todo)
  BY <1>1, <1>6, TopIs, TailIs DEF Typed, Active, Todo, Now
<1>9. /\ y.fn = x.fn /\ y.owns = x.owns /\ y.con = x.con /\ y.con2 = x.con2
      /\ y.todo = Tail(q)
  BY <1>3, <1>6, Zenon DEF With
<1>10. n.fn = g /\ n.owns = {} /\ n.todo = Code[g]
  BY <1>4, <1>6, Zenon DEF NewFrame
<1>11. st2[Len(st2)].fn = st[Len(st)].fn
  <2>1. PICK m : m = Len(st)
    OBVIOUS
  <2>2. m \in Nat /\ m >= 1 /\ Len(st2) = m + 1
    BY <1>7, <1>8, <2>1
  <2>3. CASE m = 1
    <3>1. m + 1 = 2
      BY <2>3
    <3> QED BY <1>7, <1>8, <1>9, <2>1, <2>2, <2>3, <3>1
  <2>4. CASE m # 1
    <3>1. m \in 2..m
      BY <2>2, <2>4
    <3> QED BY <1>7, <2>1, <2>2, <3>1
  <2> QED BY <2>3, <2>4
<1>12. CASE st[Len(st)].fn \in Tidy \ Given
  <2>1. Disciplined(st, sl, op, ra)
    BY <1>6, <1>8, <1>12 DEF Clean
  <2>2. x.fn \in Tidy /\ Guarded(q, {})
    BY <1>8, <2>1 DEF Disciplined, Tidied
  <2>3. g \in Tidy /\ Guarded(Code[g], {})
    <3>1. Now.arg \in Tidy
      BY <1>1, <1>6, <2>2, TidyAssumption DEF IsTidy
    <3> QED BY <1>6, <3>1, TidyAssumption DEF IsTidy
  <2>4. Like(st[1], st2[2]) /\ Guarded(st2[2].todo, {})
    <3>1. Guarded(Tail(q), {})
      BY <1>8, <2>2, GuardedTail
    <3> QED BY <1>7, <1>8, <1>9, <3>1 DEF Like
  <2>5. st2[1].fn \in Tidy /\ st2[1].owns = {} /\ Guarded(st2[1].todo, {})
    BY <1>7, <1>10, <2>3
  <2>6. ASSUME NEW v \in st[1].owns, Safe(st[1].todo, v, ra)
        PROVE  Marked(st2[2].todo, v)
    <3>1. Marked(Tail(q), v)
      BY <1>1, <1>8, <2>6, PlainSafe
    <3> QED BY <1>7, <1>9, <3>1
  <2>7. Disciplined(st2, sl, op, ra2)
    BY <1>7, <1>8, <2>1, <2>4, <2>5, <2>6, TopCalls
  <2>8. Disciplined(stack', slot', open', raising') /\ stack' # <<>>
    BY <1>1, <1>6, <1>7, <2>7
  <2> QED BY <2>8 DEF Clean
<1>13. CASE st[Len(st)].fn \notin Tidy \ Given
  <2>1. stack' # <<>> /\ stack'[Len(stack')].fn \notin Tidy \ Given
    BY <1>6, <1>7, <1>11, <1>13
  <2> QED BY <2>1 DEF Clean
<1> QED BY <1>12, <1>13

(* A function that ends leaves nothing open that it opened.                *)
LEMMA EndsClean ==
  ASSUME Typed, Clean, Len(stack) > 1,
         stack' \in Seq(Frame), stack' # <<>>, Len(stack') = Len(stack) - 1,
         \A i \in 1..(Len(stack) - 1) :
           Like(stack[i + 1], stack'[i]) /\ stack'[i].todo = stack[i + 1].todo,
         slot' = slot, open' = open,
         Todo = <<>> \/ (raising = TRUE /\ Guards(Todo) = <<>>)
  PROVE  Clean'
<1>1. PICK st, st2, sl, op, ra, ra2 :
        /\ st = stack /\ st2 = stack' /\ sl = slot /\ op = open
        /\ ra = raising /\ ra2 = raising'
  OBVIOUS
<1>2. /\ st \in Seq(Frame) /\ Len(st) > 1 /\ Len(st) \in Nat /\ st # <<>>
      /\ st2 \in Seq(Frame) /\ st2 # <<>> /\ Len(st2) = Len(st) - 1
      /\ \A i \in 1..Len(st2) :
           Like(st[i + 1], st2[i]) /\ st2[i].todo = st[i + 1].todo
  <2>1. st \in Seq(Frame) /\ Len(st) > 1
    BY <1>1, Zenon DEF Typed
  <2>2. st2 \in Seq(Frame) /\ st2 # <<>> /\ Len(st2) = Len(st) - 1
    BY <1>1, Zenon
  <2>3. \A i \in 1..Len(st2) :
          Like(st[i + 1], st2[i]) /\ st2[i].todo = st[i + 1].todo
    BY <1>1, Zenon
  <2>4. Len(st) \in Nat /\ st # <<>>
    BY <2>1
  <2> QED BY <2>1, <2>2, <2>3, <2>4, Zenon
<1>3. st2[Len(st2)].fn = st[Len(st)].fn
  <2>1. Len(st2) \in 1..Len(st2) /\ Len(st2) + 1 = Len(st)
    BY <1>2
  <2>2. Like(st[Len(st2) + 1], st2[Len(st2)])
    BY <1>2, <2>1
  <2> QED BY <2>1, <2>2 DEF Like
<1>4. \A v : ~Safe(st[1].todo, v, ra)
  <2>1. Active /\ Top = st[1]
    BY <1>1, <1>2, TopIs DEF Active
  <2>2. PICK q : q = Todo
    OBVIOUS
  <2>3. q \in Seq(Step(Top.fn)) /\ q = st[1].todo
    BY <2>1, <2>2, TopIs DEF Todo
  <2>4. q = <<>> \/ (ra = TRUE /\ Guards(q) = <<>>)
    BY <1>1, <2>2
  <2> QED BY <2>3, <2>4, NothingSafe
<1>5. CASE st[Len(st)].fn \in Tidy \ Given
  <2>1. Disciplined(st, sl, op, ra)
    BY <1>1, <1>2, <1>5 DEF Clean
  <2>2. Disciplined(st2, sl, op, ra2)
    BY <1>2, <1>4, <2>1, TopEnds
  <2>3. Disciplined(stack', slot', open', raising') /\ stack' # <<>>
    BY <1>1, <1>2, <2>2
  <2> QED BY <2>3 DEF Clean
<1>6. CASE st[Len(st)].fn \notin Tidy \ Given
  <2>1. stack' # <<>> /\ stack'[Len(stack')].fn \notin Tidy \ Given
    BY <1>1, <1>2, <1>3, <1>6
  <2> QED BY <2>1 DEF Clean
<1> QED BY <1>5, <1>6

(* A function that returns has nothing left to close.                      *)
LEMMA ReturnsClean ==
  ASSUME Typed, Clean, DoReturn
  PROVE  Clean'
<1>1. /\ Todo = <<>> /\ Len(stack) > 1 /\ Len(stack) \in Nat
      /\ stack' \in Seq(Frame) /\ stack' # <<>> /\ Len(stack') = Len(stack) - 1
      /\ stack'[1] = With(stack[2], stack[2].todo, stack[2].con,
                          stack[2].con2, stack[2].owns, Top.ok)
      /\ \A i \in 2..(Len(stack) - 1) : stack'[i] = stack[i + 1]
      /\ slot' = slot /\ open' = open
  BY ReturnIs DEF Typed
<1>2. PICK x, y : x = stack[2] /\ y = With(x, x.todo, x.con, x.con2, x.owns, Top.ok)
  OBVIOUS
<1>3. Like(x, y) /\ y.todo = x.todo
  <2>1. /\ y.fn = x.fn /\ y.owns = x.owns /\ y.con = x.con /\ y.con2 = x.con2
        /\ y.todo = x.todo
    BY <1>2, Zenon DEF With
  <2> QED BY <2>1 DEF Like
<1>4. stack'[1] = y
  BY <1>1, <1>2, Zenon
<1>5. ASSUME NEW i \in 1..(Len(stack) - 1)
      PROVE  Like(stack[i + 1], stack'[i]) /\ stack'[i].todo = stack[i + 1].todo
  <2>1. CASE i = 1
    <3>1. i + 1 = 2
      BY <2>1
    <3> QED BY <1>2, <1>3, <1>4, <2>1, <3>1
  <2>2. CASE i # 1
    <3>1. i \in 2..(Len(stack) - 1)
      BY <1>1, <2>2
    <3>2. stack'[i] = stack[i + 1]
      BY <1>1, <3>1
    <3> QED BY <3>2 DEF Like
  <2> QED BY <2>1, <2>2
<1> QED BY <1>1, <1>5, EndsClean

(* Nor has one that an exception leaves; one that catches goes on from     *)
(* its handler or finally clause.                                          *)
LEMMA UnwindsClean ==
  ASSUME Typed, Clean, DoUnwind
  PROVE  Clean'
<1>1. /\ Active /\ raising
      /\ \/ /\ ~raising'
            /\ \E q : Skips(Todo, q, Raise) /\ Stays(q, Top.ok)
         \/ /\ Guards(Todo) = <<>> /\ Len(stack) > 1
            /\ stack' = Tail(stack) /\ raising' = raising
  BY UnwindIs
<1>2. slot' = slot /\ open' = open /\ raising = TRUE
  BY <1>1 DEF DoUnwind, Typed
<1>3. ASSUME ~raising', NEW t, Skips(Todo, t, Raise), Stays(t, Top.ok)
      PROVE  Clean'
  <2>1. raising' = FALSE
    <3>1. raising' = FALSE \/ raising' = raising
      BY DEF DoUnwind
    <3> QED BY <1>2, <1>3, <3>1
  <2>2. PICK q, f, i, b : q = Todo /\ f = Top.fn /\ i = Raise /\ b = Top.ok
    OBVIOUS
  <2>3. /\ q \in Seq(Step(f)) /\ f \in Function /\ b \in BOOLEAN
        /\ Skips(q, t, i)
    BY <1>1, <1>3, <2>2, TopIs, Zenon
  <2>4. i \in Step(f) /\ Opens(i) = {}
    BY <2>2 DEF Step, Raise, Plain, Statement, Opens
  <2>5. t \in Seq(Step(f))
    BY <2>3, <2>4, SkipsTyped
  <2>6. f \in Tidy /\ Guarded(q, {}) => Guarded(t, {})
    BY <2>3, <2>4, SkipsGuarded
  <2>7. ASSUME NEW v, Safe(q, v, TRUE)
        PROVE  Safe(t, v, FALSE)
    <3>1. Marked(q, v)
      BY <2>7 DEF Safe
    <3> QED BY <2>3, <2>4, <3>1, SkipsSafe
  <2>8. Stays(t, b) /\ t \in Seq(Step(Top.fn)) /\ open' \subseteq open
    BY <1>2, <1>3, <2>2, <2>5, Zenon
  <2>9. Top.fn \in Tidy /\ Guarded(Todo, {}) => Guarded(t, {})
    BY <2>2, <2>6
  <2>10. \A v \in Top.owns :
           Value(Top, v) \in open' /\ Safe(Todo, v, raising) => Safe(t, v, raising')
    BY <1>2, <2>1, <2>2, <2>7, Zenon
  <2> QED BY <1>1, <1>2, <2>3, <2>8, <2>9, <2>10, StaysClean
<1>4. ASSUME Guards(Todo) = <<>>, Len(stack) > 1, stack' = Tail(stack)
      PROVE  Clean'
  <2>1. /\ stack' \in Seq(Frame) /\ stack' # <<>> /\ Len(stack') = Len(stack) - 1
        /\ \A i \in 1..(Len(stack) - 1) : stack'[i] = stack[i + 1]
    BY <1>4, PopIs
  <2>2. \A i \in 1..(Len(stack) - 1) :
          Like(stack[i + 1], stack'[i]) /\ stack'[i].todo = stack[i + 1].todo
    BY <2>1 DEF Like
  <2> QED BY <1>2, <1>4, <2>1, <2>2, EndsClean
<1> QED BY <1>1, <1>3, <1>4

(* Nothing is open at the start.                                           *)
LEMMA InitClean == Init => Clean
BY DEF Init, Clean

(* Every step keeps the discipline.                                        *)
LEMMA NextClean == Typed /\ Clean /\ [Next]_vars => Clean'
<1> SUFFICES ASSUME Typed, Clean, [Next]_vars
             PROVE  Clean'
  OBVIOUS
<1>1. ASSUME NEW f \in Entry, Start(f)
      PROVE  Clean'
  BY <1>1, StartsClean
<1>2. ASSUME NEW f \in Given, StartOn(f)
      PROVE  Clean'
  BY <1>2, StartsOnClean
<1>3. CASE DoConnect
  BY <1>3, ConnectsClean
<1>4. CASE DoClose
  BY <1>4, ClosesClean
<1>5. CASE Works
  BY <1>5, WorksClean
<1>6. CASE Control
  BY <1>6, ControlsClean
<1>7. CASE Leave
  BY <1>7, LeavesClean
<1>8. CASE DoCall
  BY <1>8, CallsClean
<1>9. CASE DoReturn
  BY <1>9, ReturnsClean
<1>10. CASE DoUnwind
  BY <1>10, UnwindsClean
<1>11. CASE End
  <2>1. stack' = <<>> /\ open' = {}
    BY <1>11 DEF End
  <2> QED BY <2>1 DEF Clean
<1>12. CASE UNCHANGED <<slot, open, stack, raising>>
  BY <1>12, Zenon DEF Clean
<1>13. CASE Elsewhere
  BY <1>12, <1>13 DEF Elsewhere
<1>14. CASE UNCHANGED vars
  BY <1>12, <1>14 DEF vars
<1> QED
  BY <1>1, <1>2, <1>3, <1>4, <1>5, <1>6, <1>7, <1>8, <1>9, <1>10, <1>11, <1>13,
     <1>14 DEF Next, Works

(* The discipline holds throughout.                                        *)
LEMMA AlwaysClean == Spec => [](Typed /\ Clean)
<1>1. Init => Typed /\ Clean
  BY InitTyped, InitClean
<1>2. Typed /\ Clean /\ [Next]_vars => Typed' /\ Clean'
  BY NextTyped, NextClean
<1> QED BY <1>1, <1>2, PTL DEF Spec

(* A script all of whose functions are made of sessions ends with no open  *)
(* handle, whatever failed and whatever was raised, however its functions  *)
(* share and close each other's handles.                                   *)
THEOREM TidyClosesAll ==
  Spec => [](AtEnd /\ Root \in Tidy \ Given => open = {})
<1>1. ASSUME Typed, Clean, AtEnd, Root \in Tidy \ Given
      PROVE  open = {}
  <2>1. PICK f \in Entry \cup Given : Active /\ Ending(f)
    BY <1>1 DEF AtEnd
  <2>2. PICK st, sl, op, ra, q :
          st = stack /\ sl = slot /\ op = open /\ ra = raising /\ q = Todo
    OBVIOUS
  <2>3. st # <<>> /\ Len(st) = 1 /\ st[1] = Top /\ q \in Seq(Step(Top.fn))
    BY <1>1, <2>1, <2>2, TopIs DEF Active, Ending
  <2>4. st[Len(st)].fn \in Tidy \ Given
    BY <1>1, <2>2 DEF Root, Last
  <2>5. Disciplined(st, sl, op, ra)
    BY <1>1, <2>2, <2>3, <2>4 DEF Clean
  <2>6. q = <<>> \/ (ra = TRUE /\ Guards(q) = <<>>)
    BY <1>1, <2>1, <2>2 DEF Ending, Typed
  <2>7. \A v : ~Safe(st[1].todo, v, ra)
    <3>1. st[1].todo = q
      BY <2>2, <2>3 DEF Todo
    <3> QED BY <2>3, <2>6, <3>1, NothingSafe
  <2>8. ASSUME NEW h \in op
        PROVE  FALSE
    <3>1. PICK i \in 1..Len(st) : \E v \in st[i].owns : Keeps(st, i, v, ra)
      BY <2>5 DEF Disciplined, Kept
    <3>2. i = 1
      BY <2>3
    <3> QED BY <2>7, <3>1, <3>2 DEF Keeps
  <2> QED BY <2>2, <2>8
<1> QED BY <1>1, AlwaysClean, PTL
=============================================================================
