--------------------------- MODULE DeskProofs ---------------------------
(***************************************************************************)
(* What rooms are sold at and how, and the desk's screens: the rates that  *)
(* derive from one another, the form in which the clerk takes a booking,   *)
(* and the other screens' lists and buttons.                               *)
(*                                                                         *)
(* The rates, for any number of rows, any formulas and any updates, one    *)
(* call at a time. The inductive invariant is Inv: the parents make a Tree *)
(* (no set of rates derives from itself, which says more than that no      *)
(* chain comes back to its start), a call in flight carries what is true   *)
(* of the rows, and a derived rate that does not fit its parent is among   *)
(* those the cascade in flight has still to write (Waiting).               *)
(*                                                                         *)
(* The form, for any number of properties, rooms, days and answers. The    *)
(* options exclude one another at every step (OptionsExclude), not only    *)
(* when they are looked at; the choice of two rooms is right from the      *)
(* third step on (PairIsReady), since the way there leads through          *)
(* Step2Next and only the first step changes a form.                       *)
(*                                                                         *)
(* The screens, for any rows, calls and changes and any of the screens.    *)
(* What depends on the screen is read off its tables once, screen by       *)
(* screen (AllScreensFit): each step it offers is one the API has, of a    *)
(* status it takes, and what the step changes is read again after it. The  *)
(* inductive invariant is Desk: a list that counts as current, or has been *)
(* read and is about to, is no older than the clerk's own last change, and *)
(* a call is of a button that was there when it was made.                  *)
(***************************************************************************)
EXTENDS Rates, BookingWizard, Workstation, SumLaws

-----------------------------------------------------------------------------
(* Rates and those they derive from *)

\* What a rate has that derivation looks at, and the rate it derives from.
Columns == {"parent", "mode", "value", "amount"}
ParentOf(rows, x) == IF x = Null THEN Null ELSE rows[x].parent

\* No set of rates derives from itself: there is no loop, of whatever length.
Tree(rows) ==
    /\ \E S : rows \in Seq(S)
    /\ \A i \in DOMAIN rows : /\ Columns \subseteq DOMAIN rows[i]
                              /\ rows[i].parent \in DOMAIN rows \cup {Null}
    /\ \A C \in SUBSET DOMAIN rows : C # {} => \E i \in C : rows[i].parent \notin C

LEMMA NullIsNoRate ==
    ASSUME NEW rows, Tree(rows)
    PROVE  Null \notin DOMAIN rows /\ Len(rows) \in Nat /\ DOMAIN rows = 1..Len(rows)
  BY RatesAssumption DEF Tree

LEMMA NextIn ==
    ASSUME NEW N \in Nat, NEW k \in 0..N, NEW m \in 0..k, m # k
    PROVE  m + 1 \in 1..N /\ (m + 1) - 1 = m /\ m + 1 \in 0..k
  OBVIOUS

\* The chain from a rate up, as far as one likes.
IsChain(up, rows, i, N) ==
    up = [n \in 0..N |-> IF n = 0 THEN i
                         ELSE IF up[n-1] = Null THEN Null ELSE rows[up[n-1]].parent]

LEMMA ChainExists ==
    ASSUME NEW rows, NEW i, NEW N \in Nat
    PROVE  \E up : IsChain(up, rows, i, N)
  <1> DEFINE Up(up, k) == /\ DOMAIN up = 0..k /\ up[0] = i
                          /\ \A n \in 1..k : up[n] = ParentOf(rows, up[n-1])
             P == {k \in Nat : \E up : Up(up, k)}
  <1>1. 0 \in P
    <2>1. Up([n \in 0..0 |-> i], 0)
      OBVIOUS
    <2> QED
      BY <2>1
  <1>2. ASSUME NEW k \in Nat, k \in P PROVE k + 1 \in P
    <2> PICK up : Up(up, k)
      BY <1>2
    <2> DEFINE next == ParentOf(rows, up[k])
               more == [n \in 0..k+1 |-> IF n = k + 1 THEN next ELSE up[n]]
    <2> HIDE DEF next
    <2>1. DOMAIN more = 0..k+1 /\ more[0] = i /\ more[k+1] = next
          /\ \A n \in 0..k : more[n] = up[n]
      OBVIOUS
    <2> HIDE DEF more
    <2>2. ASSUME NEW n \in 1..k+1 PROVE more[n] = ParentOf(rows, more[n-1])
      <3>1. CASE n = k + 1
        BY <2>1, <3>1 DEF next
      <3>2. CASE n # k + 1
        BY <2>1, <3>2
      <3> QED
        BY <3>1, <3>2
    <2>3. Up(more, k + 1)
      BY <2>1, <2>2
    <2> QED
      BY <2>3
  <1>3. N \in P
    <2> HIDE DEF P
    <2> QED
      BY <1>1, <1>2, Counting
  <1> PICK up0 : Up(up0, N)
    BY <1>3
  <1> DEFINE up == [n \in 0..N |-> up0[n]]
  <1>4. up = [n \in 0..N |-> IF n = 0 THEN i
                             ELSE IF up[n-1] = Null THEN Null ELSE rows[up[n-1]].parent]
    <2>1. \A n \in 0..N : n # 0 => n \in 1..N /\ n - 1 \in 0..N
      OBVIOUS
    <2>2. \A n \in 0..N : up0[n] = IF n = 0 THEN i
                             ELSE IF up0[n-1] = Null THEN Null ELSE rows[up0[n-1]].parent
      BY <2>1 DEF ParentOf
    <2> QED
      BY <2>1, <2>2
  <1> QED
    BY <1>4 DEF IsChain

LEMMA AncestorsAre ==
    ASSUME Tree(rate), NEW i
    PROVE  \E up : /\ up[0] = i
                   /\ \A n \in 1..Len(rate) : up[n] = ParentOf(rate, up[n-1])
                   /\ Ancestors(i) = {up[n] : n \in 0..Len(rate)} \ {Null}
  <1> DEFINE up == CHOOSE g : IsChain(g, rate, i, Len(rate))
  <1>0. Len(rate) \in Nat
    BY NullIsNoRate
  <1>1. IsChain(up, rate, i, Len(rate))
    BY <1>0, ChainExists
  <1>2. Ancestors(i) = {up[n] : n \in 0..Len(rate)} \ {Null}
    BY DEF Ancestors, IsChain
  <1> HIDE DEF up
  <1>3. \A n \in 0..Len(rate) : up[n] = IF n = 0 THEN i
                         ELSE IF up[n-1] = Null THEN Null ELSE rate[up[n-1]].parent
    BY <1>1 DEF IsChain
  <1>4. up[0] = i
    BY <1>0, <1>3
  <1>5. \A n \in 1..Len(rate) : up[n] = ParentOf(rate, up[n-1])
    BY <1>0, <1>3 DEF ParentOf
  <1> QED
    BY <1>2, <1>4, <1>5

\* In a tree no rate is its parent's ancestor.
LEMMA TreeHasNoCycle ==
    ASSUME Tree(rate), NEW i \in RateId, rate[i].parent # Null
    PROVE  i \notin Ancestors(rate[i].parent)
  <1> SUFFICES ASSUME i \in Ancestors(rate[i].parent) PROVE FALSE
    OBVIOUS
  <1>0. Len(rate) \in Nat /\ RateId = 1..Len(rate) /\ Null \notin RateId
    BY NullIsNoRate DEF RateId
  <1> PICK up : /\ up[0] = rate[i].parent
                /\ \A n \in 1..Len(rate) : up[n] = ParentOf(rate, up[n-1])
                /\ Ancestors(rate[i].parent) = {up[n] : n \in 0..Len(rate)} \ {Null}
    BY AncestorsAre
  <1> PICK k \in 0..Len(rate) : up[k] = i
    OBVIOUS
  <1> DEFINE P == {m \in Nat : m <= k => up[m] \in RateId}
             \* Beyond a rate that derives from none there is nothing.
             Q == {m \in Nat : m <= k => up[k-m] # Null}
  <1>1. \A m \in Nat : m \in Q
    <2>1. 0 \in Q
      BY <1>0
    <2>2. ASSUME NEW m \in Nat, m \in Q PROVE m + 1 \in Q
      <3> SUFFICES ASSUME m + 1 <= k PROVE up[k-(m+1)] # Null
        OBVIOUS
      <3>1. k - m \in 1..Len(rate) /\ k - (m + 1) = (k - m) - 1
        BY <1>0
      <3>2. up[k-m] = ParentOf(rate, up[k-(m+1)])
        BY <3>1
      <3> QED
        BY <2>2, <3>2 DEF ParentOf
    <2> HIDE DEF Q
    <2> QED
      BY <2>1, <2>2, Counting
  <1>2. \A m \in 0..k : up[m] # Null
    <2>1. \A m \in 0..k : k - m \in Nat /\ k - m <= k /\ k - (k - m) = m
      BY <1>0
    <2> QED
      BY <1>1, <2>1
  <1>3. \A m \in Nat : m \in P
    <2>1. 0 \in P
      BY DEF Tree, RateId
    <2>2. ASSUME NEW m \in Nat, m \in P PROVE m + 1 \in P
      <3> SUFFICES ASSUME m + 1 <= k PROVE up[m+1] \in RateId
        OBVIOUS
      <3>1. m + 1 \in 1..Len(rate) /\ (m + 1) - 1 = m /\ m \in 0..k /\ m + 1 \in 0..k
        BY <1>0
      <3>2. up[m+1] = ParentOf(rate, up[m])
        BY <3>1
      <3>3. up[m] \in RateId /\ up[m] # Null /\ up[m+1] # Null
        BY <1>2, <2>2, <3>1
      <3> QED
        BY <3>2, <3>3 DEF ParentOf, Tree, RateId
    <2> HIDE DEF P
    <2> QED
      BY <2>1, <2>2, Counting
  <1>r. \A m \in 0..k : up[m] \in RateId
    <2>1. \A m \in 0..k : m \in Nat /\ m <= k
      BY <1>0
    <2> QED
      BY <1>3, <2>1
  <1> HIDE DEF P, Q
  <1> DEFINE C == {up[m] : m \in 0..k}
  <1>4. C \in SUBSET DOMAIN rate /\ C # {}
    <2>1. 0 \in 0..k
      BY <1>0
    <2> QED
      BY <1>r, <2>1 DEF RateId
  <1>5. ASSUME NEW m \in 0..k PROVE rate[up[m]].parent \in C
    <2>1. CASE m = k
      <3>1. rate[up[m]].parent = up[0] /\ 0 \in 0..k
        BY <1>0, <2>1
      <3> QED
        BY <3>1
    <2>2. CASE m # k
      <3>1. m + 1 \in 1..Len(rate) /\ (m + 1) - 1 = m /\ m + 1 \in 0..k
        BY <1>0, <2>2, NextIn
      <3>2. up[m+1] = ParentOf(rate, up[m])
        BY <3>1
      <3>3. rate[up[m]].parent = up[m+1]
        BY <1>2, <3>2 DEF ParentOf
      <3> QED
        BY <3>1, <3>3
    <2> QED
      BY <2>1, <2>2
  <1>6. \A j \in C : rate[j].parent \in C
    BY <1>5
  <1> HIDE DEF C
  <1> QED
    BY <1>4, <1>6 DEF Tree

\* The check of an update keeps the tree: where no ancestor of the new parent
\* is the rate itself, no set of rates comes to derive from itself.
LEMMA NewParentKeepsTree ==
    ASSUME Tree(rate), NEW i \in RateId, NEW q \in RateId, NoCycle(i, q),
           NEW C \in SUBSET RateId, C # {}
    PROVE  \E j \in C : (IF j = i THEN q ELSE rate[j].parent) \notin C
  <1> SUFFICES ASSUME \A j \in C : (IF j = i THEN q ELSE rate[j].parent) \in C PROVE FALSE
    OBVIOUS
  <1>0. Len(rate) \in Nat /\ RateId = 1..Len(rate) /\ Null \notin RateId
    BY NullIsNoRate DEF RateId
  <1>1. i \in C /\ q \in C
    BY DEF Tree, RateId
  <1> PICK up : /\ up[0] = q
                /\ \A n \in 1..Len(rate) : up[n] = ParentOf(rate, up[n-1])
                /\ Ancestors(q) = {up[n] : n \in 0..Len(rate)} \ {Null}
    BY AncestorsAre
  <1> DEFINE P == {n \in Nat : n <= Len(rate) => up[n] \in C}
  <1>2. \A n \in Nat : n \in P
    <2>1. 0 \in P
      BY <1>1
    <2>2. ASSUME NEW n \in Nat, n \in P PROVE n + 1 \in P
      <3> SUFFICES ASSUME n + 1 <= Len(rate) PROVE up[n+1] \in C
        OBVIOUS
      <3>1. n + 1 \in 1..Len(rate) /\ (n + 1) - 1 = n /\ n \in 0..Len(rate)
        BY <1>0
      <3>2. up[n+1] = ParentOf(rate, up[n])
        BY <3>1
      <3>3. up[n] \in C
        BY <1>0, <2>2
      <3>n. up[n] # Null
        BY <1>0, <3>3
      <3>4. up[n] # i
        BY <3>1, <3>3, <3>n DEF NoCycle
      <3> QED
        BY <3>2, <3>3, <3>n, <3>4 DEF ParentOf
    <2> HIDE DEF P
    <2> QED
      BY <2>1, <2>2, Counting
  <1>3. \A n \in 0..Len(rate) : up[n] \in C /\ up[n] \in RateId /\ up[n] # Null /\ up[n] # i
    <2>1. \A n \in 0..Len(rate) : n \in Nat /\ n <= Len(rate)
      BY <1>0
    <2>2. \A n \in 0..Len(rate) : up[n] \in C
      BY <1>2, <2>1
    <2> QED
      BY <1>0, <2>2 DEF NoCycle
  \* There are more steps than rates: one is come to twice.
  <1>4. PICK x \in 0..Len(rate), y \in 0..Len(rate) : x < y /\ up[x] = up[y]
    <2> DEFINE f == [n \in 0..Len(rate) |-> up[n]]
    <2>1. f \in [0..Len(rate) -> 1..Len(rate)]
      BY <1>0, <1>3
    <2>2. PICK S, T : S = 0..Len(rate) /\ T = 1..Len(rate)
      OBVIOUS
    <2>3. IsFiniteSet(S) /\ IsFiniteSet(T) /\ Cardinality(T) < Cardinality(S)
      <3>1. /\ IsFiniteSet(0..Len(rate))
            /\ Cardinality(0..Len(rate)) = IF 0 > Len(rate) THEN 0 ELSE Len(rate) - 0 + 1
        BY <1>0, FS_Interval
      <3>2. /\ IsFiniteSet(1..Len(rate))
            /\ Cardinality(1..Len(rate)) = IF 1 > Len(rate) THEN 0 ELSE Len(rate) - 1 + 1
        BY <1>0, FS_Interval
      <3>3. Cardinality(1..Len(rate)) < Cardinality(0..Len(rate))
        BY <1>0, <3>1, <3>2
      <3> QED
        BY <2>2, <3>1, <3>2, <3>3
    <2> HIDE DEF f
    <2>f. f \in [S -> T]
      BY <2>1, <2>2
    <2>p. PICK a, b \in S : a # b /\ f[a] = f[b]
      BY <2>f, <2>3, FS_PigeonHole
    <2>4. a \in 0..Len(rate) /\ b \in 0..Len(rate) /\ up[a] = up[b]
      BY <2>p, <2>2 DEF f
    <2>5. a < b \/ b < a
      BY <1>0, <2>p, <2>4
    <2> QED
      BY <2>4, <2>5
  <1> DEFINE D == {up[n] : n \in x..(y-1)}
  <1>5. D \in SUBSET DOMAIN rate /\ D # {}
    <2>1. \A n \in x..(y-1) : n \in 0..Len(rate)
      BY <1>0
    <2>2. x \in x..(y-1)
      BY <1>0, <1>4
    <2> QED
      BY <1>3, <2>1, <2>2 DEF RateId
  <1>6. ASSUME NEW n \in x..(y-1) PROVE rate[up[n]].parent \in D
    <2>1. n + 1 \in 1..Len(rate) /\ (n + 1) - 1 = n /\ n \in 0..Len(rate)
      BY <1>0, <1>4
    <2>2. rate[up[n]].parent = up[n+1]
      BY <1>3, <2>1 DEF ParentOf
    <2>3. n + 1 \in x..(y-1) \/ n + 1 = y
      BY <1>0, <1>4
    <2>4. x \in x..(y-1)
      BY <1>0, <1>4
    <2> QED
      BY <1>4, <2>2, <2>3, <2>4
  <1>7. \A j \in D : rate[j].parent \in D
    BY <1>6
  <1> HIDE DEF D
  <1> QED
    BY <1>5, <1>7 DEF Tree

\* A rate whose parent is changed, to none or as the check allows, and whatever
\* else is changed of it.
LEMMA RowKeepsTree ==
    ASSUME Tree(rate), NEW i \in RateId, NEW entry, Columns \subseteq DOMAIN entry,
           \/ entry.parent = Null
           \/ entry.parent = rate[i].parent
           \/ entry.parent \in RateId /\ NoCycle(i, entry.parent)
    PROVE  Tree([rate EXCEPT ![i] = entry])
  <1> PICK rows : rows = [rate EXCEPT ![i] = entry]
    OBVIOUS
  <1>1. DOMAIN rows = RateId /\ \A j \in RateId : rows[j] = IF j = i THEN entry ELSE rate[j]
    BY DEF RateId
  <1>2. \E S : rows \in Seq(S)
    <2> PICK S : rate \in Seq(S)
      BY DEF Tree
    <2>1. [rate EXCEPT ![i] = entry] \in Seq(S \cup {entry})
      BY DEF RateId
    <2> QED
      BY <2>1
  <1>3. ASSUME NEW j \in RateId
        PROVE  Columns \subseteq DOMAIN rows[j] /\ rows[j].parent \in RateId \cup {Null}
    BY <1>1 DEF Tree, RateId
  <1>4. ASSUME NEW C \in SUBSET RateId, C # {} PROVE \E j \in C : rows[j].parent \notin C
    <2>1. CASE entry.parent = Null \/ entry.parent = rate[i].parent
      <3>0. \A D \in SUBSET RateId : D # {} => \E j \in D : rate[j].parent \notin D
        BY DEF Tree, RateId
      <3>1. PICK j \in C : rate[j].parent \notin C
        BY <1>4, <3>0
      <3>2. Null \notin C
        BY NullIsNoRate DEF RateId
      <3> QED
        BY <1>1, <2>1, <3>1, <3>2
    <2>2. CASE entry.parent \in RateId /\ NoCycle(i, entry.parent)
      <3> PICK q \in RateId : q = entry.parent
        BY <2>2
      <3>1. NoCycle(i, q)
        BY <2>2
      <3>2. \E j \in C : (IF j = i THEN q ELSE rate[j].parent) \notin C
        BY <1>4, <3>1, NewParentKeepsTree
      <3> QED
        BY <1>1, <3>2
    <2> QED
      BY <2>1, <2>2
  <1>5. Tree(rows)
    BY <1>1, <1>2, <1>3, <1>4 DEF Tree
  <1> QED
    BY <1>5

\* A rate more, derived from one there is or from none.
LEMMA AppendKeepsTree ==
    ASSUME Tree(rate), NEW entry, Columns \subseteq DOMAIN entry,
           entry.parent \in RateId \cup {Null}
    PROVE  Tree(Append(rate, entry))
  <1> PICK S : rate \in Seq(S)
    BY DEF Tree
  <1> PICK rows, N : rows = Append(rate, entry) /\ N = Len(rate)
    OBVIOUS
  <1>0. N \in Nat /\ RateId = 1..N /\ Null \notin 1..(N+1)
    BY RatesAssumption DEF RateId
  <1>1. /\ DOMAIN rows = 1..(N+1) /\ rows[N+1] = entry
        /\ \A j \in RateId : rows[j] = rate[j]
    BY <1>0 DEF RateId
  <1>2. rows \in Seq(S \cup {entry})
    OBVIOUS
  <1>3. ASSUME NEW j \in DOMAIN rows
        PROVE  Columns \subseteq DOMAIN rows[j] /\ rows[j].parent \in DOMAIN rows \cup {Null}
    <2>1. RateId \subseteq DOMAIN rows
      BY <1>0, <1>1
    <2>2. CASE j = N+1
      BY <1>1, <2>1, <2>2
    <2>3. CASE j # N+1
      <3>1. j \in RateId
        BY <1>0, <1>1, <2>3
      <3> QED
        BY <1>1, <2>1, <3>1 DEF Tree, RateId
    <2> QED
      BY <2>2, <2>3
  <1>4. ASSUME NEW C \in SUBSET DOMAIN rows, C # {} PROVE \E j \in C : rows[j].parent \notin C
    <2>n. N + 1 \notin RateId /\ N + 1 # Null /\ \A j \in C : j # N + 1 => j \in RateId
      BY <1>0, <1>1
    <2>1. CASE C \ {N+1} = {}
      <3>0. C = {N+1} /\ N + 1 \in C
        BY <1>4, <2>1
      <3>1. entry.parent \notin C
        BY <2>n, <3>0
      <3> QED
        BY <1>1, <3>0, <3>1
    <2>2. CASE C \ {N+1} # {}
      <3>1. C \ {N+1} \in SUBSET DOMAIN rate
        BY <2>n DEF RateId
      <3>2. PICK j \in C \ {N+1} : rate[j].parent \notin C \ {N+1}
        BY <2>2, <3>1 DEF Tree
      <3>3. rate[j].parent # N + 1 /\ rows[j] = rate[j]
        BY <1>1, <2>n, <3>2 DEF Tree, RateId
      <3> QED
        BY <3>2, <3>3
    <2> QED
      BY <2>1, <2>2
  <1>5. Tree(rows)
    BY <1>2, <1>3, <1>4 DEF Tree
  <1> QED
    BY <1>5

-----------------------------------------------------------------------------
(* Where a cascade is: the frames go up from rate to parent *)

\* ps[n] is the rate whose children frame n is at: the frame has its amount, and
\* the children in it are written as they are in the table.
AsRead(left, i, rows) ==
    \A x \in left : /\ x.id \in DOMAIN rows
                    /\ rows[x.id].parent = i
                    /\ x.mode = rows[x.id].mode
                    /\ x.value = rows[x.id].value

Path(ps, frames, rows) ==
    /\ \E S : frames \in Seq(S)
    /\ \A n \in 1..Len(frames) :
        /\ ps[n] \in DOMAIN rows
        /\ frames[n] = [amount |-> rows[ps[n]].amount, left |-> frames[n].left]
        /\ n # 1 => rows[ps[n]].parent = ps[n-1]
        /\ AsRead(frames[n].left, ps[n], rows)

FrameOf(i, left, rows) == [amount |-> rows[i].amount, left |-> left]
Without(frames, x) == [frames EXCEPT ![Len(frames)].left = @ \ {x}]
Repriced(rows, i, amount) == [rows EXCEPT ![i].amount = amount]

\* The rates a cascade has been to do not come again.
LEMMA ChildIsBelow ==
    ASSUME NEW rows, Tree(rows), NEW ps, NEW frames, Path(ps, frames, rows), frames # <<>>,
           NEW x \in frames[Len(frames)].left, NEW k \in 1..Len(frames)
    PROVE  ps[k] # x.id
  <1> SUFFICES ASSUME ps[k] = x.id PROVE FALSE
    OBVIOUS
  <1> PICK N : N = Len(frames)
    OBVIOUS
  <1>0. N \in Nat /\ k \in 1..N /\ \A n \in k..N : n \in 1..N
    BY DEF Path
  <1> DEFINE C == {ps[n] : n \in k..N}
  <1>1. C \in SUBSET DOMAIN rows /\ C # {}
    <2>1. k \in k..N
      BY <1>0
    <2>2. \A n \in k..N : ps[n] \in DOMAIN rows
      BY <1>0 DEF Path
    <2> QED
      BY <2>1, <2>2
  <1>2. ASSUME NEW n \in k..N PROVE rows[ps[n]].parent \in C
    <2>1. CASE n = k
      <3>1. N \in k..N /\ N \in 1..N
        BY <1>0
      <3>2. rows[x.id].parent = ps[N]
        BY <3>1 DEF Path, AsRead
      <3> QED
        BY <2>1, <3>1, <3>2
    <2>2. CASE n # k
      <3>1. n \in 1..N /\ n # 1 /\ n - 1 \in k..N
        BY <1>0, <2>2
      <3>2. rows[ps[n]].parent = ps[n-1]
        BY <3>1 DEF Path
      <3> QED
        BY <3>1, <3>2
    <2> QED
      BY <2>1, <2>2
  <1>3. \A j \in C : rows[j].parent \in C
    BY <1>2
  <1> HIDE DEF C
  <1> QED
    BY <1>1, <1>3 DEF Tree

\* One frame more, for the rate just written.
LEMMA PathGrows ==
    ASSUME NEW rows, NEW ps, NEW frames, Path(ps, frames, rows),
           NEW of \in DOMAIN rows, frames # <<>> => rows[of].parent = ps[Len(frames)],
           NEW left, AsRead(left, of, rows)
    PROVE  \E qs : Path(qs, Append(frames, FrameOf(of, left, rows)), rows)
  <1> PICK N, more, frame : /\ frame = [amount |-> rows[of].amount, left |-> left]
                            /\ frame = FrameOf(of, left, rows)
                            /\ N = Len(frames) /\ more = Append(frames, frame)
    BY DEF FrameOf
  <1> PICK S : frames \in Seq(S)
    BY DEF Path
  <1>0. N \in Nat
    OBVIOUS
  <1> DEFINE qs == [n \in 1..(N+1) |-> IF n = N + 1 THEN of ELSE ps[n]]
  <1>1. Len(more) = N + 1 /\ more \in Seq(S \cup {frame}) /\ more[N+1] = frame
        /\ \A n \in 1..N : more[n] = frames[n]
    OBVIOUS
  <1>2. qs[N+1] = of /\ \A n \in 1..N : qs[n] = ps[n]
    BY <1>0
  <1> HIDE DEF qs
  <1>3. ASSUME NEW n \in 1..(N+1)
        PROVE  /\ qs[n] \in DOMAIN rows
               /\ more[n] = [amount |-> rows[qs[n]].amount, left |-> more[n].left]
               /\ n # 1 => rows[qs[n]].parent = qs[n-1]
               /\ AsRead(more[n].left, qs[n], rows)
    <2>1. CASE n = N + 1
      <3>1. qs[n] = of /\ more[n] = frame
        BY <1>1, <1>2, <2>1
      <3>2. n # 1 => frames # <<>> /\ qs[n-1] = ps[N]
        BY <1>0, <1>2, <2>1
      <3> QED
        BY <3>1, <3>2
    <2>2. CASE n # N + 1
      <3>1. n \in 1..N /\ (n # 1 => n - 1 \in 1..N)
        BY <1>0, <2>2
      <3>2. qs[n] = ps[n] /\ more[n] = frames[n] /\ (n # 1 => qs[n-1] = ps[n-1])
        BY <1>1, <1>2, <3>1
      <3> QED
        BY <3>1, <3>2 DEF Path
    <2> QED
      BY <2>1, <2>2
  <1>4. Path(qs, more, rows)
    BY <1>1, <1>3 DEF Path
  <1> QED
    BY <1>4

\* One frame less, when it has no child left.
LEMMA PathShrinks ==
    ASSUME NEW rows, NEW ps, NEW frames, Path(ps, frames, rows), frames # <<>>
    PROVE  Path(ps, SubSeq(frames, 1, Len(frames) - 1), rows)
  <1> PICK N, less : N = Len(frames) /\ less = SubSeq(frames, 1, N - 1)
    OBVIOUS
  <1> PICK S : frames \in Seq(S)
    BY DEF Path
  <1>1. N \in Nat /\ N # 0 /\ N - 1 \in Nat /\ \A n \in 1..(N-1) : n \in 1..N
    OBVIOUS
  <1>2. Len(less) = N - 1 /\ less \in Seq(S) /\ \A n \in 1..(N-1) : less[n] = frames[n]
    BY <1>1
  <1>3. \A n \in 1..(N-1) :
        /\ ps[n] \in DOMAIN rows
        /\ less[n] = [amount |-> rows[ps[n]].amount, left |-> less[n].left]
        /\ n # 1 => rows[ps[n]].parent = ps[n-1]
        /\ AsRead(less[n].left, ps[n], rows)
    BY <1>1, <1>2 DEF Path
  <1> QED
    BY <1>2, <1>3 DEF Path

\* A child is written and taken out of the last frame: the path stays, for none
\* of its rates is the child.
LEMMA PathStays ==
    ASSUME NEW rows, Tree(rows), NEW ps, NEW frames, Path(ps, frames, rows), frames # <<>>,
           NEW x \in frames[Len(frames)].left, NEW amount
    PROVE  /\ Path(ps, Without(frames, x), Repriced(rows, x.id, amount))
           /\ Len(Without(frames, x)) = Len(frames)
           /\ \A n \in 1..Len(frames) : \A y \in frames[n].left :
                y # x => y \in Without(frames, x)[n].left
  <1> PICK N, c, last, less, table :
        /\ N = Len(frames) /\ c = x.id
        /\ last = [frames[N] EXCEPT !.left = @ \ {x}]
        /\ less = [frames EXCEPT ![N] = last]
        /\ less = Without(frames, x)
        /\ table = [rows EXCEPT ![c].amount = amount]
        /\ table = Repriced(rows, x.id, amount)
    BY DEF Without, Repriced
  <1> PICK S : frames \in Seq(S)
    BY DEF Path
  <1>0. N \in Nat /\ N \in 1..N
    OBVIOUS
  <1>1. c \in DOMAIN rows /\ Columns \subseteq DOMAIN rows[c]
    BY <1>0 DEF Path, AsRead, Tree
  <1>2. DOMAIN table = DOMAIN rows /\ \A j \in DOMAIN rows : j # c => table[j] = rows[j]
    BY <1>1
  <1>3. /\ table[c].parent = rows[c].parent
        /\ table[c].mode = rows[c].mode
        /\ table[c].value = rows[c].value
    <2>1. table[c] = [rows[c] EXCEPT !.amount = amount]
      BY <1>1
    <2> QED
      BY <1>1, <2>1 DEF Columns
  <1>4. /\ less \in Seq(S \cup {last})
        /\ Len(less) = N
        /\ less[N] = last
        /\ \A n \in 1..N : n # N => less[n] = frames[n]
    <2>1. less = [frames EXCEPT ![N] = last]
      OBVIOUS
    <2>2. DOMAIN frames = 1..N
      OBVIOUS
    <2>3. less \in Seq(S \cup {last}) /\ Len(less) = N
      BY <1>0, <2>1
    <2>4. less[N] = last /\ \A n \in 1..N : n # N => less[n] = frames[n]
      BY <1>0, <2>1, <2>2
    <2> QED
      BY <2>3, <2>4
  <1>5. less[N] = [amount |-> frames[N].amount, left |-> frames[N].left \ {x}]
    <2>1. frames[N] = [amount |-> rows[ps[N]].amount, left |-> frames[N].left]
      BY <1>0 DEF Path
    <2>2. last = [frames[N] EXCEPT !.left = frames[N].left \ {x}]
      OBVIOUS
    <2>3. last = [amount |-> frames[N].amount, left |-> frames[N].left \ {x}]
      BY <2>1, <2>2
    <2> QED
      BY <1>4, <2>3
  <1>x. less[N].left = frames[N].left \ {x} /\ less[N].amount = frames[N].amount
    BY <1>5
  <1>6. \A n \in 1..N : less[n].left = IF n = N THEN frames[n].left \ {x} ELSE frames[n].left
    <2>1. ASSUME NEW n \in 1..N, n # N PROVE less[n].left = frames[n].left
      BY <1>4, <2>1
    <2> QED
      BY <1>x, <2>1
  <1>8. ASSUME NEW n \in 1..N
        PROVE  /\ ps[n] \in DOMAIN table
               /\ less[n] = [amount |-> table[ps[n]].amount, left |-> less[n].left]
               /\ n # 1 => table[ps[n]].parent = ps[n-1]
               /\ AsRead(less[n].left, ps[n], table)
    <2>0. ps[n] # c
      <3>1. n \in 1..Len(frames)
        OBVIOUS
      <3> QED
        BY <3>1, ChildIsBelow
    <2>1. ps[n] # c /\ ps[n] \in DOMAIN rows /\ (n # 1 => rows[ps[n]].parent = ps[n-1])
      BY <2>0 DEF Path
    <2>2. table[ps[n]] = rows[ps[n]]
      BY <1>2, <2>1
    <2>3. less[n] = [amount |-> rows[ps[n]].amount, left |-> less[n].left]
      <3>1. frames[n] = [amount |-> rows[ps[n]].amount, left |-> frames[n].left]
        BY DEF Path
      <3>2. CASE n = N
        <4>1. frames[N].amount = rows[ps[N]].amount
          BY <3>1, <3>2
        <4> QED
          BY <1>5, <1>x, <3>2, <4>1
      <3>3. CASE n # N
        BY <1>4, <3>1, <3>3
      <3> QED
        BY <3>2, <3>3
    <2>4. ASSUME NEW y \in less[n].left
          PROVE  /\ y.id \in DOMAIN table
                 /\ table[y.id].parent = ps[n]
                 /\ y.mode = table[y.id].mode
                 /\ y.value = table[y.id].value
      <3>1. y \in frames[n].left
        BY <1>6
      <3>2. /\ y.id \in DOMAIN rows
            /\ rows[y.id].parent = ps[n]
            /\ y.mode = rows[y.id].mode
            /\ y.value = rows[y.id].value
        BY <3>1 DEF Path, AsRead
      <3> QED
        BY <1>2, <1>3, <3>2
    <2>5. AsRead(less[n].left, ps[n], table)
      BY <2>4 DEF AsRead
    <2> QED
      BY <1>2, <2>1, <2>2, <2>3, <2>5
  <1>9. Path(ps, less, table)
    BY <1>4, <1>8 DEF Path
  <1>10. \A n \in 1..N : \A y \in frames[n].left : y # x => y \in less[n].left
    BY <1>6
  <1> QED
    BY <1>4, <1>9, <1>10

-----------------------------------------------------------------------------
(* What the calls keep *)

\* The row an update is going to write.
NewRow(h, rows) == Over(h.data, rows[h.id])

\* An update read what its row derives from, and no row was written since.
Planned(h, rows) ==
    /\ h.id \in DOMAIN rows
    /\ Tree([rows EXCEPT ![h.id] = NewRow(h, rows)])
    /\ NewRow(h, rows).amount = h.data.amount
    /\ LET new == NewRow(h, rows)
       IN  new.parent # Null =>
               new.amount = Derived(rows[new.parent].amount, new.mode, new.value)

\* A cascade is at a rate and its ancestors up to the one that was updated; the
\* rate it is to read the children of is a child of the last.
Walking(h, rows) ==
    \E ps : /\ Path(ps, h.frames, rows)
            /\ h.op = "children" =>
                /\ h.of \in DOMAIN rows
                /\ h.amount = rows[h.of].amount
                /\ h.frames # <<>> => rows[h.of].parent = ps[Len(h.frames)]
            /\ h.op = "cascade" => h.frames # <<>>

Carries(h, rows) ==
    /\ h.op = "update" => Planned(h, rows)
    /\ h.op \in {"children", "cascade"} => Walking(h, rows)
    /\ h.op = "generate" => h.rate \in DOMAIN rows

\* The rates a cascade has still to write.
Waiting(h, rows) ==
    {i \in DOMAIN rows :
        \/ h.op = "children" /\ rows[i].parent = h.of
        \/ /\ h.op \in {"children", "cascade"}
           /\ \E n \in DOMAIN h.frames : \E x \in h.frames[n].left : x.id = i}

\* A rate is what its parent's amount makes it.
Fits(rows, i) ==
    rows[i].amount = Derived(rows[rows[i].parent].amount, rows[i].mode, rows[i].value)

\* A recommendation is of a rate there is.
Known(recs, rows) ==
    /\ \E S : recs \in Seq(S)
    /\ \A n \in DOMAIN recs : "rate" \in DOMAIN recs[n] /\ recs[n].rate \in DOMAIN rows

\* The invariant of the rates.
Inv ==
    /\ Tree(rate)
    /\ Known(recommendation, rate)
    /\ req = [p \in Requests |-> req[p]]
    /\ \A r \in Requests : Carries(req[r], rate)
    /\ \A i \in DOMAIN rate \ stale :
        rate[i].parent # Null => Fits(rate, i) \/ \E r \in Requests : i \in Waiting(req[r], rate)

LEMMA InvInit == ASSUME Init PROVE Inv
  <1>1. rate = <<>> /\ recommendation = <<>> /\ req = [r \in Requests |-> Idle]
    BY DEF Init
  <1>2. DOMAIN rate = {} /\ DOMAIN recommendation = {}
    BY <1>1
  <1>3. Tree(rate) /\ Known(recommendation, rate)
    <2>1. rate \in Seq({}) /\ recommendation \in Seq({})
      BY <1>1
    <2> QED
      BY <1>2, <2>1 DEF Tree, Known
  <1>4. \A r \in Requests : Carries(req[r], rate)
    BY <1>1 DEF Carries, Idle
  <1> QED
    BY <1>1, <1>2, <1>3, <1>4 DEF Inv

\* A step of the one call: what it is to show.
LEMMA Turn ==
    ASSUME OneAtATime, Inv, NEW r \in Requests, NEW h, req' = [req EXCEPT ![r] = h],
           Tree(rate'), Known(recommendation', rate'), Carries(h, rate'),
           \A i \in DOMAIN rate' \ stale' :
               rate'[i].parent # Null => Fits(rate', i) \/ i \in Waiting(h, rate')
    PROVE  Inv'
  <1>1. DOMAIN req' = Requests /\ req'[r] = h /\ \A p \in Requests : p = r
    BY DEF Inv, OneAtATime
  <1>2. \A p \in Requests : Carries(req'[p], rate')
    BY <1>1
  <1>3. \A i \in DOMAIN rate' \ stale' : rate'[i].parent # Null =>
            Fits(rate', i) \/ \E p \in Requests : i \in Waiting(req'[p], rate')
    BY <1>1
  <1> QED
    BY <1>1, <1>2, <1>3 DEF Inv

\* The rates that do not fit wait in the one call.
LEMMA OnlyCall ==
    ASSUME OneAtATime, Inv, NEW r \in Requests
    PROVE  /\ Tree(rate)
           /\ Known(recommendation, rate)
           /\ Carries(req[r], rate)
           /\ \A i \in DOMAIN rate \ stale :
                rate[i].parent # Null => Fits(rate, i) \/ i \in Waiting(req[r], rate)
  BY DEF Inv, OneAtATime

\* A call that does not write a rate, and leaves none that it has still to write
\* but to whoever updates it next.
LEMMA RatesUnmoved ==
    ASSUME OneAtATime, Inv, NEW r \in Requests, NEW h, req' = [req EXCEPT ![r] = h],
           UNCHANGED rate, stale \subseteq stale', Known(recommendation', rate),
           Carries(h, rate), Waiting(req[r], rate) \subseteq Waiting(h, rate) \cup stale'
    PROVE  Inv'
  <1>1. Tree(rate') /\ Known(recommendation', rate') /\ Carries(h, rate')
    BY OnlyCall
  <1>2. \A i \in DOMAIN rate' \ stale' :
               rate'[i].parent # Null => Fits(rate', i) \/ i \in Waiting(h, rate')
    BY OnlyCall
  <1> QED
    BY <1>1, <1>2, Turn

\* A call with no cascade has nothing to write.
LEMMA NoneWaits ==
    ASSUME NEW h, h.op \notin {"children", "cascade"}, NEW rows
    PROVE  Waiting(h, rows) = {}
  BY DEF Waiting

\* Nothing is left of a cascade that stops but among what is noted.
LEMMA WaitingIsLeft ==
    ASSUME NEW r \in Requests
    PROVE  Waiting(req[r], rate) \subseteq Left(req[r])
  <1> PICK h : h = req[r]
    OBVIOUS
  <1> SUFFICES ASSUME NEW i \in Waiting(h, rate) PROVE i \in Left(h)
    OBVIOUS
  <1> DEFINE ids == IF h.op = "children" THEN Children(h.of) ELSE {}
             waiting == {child.id : child \in UNION {h.frames[n].left : n \in DOMAIN h.frames}}
  <1>1. i \in ids \cup waiting
    BY DEF Waiting, Children, RateId
  <1>2. Left(h) = UNION {{c} \cup Descendants(c) : c \in ids \cup waiting}
    BY DEF Left
  <1> HIDE DEF ids, waiting
  <1> QED
    BY <1>1, <1>2

-----------------------------------------------------------------------------
(* The actions *)

LEMMA CreateRateKeeps ==
    ASSUME OneAtATime, Inv, NEW r \in Requests, NEW dto \in NewRates, CreateRate(r, dto)
    PROVE  Inv'
  <1> PICK entry : /\ entry = [dto EXCEPT !.amount =
                            IF dto.parent = Null THEN dto.amount
                            ELSE Derived(rate[dto.parent].amount, dto.mode, dto.value)]
                 /\ rate' = Append(rate, entry)
    BY DEF CreateRate
  <1> PICK N : N = Len(rate)
    OBVIOUS
  <1>0. N \in Nat /\ RateId = 1..N /\ Null \notin RateId /\ Tree(rate)
    BY NullIsNoRate, OnlyCall DEF RateId
  <1>1. DOMAIN dto = {"parent", "mode", "value", "amount", "active"}
    BY RatesAssumption
  <1>2. /\ Columns \subseteq DOMAIN entry
        /\ entry.parent = dto.parent /\ entry.mode = dto.mode /\ entry.value = dto.value
        /\ entry.amount = IF dto.parent = Null THEN dto.amount
                        ELSE Derived(rate[dto.parent].amount, dto.mode, dto.value)
    BY <1>1 DEF Columns
  <1>3. entry.parent \in RateId \cup {Null}
    BY <1>2 DEF CreateRate
  <1>4. Tree(rate')
    BY <1>0, <1>2, <1>3, AppendKeepsTree
  <1> PICK S : rate \in Seq(S)
    BY <1>0 DEF Tree
  <1>5. /\ DOMAIN rate' = 1..(N+1) /\ rate'[N+1] = entry
        /\ \A j \in 1..N : rate'[j] = rate[j]
    BY <1>0
  <1>6. RateId \subseteq DOMAIN rate'
    BY <1>0, <1>5
  <1>7. Known(recommendation, rate)' /\ req' = req /\ stale' = stale /\ req[r] = Idle
    <2>1. recommendation' = recommendation /\ req' = req /\ stale' = stale /\ req[r] = Idle
      BY DEF CreateRate
    <2> QED
      BY <1>6, <2>1, OnlyCall DEF Known, RateId
  <1>8. Carries(Idle, rate') /\ Waiting(Idle, rate) = {}
    BY DEF Carries, Idle, Waiting
  <1>9. ASSUME NEW i \in DOMAIN rate' \ stale', rate'[i].parent # Null PROVE Fits(rate', i)
    <2>1. CASE i = N + 1
      <3>1. entry.parent \in RateId
        BY <1>3, <1>5, <1>9, <2>1
      <3>2. rate'[entry.parent] = rate[entry.parent] /\ rate'[i] = entry
        BY <1>0, <1>5, <2>1, <3>1
      <3>3. dto.parent # Null
        BY <1>0, <1>2, <3>1
      <3> QED
        BY <1>2, <3>2, <3>3 DEF Fits
    <2>2. CASE i # N + 1
      <3>1. i \in RateId /\ i \notin stale /\ rate'[i] = rate[i]
        BY <1>0, <1>5, <1>7, <2>2
      <3>2. rate[i].parent \in RateId
        BY <1>0, <1>9, <3>1 DEF Tree, RateId
      <3>3. rate'[rate[i].parent] = rate[rate[i].parent]
        BY <1>0, <1>5, <3>2
      <3>4. Fits(rate, i)
        BY <1>7, <1>8, <1>9, <3>1, OnlyCall DEF RateId
      <3> QED
        BY <3>1, <3>3, <3>4 DEF Fits
    <2> QED
      BY <2>1, <2>2
  <1>10. req' = [req EXCEPT ![r] = Idle]
    BY <1>7 DEF Inv
  <1> QED
    BY <1>4, <1>7, <1>8, <1>9, <1>10, Turn

\* The row as it is going to be.
LEMMA OverIs ==
    ASSUME NEW given, NEW entry, NEW f \in DOMAIN given \cup DOMAIN entry
    PROVE  /\ Over(given, entry)[f] = IF f \in DOMAIN given THEN given[f] ELSE entry[f]
           /\ DOMAIN Over(given, entry) = DOMAIN given \cup DOMAIN entry
  BY DEF Over

LEMMA UpdateIsPlanned ==
    ASSUME Tree(rate), NEW i \in RateId, NEW c,
           DOMAIN c \subseteq {"parent", "mode", "value", "amount", "active"},
           UpdateAllowed(i, c), NEW n
    PROVE  Carries(Update(i, c, n), rate)
  <1> PICK h, entry : h = Update(i, c, n) /\ entry = rate[i]
    OBVIOUS
  <1> DEFINE first == [mode |-> Given(c, "mode", rate[i]), value |-> Given(c, "value", rate[i]),
                       amount |-> NextAmount(i, c)]
  <1>1. h.op = "update" /\ h.id = i /\ h.data = Over(first, c)
    BY DEF Update
  <1>2. Columns \subseteq DOMAIN entry /\ Null \notin RateId /\ entry.parent \in RateId \cup {Null}
    BY NullIsNoRate DEF Tree, RateId
  <1> PICK data : data = Over(first, c)
    OBVIOUS
  <1>3. /\ data.mode = Given(c, "mode", entry)
        /\ data.value = Given(c, "value", entry)
        /\ data.amount = NextAmount(i, c)
        /\ DOMAIN data = {"mode", "value", "amount"} \cup DOMAIN c
        /\ "parent" \in DOMAIN c => data.parent = c.parent
    <2>1. DOMAIN first = {"mode", "value", "amount"} /\ first.mode = Given(c, "mode", entry)
          /\ first.value = Given(c, "value", entry) /\ first.amount = NextAmount(i, c)
      OBVIOUS
    <2> HIDE DEF first
    <2> QED
      BY <2>1 DEF Over
  <1> HIDE DEF first
  <1> PICK new : new = Over(data, entry)
    OBVIOUS
  <1>4. /\ Columns \subseteq DOMAIN new
        /\ new.parent = NextParent(i, c)
        /\ new.mode = Given(c, "mode", entry)
        /\ new.value = Given(c, "value", entry)
        /\ new.amount = NextAmount(i, c)
    <2>1. DOMAIN new = DOMAIN data \cup DOMAIN entry
      BY DEF Over
    <2>2. /\ new.mode = data.mode /\ new.value = data.value /\ new.amount = data.amount
          /\ new.parent = IF "parent" \in DOMAIN data THEN data.parent ELSE entry.parent
      BY <1>2, <1>3 DEF Over, Columns
    <2>3. new.parent = NextParent(i, c)
      BY <1>3, <2>2 DEF NextParent, Given
    <2> QED
      BY <1>2, <1>3, <2>1, <2>2, <2>3
  <1>5. \/ new.parent = Null
        \/ new.parent \in RateId /\ NoCycle(i, new.parent)
    BY <1>4 DEF UpdateAllowed
  <1>6. Tree([rate EXCEPT ![i] = new])
    BY <1>4, <1>5, RowKeepsTree
  <1>7. new.parent # Null => new.amount = Derived(rate[new.parent].amount, new.mode, new.value)
    BY <1>4 DEF NextAmount
  <1>8. NewRow(h, rate) = new
    BY <1>1 DEF NewRow
  <1>9. Planned(h, rate)
    BY <1>1, <1>3, <1>4, <1>6, <1>7, <1>8 DEF Planned, RateId
  <1> QED
    BY <1>1, <1>9 DEF Carries

LEMMA UpdateReadKeeps ==
    ASSUME OneAtATime, Inv, NEW r \in Requests, NEW i \in RateId, NEW c \in Changes,
           UpdateRead(r, i, c)
    PROVE  Inv'
  <1>1. /\ UpdateAllowed(i, c) /\ req[r] = Idle
        /\ req' = [req EXCEPT ![r] = Update(i, c, 0)]
        /\ rate' = rate /\ recommendation' = recommendation /\ stale' = stale
    BY DEF UpdateRead, Begin
  <1>2. Carries(Update(i, c, 0), rate)
    BY <1>1, UpdateIsPlanned, RatesAssumption, OnlyCall
  <1>3. Waiting(req[r], rate) = {}
    BY <1>1, NoneWaits DEF Idle
  <1> QED
    BY <1>1, <1>2, <1>3, OnlyCall, RatesUnmoved

LEMMA ApplyReadKeeps ==
    ASSUME OneAtATime, Inv, NEW r \in Requests, NEW n \in DOMAIN recommendation,
           ApplyRead(r, n)
    PROVE  Inv'
  <1> PICK i, c : i = recommendation[n].rate /\ c = [amount |-> recommendation[n].amount]
    OBVIOUS
  <1>1. /\ UpdateAllowed(i, c) /\ req[r] = Idle
        /\ req' = [req EXCEPT ![r] = Update(i, c, n)]
        /\ rate' = rate /\ recommendation' = recommendation /\ stale' = stale
    BY DEF ApplyRead, Begin
  <1>2. i \in RateId /\ DOMAIN c \subseteq {"parent", "mode", "value", "amount", "active"}
    BY OnlyCall DEF Known, RateId
  <1>3. Carries(Update(i, c, n), rate)
    BY <1>1, <1>2, UpdateIsPlanned, OnlyCall
  <1>4. Waiting(req[r], rate) = {}
    BY <1>1, NoneWaits DEF Idle
  <1> QED
    BY <1>1, <1>3, <1>4, OnlyCall, RatesUnmoved

LEMMA UpdateWriteKeeps ==
    ASSUME OneAtATime, Inv, NEW r \in Requests, UpdateWrite(r)
    PROVE  Inv'
  <1> PICK h, i, new, next :
        /\ h = req[r] /\ i = h.id /\ new = NewRow(h, rate)
        /\ next = [op |-> "children", of |-> i, amount |-> h.data.amount,
                   frames |-> <<>>, rec |-> h.rec]
    OBVIOUS
  <1>1. Planned(h, rate) /\ h.op = "update" /\ Waiting(h, rate) = {}
    BY OnlyCall, NoneWaits DEF UpdateWrite, Carries
  <1>2. i \in RateId /\ new.amount = h.data.amount /\ Tree([rate EXCEPT ![i] = new])
        /\ (new.parent # Null =>
               new.amount = Derived(rate[new.parent].amount, new.mode, new.value))
    BY <1>1 DEF Planned, RateId
  <1>3. /\ rate' = [rate EXCEPT ![i] = new]
        /\ stale' = stale \ {i}
        /\ req' = [req EXCEPT ![r] = next]
        /\ recommendation' = recommendation
    BY DEF UpdateWrite, Continue, NewRow
  <1>4. Tree(rate')
    BY <1>2, <1>3
  <1>5. DOMAIN rate' = RateId /\ rate'[i] = new /\ \A j \in RateId : j # i => rate'[j] = rate[j]
    BY <1>2, <1>3 DEF RateId
  <1>6. Known(recommendation', rate')
    BY <1>3, <1>5, OnlyCall DEF Known, RateId
  <1>7. Carries(next, rate')
    <2>1. <<>> \in Seq({}) /\ Len(<<>>) = 0
      OBVIOUS
    <2>2. Path(<<>>, <<>>, rate')
      BY <2>1 DEF Path
    <2>3. Walking(next, rate')
      BY <1>2, <1>5, <2>2 DEF Walking
    <2> QED
      BY <2>3 DEF Carries
  <1>8. ASSUME NEW j \in DOMAIN rate' \ stale', rate'[j].parent # Null
        PROVE  Fits(rate', j) \/ j \in Waiting(next, rate')
    <2>1. CASE j = i
      <3>1. new.parent \in RateId \ {i}
        <4>1. new.parent \in RateId
          BY <1>4, <1>5, <1>8, <2>1 DEF Tree
        <4>2. \E k \in {i} : rate'[k].parent \notin {i}
          <5>1. {i} \in SUBSET DOMAIN rate' /\ {i} # {}
            BY <1>2, <1>5
          <5> QED
            BY <1>4, <5>1 DEF Tree
        <4> QED
          BY <1>5, <4>1, <4>2
      <3>2. rate'[new.parent] = rate[new.parent]
        BY <1>5, <3>1
      <3> QED
        BY <1>2, <1>5, <1>8, <2>1, <3>2 DEF Fits
    <2>2. CASE j # i /\ rate[j].parent = i
      <3>1. rate'[j].parent = i
        BY <1>5, <2>2
      <3> QED
        BY <3>1 DEF Waiting
    <2>3. CASE j # i /\ rate[j].parent # i
      <3>1. j \in RateId /\ j \notin stale /\ rate'[j] = rate[j]
        BY <1>3, <1>5, <2>3
      <3>2. rate[j].parent \in RateId
        BY <1>8, <3>1, OnlyCall DEF Tree, RateId
      <3>3. rate'[rate[j].parent] = rate[rate[j].parent]
        BY <1>5, <2>3, <3>2
      <3>4. Fits(rate, j)
        BY <1>1, <1>8, <3>1, OnlyCall DEF RateId
      <3> QED
        BY <3>1, <3>3, <3>4 DEF Fits
    <2> QED
      BY <2>1, <2>2, <2>3
  <1> QED
    BY <1>3, <1>4, <1>6, <1>7, <1>8, Turn

LEMMA CascadeReadKeeps ==
    ASSUME OneAtATime, Inv, NEW r \in Requests, CascadeRead(r)
    PROVE  Inv'
  <1> PICK h, left, frame, next :
        /\ h = req[r]
        /\ left = {[id |-> c, mode |-> rate[c].mode, value |-> rate[c].value] :
                        c \in Children(h.of)}
        /\ frame = [amount |-> h.amount, left |-> left]
        /\ next = [op |-> "cascade", rec |-> h.rec, frames |-> Append(h.frames, frame)]
    OBVIOUS
  <1>1. /\ h.op = "children" /\ req' = [req EXCEPT ![r] = next]
        /\ rate' = rate /\ recommendation' = recommendation /\ stale' = stale
    BY DEF CascadeRead, Continue
  <1>2. Walking(h, rate)
    BY <1>1, OnlyCall DEF Carries
  <1> PICK ps : /\ Path(ps, h.frames, rate)
                /\ h.of \in DOMAIN rate
                /\ h.amount = rate[h.of].amount
                /\ h.frames # <<>> => rate[h.of].parent = ps[Len(h.frames)]
    BY <1>1, <1>2 DEF Walking
  <1>3. AsRead(left, h.of, rate)
    BY DEF Children, RateId, AsRead
  <1>4. \E qs : Path(qs, Append(h.frames, frame), rate)
    <2>1. \E qs : Path(qs, Append(h.frames, FrameOf(h.of, left, rate)), rate)
      BY <1>3, PathGrows
    <2>2. frame = FrameOf(h.of, left, rate)
      BY DEF FrameOf
    <2> QED
      BY <2>1, <2>2
  <1> PICK S : h.frames \in Seq(S)
    BY DEF Path
  <1>5. /\ next.op = "cascade" /\ next.frames = Append(h.frames, frame)
        /\ next.frames # <<>> /\ DOMAIN next.frames = 1..(Len(h.frames) + 1)
        /\ next.frames[Len(h.frames) + 1] = frame
        /\ \A n \in DOMAIN h.frames : n \in DOMAIN next.frames /\ next.frames[n] = h.frames[n]
    OBVIOUS
  <1>6. Carries(next, rate)
    BY <1>4, <1>5 DEF Carries, Walking
  <1>7. ASSUME NEW i \in Waiting(h, rate) PROVE i \in Waiting(next, rate)
    <2>1. i \in DOMAIN rate
      BY DEF Waiting
    <2>2. CASE rate[i].parent = h.of
      <3> DEFINE x == [id |-> i, mode |-> rate[i].mode, value |-> rate[i].value]
      <3>1. x \in left /\ x.id = i
        BY <2>1, <2>2 DEF Children, RateId
      <3> HIDE DEF x
      <3>2. x \in next.frames[Len(h.frames) + 1].left /\ Len(h.frames) + 1 \in DOMAIN next.frames
        BY <1>5, <3>1
      <3> QED
        BY <1>5, <2>1, <3>1, <3>2 DEF Waiting
    <2>3. CASE rate[i].parent # h.of
      <3>1. PICK n \in DOMAIN h.frames : \E x \in h.frames[n].left : x.id = i
        BY <2>3 DEF Waiting
      <3> QED
        BY <1>5, <2>1, <3>1 DEF Waiting
    <2> QED
      BY <2>2, <2>3
  <1> QED
    BY <1>1, <1>6, <1>7, OnlyCall, RatesUnmoved

LEMMA CascadeWriteKeeps ==
    ASSUME OneAtATime, Inv, NEW r \in Requests, CascadeWrite(r)
    PROVE  Inv'
  <1> PICK h, N : h = req[r] /\ N = Len(h.frames)
    OBVIOUS
  <1> PICK child \in h.frames[N].left :
        LET amount == Derived(h.frames[N].amount, child.mode, child.value)
        IN  /\ rate' = [rate EXCEPT ![child.id].amount = amount]
            /\ stale' = stale \ {child.id}
            /\ req' = [req EXCEPT ![r] =
                    [op |-> "children", of |-> child.id, amount |-> amount,
                     frames |-> [h.frames EXCEPT ![N].left = @ \ {child}], rec |-> h.rec]]
    BY DEF CascadeWrite, Top, Continue
  <1> PICK c, amount, last, less, next :
        /\ c = child.id
        /\ amount = Derived(h.frames[N].amount, child.mode, child.value)
        /\ last = [h.frames[N] EXCEPT !.left = @ \ {child}]
        /\ less = [h.frames EXCEPT ![N] = last]
        /\ next = [op |-> "children", of |-> c, amount |-> amount, frames |-> less,
                   rec |-> h.rec]
    OBVIOUS
  <1>1. /\ rate' = [rate EXCEPT ![c].amount = amount]
        /\ stale' = stale \ {c}
        /\ req' = [req EXCEPT ![r] = next]
        /\ recommendation' = recommendation
    BY DEF CascadeWrite
  <1>2. h.op = "cascade" /\ Tree(rate) /\ Walking(h, rate)
    BY OnlyCall DEF CascadeWrite, Carries
  <1> PICK ps : Path(ps, h.frames, rate) /\ h.frames # <<>>
    BY <1>2 DEF Walking
  <1> PICK S : h.frames \in Seq(S)
    BY DEF Path
  <1>3. /\ Path(ps, less, rate')
        /\ Len(less) = Len(h.frames)
        /\ \A n \in 1..Len(h.frames) : \A y \in h.frames[n].left :
              y # child => y \in less[n].left
    <2>1. child \in h.frames[Len(h.frames)].left
      OBVIOUS
    <2>2. /\ Path(ps, Without(h.frames, child), Repriced(rate, child.id, amount))
          /\ Len(Without(h.frames, child)) = Len(h.frames)
          /\ \A n \in 1..Len(h.frames) : \A y \in h.frames[n].left :
                y # child => y \in Without(h.frames, child)[n].left
      BY <1>2, <2>1, PathStays
    <2>3. rate' = Repriced(rate, child.id, amount) /\ less = Without(h.frames, child)
      BY <1>1 DEF Repriced, Without
    <2> QED
      BY <2>2, <2>3
  <1>d. DOMAIN h.frames = 1..N /\ DOMAIN less = 1..N
    BY DEF Path
  <1>4. /\ N \in 1..N /\ ps[N] \in RateId /\ h.frames[N].amount = rate[ps[N]].amount
        /\ c \in RateId /\ rate[c].parent = ps[N]
        /\ child.mode = rate[c].mode /\ child.value = rate[c].value
    <2>1. N \in 1..N
      OBVIOUS
    <2>2. h.frames[N] = [amount |-> rate[ps[N]].amount, left |-> h.frames[N].left]
      BY <2>1 DEF Path
    <2>3. h.frames[N].amount = rate[ps[N]].amount
      BY <2>2
    <2> QED
      BY <2>1, <2>3 DEF Path, AsRead, RateId
  <1>5. ps[N] # c
    BY <1>2, <1>4, ChildIsBelow
  <1>6. /\ DOMAIN rate' = RateId
        /\ rate'[c] = [rate[c] EXCEPT !.amount = amount]
        /\ \A j \in RateId : j # c => rate'[j] = rate[j]
    BY <1>1, <1>4 DEF RateId
  <1>7. /\ Columns \subseteq DOMAIN rate'[c]
        /\ rate'[c].parent = rate[c].parent /\ rate'[c].mode = rate[c].mode
        /\ rate'[c].value = rate[c].value /\ rate'[c].amount = amount
    <2>1. Columns \subseteq DOMAIN rate[c]
      BY <1>2, <1>4 DEF Tree, RateId
    <2> QED
      BY <1>6, <2>1 DEF Columns
  <1>8. Tree(rate')
    <2> PICK entry : entry = [rate[c] EXCEPT !.amount = amount]
      OBVIOUS
    <2>1. rate' = [rate EXCEPT ![c] = entry]
      BY <1>1
    <2>2. Columns \subseteq DOMAIN entry /\ entry.parent = rate[c].parent
      BY <1>6, <1>7
    <2>3. Tree([rate EXCEPT ![c] = entry])
      BY <1>2, <1>4, <2>2, RowKeepsTree
    <2> QED
      BY <2>1, <2>3
  <1>9. Known(recommendation', rate')
    BY <1>1, <1>6, OnlyCall DEF Known, RateId
  <1>10. Carries(next, rate')
    <2>1. rate'[c].parent = ps[Len(next.frames)]
      BY <1>3, <1>4, <1>7
    <2>2. Walking(next, rate')
      BY <1>3, <1>4, <1>6, <1>7, <2>1 DEF Walking
    <2> QED
      BY <2>2 DEF Carries
  <1>11. ASSUME NEW j \in DOMAIN rate' \ stale', rate'[j].parent # Null
         PROVE  Fits(rate', j) \/ j \in Waiting(next, rate')
    <2>1. CASE j = c
      <3>1. rate'[ps[N]] = rate[ps[N]]
        BY <1>4, <1>5, <1>6
      <3>2. rate'[j].parent = ps[N] /\ rate'[j].mode = child.mode
            /\ rate'[j].value = child.value /\ rate'[j].amount = amount
        BY <1>4, <1>7, <2>1
      <3>3. amount = Derived(rate'[ps[N]].amount, child.mode, child.value)
        BY <1>4, <3>1
      <3> QED
        BY <3>2, <3>3 DEF Fits
    <2>2. CASE j # c /\ rate[j].parent = c
      <3>1. rate'[j].parent = c
        BY <1>6, <2>2
      <3> QED
        BY <3>1 DEF Waiting
    <2>3. CASE j # c /\ rate[j].parent # c
      <3>1. j \in RateId /\ j \notin stale /\ rate'[j] = rate[j]
        BY <1>1, <1>6, <2>3
      <3>2. rate[j].parent \in RateId
        BY <1>2, <1>11, <3>1 DEF Tree, RateId
      <3>3. rate'[rate[j].parent] = rate[rate[j].parent]
        BY <1>6, <2>3, <3>2
      <3>4. CASE Fits(rate, j)
        BY <3>1, <3>3, <3>4 DEF Fits
      <3>5. CASE j \in Waiting(h, rate)
        <4>0. PICK n \in DOMAIN h.frames : \E x \in h.frames[n].left : x.id = j
          BY <1>2, <3>5 DEF Waiting
        <4>1. n \in 1..N /\ \E x \in h.frames[n].left : x.id = j
          BY <1>d, <4>0
        <4>2. PICK x \in h.frames[n].left : x.id = j
          BY <4>1
        <4>3. x # child
          BY <2>3, <4>2
        <4>4. x \in less[n].left /\ n \in DOMAIN less
          BY <1>3, <1>d, <4>1, <4>2, <4>3
        <4> QED
          BY <4>2, <4>4 DEF Waiting
      <3> QED
        BY <1>11, <3>1, <3>4, <3>5, OnlyCall DEF RateId
    <2> QED
      BY <2>1, <2>2, <2>3
  <1> QED
    BY <1>1, <1>8, <1>9, <1>10, <1>11, Turn

\* A call that ends, having noted what it leaves.
LEMMA StopKeeps ==
    ASSUME OneAtATime, Inv, NEW r \in Requests, End(r), UNCHANGED <<rate, recommendation>>,
           stale' = stale \cup Left(req[r])
    PROVE  Inv'
  <1>1. req' = [req EXCEPT ![r] = Idle] /\ Carries(Idle, rate)
    BY DEF End, Carries, Idle
  <1>2. Waiting(req[r], rate) \subseteq stale'
    BY WaitingIsLeft
  <1> QED
    BY <1>1, <1>2, OnlyCall, RatesUnmoved

LEMMA CascadeUpKeeps ==
    ASSUME OneAtATime, Inv, NEW r \in Requests, CascadeUp(r)
    PROVE  Inv'
  <1> PICK h, N, less : /\ h = req[r] /\ N = Len(h.frames)
                        /\ less = SubSeq(h.frames, 1, N - 1)
    OBVIOUS
  <1>1. /\ h.op = "cascade" /\ h.frames[N].left = {}
        /\ rate' = rate /\ recommendation' = recommendation /\ stale' = stale
        /\ IF less # <<>> THEN req' = [req EXCEPT ![r].frames = less]
           ELSE req' = [req EXCEPT ![r] = IF h.rec = 0 THEN Idle
                                          ELSE [op |-> "applied", rec |-> h.rec]]
    BY DEF CascadeUp, Top, End, Continue
  <1> PICK ps : Path(ps, h.frames, rate) /\ h.frames # <<>>
    BY <1>1, OnlyCall DEF Carries, Walking
  <1> PICK S : h.frames \in Seq(S)
    BY DEF Path
  <1>2. Path(ps, less, rate)
    BY PathShrinks
  <1>3. /\ DOMAIN h.frames = 1..N /\ DOMAIN less = 1..(N-1)
        /\ \A n \in DOMAIN less : less[n] = h.frames[n]
    OBVIOUS
  <1>4. ASSUME NEW i \in Waiting(h, rate)
        PROVE  i \in DOMAIN rate /\ \E n \in DOMAIN less : \E x \in less[n].left : x.id = i
    <2>1. PICK n \in DOMAIN h.frames : \E x \in h.frames[n].left : x.id = i
      BY <1>1 DEF Waiting
    <2>2. n # N
      BY <1>1, <2>1
    <2>3. n \in DOMAIN less
      BY <1>3, <2>1, <2>2
    <2> QED
      BY <1>3, <2>1, <2>3 DEF Waiting
  <1>5. CASE less # <<>>
    <2> PICK next : next = [h EXCEPT !.frames = less]
      OBVIOUS
    <2>1. req' = [req EXCEPT ![r] = next]
      BY <1>1, <1>5
    <2>2. next.op = "cascade" /\ (next.frames = less \/ next = h)
      BY <1>1
    <2>3. Carries(next, rate)
      BY <1>2, <1>5, <2>2, OnlyCall DEF Carries, Walking
    <2>4. Waiting(h, rate) \subseteq Waiting(next, rate)
      BY <1>4, <2>2 DEF Waiting
    <2> QED
      BY <1>1, <2>1, <2>3, <2>4, OnlyCall, RatesUnmoved
  <1>6. CASE less = <<>>
    <2> PICK next : next = IF h.rec = 0 THEN Idle ELSE [op |-> "applied", rec |-> h.rec]
      OBVIOUS
    <2>1. next.op \in {"idle", "applied"}
      BY DEF Idle
    <2>2. Carries(next, rate)
      BY <2>1 DEF Carries
    <2>3. Waiting(h, rate) = {}
      BY <1>3, <1>4, <1>6
    <2> QED
      BY <1>1, <1>6, <2>2, <2>3, OnlyCall, RatesUnmoved
  <1> QED
    BY <1>5, <1>6

\* The other steps: no rate is written, and nothing is waiting.
LEMMA QuietKeeps ==
    ASSUME OneAtATime, Inv, NEW r \in Requests, req[r].op \notin {"children", "cascade"},
           NEW h, req' = [req EXCEPT ![r] = h], Carries(h, rate),
           UNCHANGED <<rate, stale>>, Known(recommendation', rate)
    PROVE  Inv'
  <1>1. Waiting(req[r], rate) = {}
    BY NoneWaits
  <1> QED
    BY <1>1, RatesUnmoved

LEMMA FailKeeps ==
    ASSUME OneAtATime, Inv, NEW r \in Requests, Fail(r)
    PROVE  Inv'
  <1>1. CASE req[r].op \in {"children", "cascade"}
    BY <1>1, StopKeeps DEF Fail
  <1>2. CASE req[r].op \notin {"children", "cascade"}
    <2>1. req' = [req EXCEPT ![r] = Idle] /\ Carries(Idle, rate)
      BY DEF Fail, End, Carries, Idle
    <2> QED
      BY <1>2, <2>1, OnlyCall, QuietKeeps DEF Fail
  <1> QED
    BY <1>1, <1>2

\* A set of numbers has a least.
LEMMA LeastIs ==
    ASSUME NEW S \in SUBSET Nat, S # {}
    PROVE  \E i \in S : \A j \in S : i <= j
  <1> SUFFICES ASSUME \A i \in S : \E j \in S : ~(i <= j) PROVE FALSE
    OBVIOUS
  <1> DEFINE P == {n \in Nat : \A j \in S : n <= j}
  <1>1. 0 \in P
    OBVIOUS
  <1>2. \A n \in Nat : n \in P => n + 1 \in P
    <2> SUFFICES ASSUME NEW n \in Nat, \A j \in S : n <= j, NEW j \in S PROVE n + 1 <= j
      OBVIOUS
    <2>1. n <= j /\ j \in Nat
      OBVIOUS
    <2>2. n # j
      OBVIOUS
    <2> QED
      BY <2>1, <2>2
  <1> HIDE DEF P
  <1>3. \A n \in Nat : n \in P
    BY <1>1, <1>2, Counting
  <1>4. PICK i \in S : i \in Nat
    OBVIOUS
  <1>5. i + 1 \in P /\ ~(i + 1 <= i)
    BY <1>3, <1>4
  <1> QED
    BY <1>4, <1>5 DEF P

LEMMA GenerateReadKeeps ==
    ASSUME OneAtATime, Inv, NEW r \in Requests, GenerateRead(r)
    PROVE  Inv'
  <1> DEFINE first == CHOOSE i \in CoveringRates : \A j \in CoveringRates : i <= j
  <1>1. first \in RateId
    <2>1. CoveringRates \in SUBSET Nat /\ CoveringRates # {} /\ CoveringRates \subseteq RateId
      BY NullIsNoRate, OnlyCall DEF CoveringRates, RateId, GenerateRead
    <2>2. \E i \in CoveringRates : \A j \in CoveringRates : i <= j
      BY <2>1, LeastIs
    <2> QED
      BY <2>1, <2>2
  <1>2. PICK h : h = [op |-> "generate", rate |-> first, current |-> rate[first].amount,
                      days |-> {d \in Horizon : <<first, d>> \notin PendingKeys}]
    OBVIOUS
  <1>3. req' = [req EXCEPT ![r] = h] /\ req[r] = Idle
        /\ UNCHANGED <<rate, recommendation, stale>>
    BY <1>2 DEF GenerateRead, Begin
  <1> HIDE DEF first
  <1>4. Carries(h, rate)
    BY <1>1, <1>2 DEF Carries, RateId
  <1>5. req[r].op \notin {"children", "cascade"}
    BY <1>3 DEF Idle
  <1> QED
    BY <1>3, <1>4, <1>5, OnlyCall, QuietKeeps

LEMMA CascadeThrowsKeeps ==
    ASSUME OneAtATime, Inv, NEW r \in Requests, CascadeThrows(r)
    PROVE  Inv'
  BY StopKeeps DEF CascadeThrows

\* One more recommendation, or another status of one.
LEMMA KnownAfter ==
    ASSUME Known(recommendation, rate), NEW recs,
           \/ \E x : "rate" \in DOMAIN x /\ x.rate \in RateId /\ recs = Append(recommendation, x)
           \/ \E n, s : recs = [recommendation EXCEPT ![n].status = s]
    PROVE  Known(recs, rate)
  <1> PICK S : recommendation \in Seq(S)
    BY DEF Known
  <1>0. \A n \in DOMAIN recommendation :
            "rate" \in DOMAIN recommendation[n] /\ recommendation[n].rate \in DOMAIN rate
    BY DEF Known
  <1>1. CASE \E x : "rate" \in DOMAIN x /\ x.rate \in RateId /\ recs = Append(recommendation, x)
    <2> PICK x : "rate" \in DOMAIN x /\ x.rate \in RateId /\ recs = Append(recommendation, x)
      BY <1>1
    <2>1. recs \in Seq(S \cup {x}) /\ DOMAIN recs = 1..(Len(recommendation) + 1)
          /\ recs[Len(recommendation) + 1] = x
          /\ \A n \in 1..Len(recommendation) : recs[n] = recommendation[n]
      OBVIOUS
    <2>2. \A n \in DOMAIN recs : "rate" \in DOMAIN recs[n] /\ recs[n].rate \in DOMAIN rate
      BY <1>0, <2>1 DEF RateId
    <2> QED
      BY <2>1, <2>2 DEF Known
  <1>2. CASE \E n, s : recs = [recommendation EXCEPT ![n].status = s]
    <2> PICK n, s, x : x = [recommendation[n] EXCEPT !.status = s]
                       /\ recs = [recommendation EXCEPT ![n] = x]
      BY <1>2
    <2>1. recs \in Seq(S \cup {x}) /\ DOMAIN recs = DOMAIN recommendation
          /\ \A m \in DOMAIN recs : recs[m] = IF m = n THEN x ELSE recommendation[m]
      <3>1. /\ DOMAIN recs = DOMAIN recommendation
            /\ \A m \in DOMAIN recs : recs[m] = IF m = n THEN x ELSE recommendation[m]
        OBVIOUS
      <3>2. CASE n \in DOMAIN recommendation
        <4>1. [recommendation EXCEPT ![n] = x] \in Seq(S \cup {x})
          BY <3>2
        <4> QED
          BY <3>1, <4>1
      <3>3. CASE n \notin DOMAIN recommendation
        <4>1. recs = recommendation
          BY <3>3
        <4>2. recommendation \in Seq(S \cup {x})
          OBVIOUS
        <4> QED
          BY <3>1, <4>1, <4>2
      <3> QED
        BY <3>2, <3>3
    <2>2. n \in DOMAIN recommendation =>
              "rate" \in DOMAIN x /\ x.rate = recommendation[n].rate
      BY <1>0
    <2>3. \A m \in DOMAIN recs : "rate" \in DOMAIN recs[m] /\ recs[m].rate \in DOMAIN rate
      BY <1>0, <2>1, <2>2
    <2> QED
      BY <2>1, <2>3 DEF Known
  <1> QED
    BY <1>1, <1>2

LEMMA GenerateDayKeeps ==
    ASSUME OneAtATime, Inv, NEW r \in Requests, GenerateDay(r)
    PROVE  Inv'
  <1> PICK h, days, next : h = req[r] /\ next = [h EXCEPT !.days = days]
                           /\ req' = [req EXCEPT ![r] = next]
    BY DEF GenerateDay
  <1>1. h.op = "generate" /\ UNCHANGED <<rate, stale>> /\ h.rate \in DOMAIN rate
    BY OnlyCall DEF GenerateDay, Carries
  <1>2. Carries(next, rate)
    <2>1. next = h \/ (next.op = h.op /\ next.rate = h.rate)
      OBVIOUS
    <2> QED
      BY <1>1, <2>1, OnlyCall DEF Carries
  <1>3. Known(recommendation', rate)
    <2>1. \/ recommendation' = recommendation
          \/ \E x : /\ "rate" \in DOMAIN x /\ x.rate = h.rate
                    /\ recommendation' = Append(recommendation, x)
      BY DEF GenerateDay
    <2> QED
      BY <1>1, <2>1, OnlyCall, KnownAfter DEF RateId
  <1> QED
    BY <1>1, <1>2, <1>3, QuietKeeps

\* A call that ends with one recommendation changed, or none.
LEMMA EndsQuietly ==
    ASSUME OneAtATime, Inv, NEW r \in Requests, req[r].op \notin {"children", "cascade"}, End(r),
           UNCHANGED <<rate, stale>>,
           \/ UNCHANGED recommendation
           \/ \E n, s : recommendation' = [recommendation EXCEPT ![n].status = s]
    PROVE  Inv'
  <1>1. req' = [req EXCEPT ![r] = Idle] /\ Carries(Idle, rate)
    BY DEF End, Carries, Idle
  <1>2. Known(recommendation', rate)
    BY OnlyCall, KnownAfter
  <1> QED
    BY <1>1, <1>2, QuietKeeps

LEMMA GenerateEndKeeps ==
    ASSUME OneAtATime, Inv, NEW r \in Requests, GenerateEnd(r)
    PROVE  Inv'
  BY EndsQuietly DEF GenerateEnd

LEMMA ApplyWriteKeeps ==
    ASSUME OneAtATime, Inv, NEW r \in Requests, ApplyWrite(r)
    PROVE  Inv'
  <1>1. /\ req[r].op \notin {"children", "cascade"} /\ End(r) /\ UNCHANGED <<rate, stale>>
        /\ \E n, s : recommendation' = [recommendation EXCEPT ![n].status = s]
    BY DEF ApplyWrite
  <1> QED
    BY <1>1, EndsQuietly

LEMMA DismissReadKeeps ==
    ASSUME OneAtATime, Inv, NEW r \in Requests, NEW n, DismissRead(r, n)
    PROVE  Inv'
  <1> PICK h : h = [op |-> "dismiss", rec |-> n]
    OBVIOUS
  <1>1. req[r] = Idle /\ req' = [req EXCEPT ![r] = h] /\ Carries(h, rate)
        /\ UNCHANGED <<rate, recommendation, stale>>
    BY DEF DismissRead, Begin, Carries
  <1>2. req[r].op \notin {"children", "cascade"}
    BY <1>1 DEF Idle
  <1> QED
    BY <1>1, <1>2, OnlyCall, QuietKeeps

LEMMA DismissWriteKeeps ==
    ASSUME OneAtATime, Inv, NEW r \in Requests, DismissWrite(r)
    PROVE  Inv'
  <1>1. /\ req[r].op \notin {"children", "cascade"} /\ End(r) /\ UNCHANGED <<rate, stale>>
        /\ \E n, s : recommendation' = [recommendation EXCEPT ![n].status = s]
    BY DEF DismissWrite
  <1> QED
    BY <1>1, EndsQuietly

LEMMA InvNext ==
    ASSUME OneAtATime, Inv, [Next]_vars
    PROVE  Inv'
  <1>1. CASE UNCHANGED vars
    BY <1>1 DEF Inv, vars
  <1>2. ASSUME NEW r \in Requests, Starts(r) PROVE Inv'
    <2>1. ASSUME NEW dto \in NewRates, CreateRate(r, dto) PROVE Inv'
      BY <2>1, CreateRateKeeps
    <2>2. ASSUME NEW i \in RateId, NEW c \in Changes, UpdateRead(r, i, c) PROVE Inv'
      BY <2>2, UpdateReadKeeps
    <2>3. CASE GenerateRead(r)
      BY <2>3, GenerateReadKeeps
    <2>4. ASSUME NEW n \in DOMAIN recommendation, ApplyRead(r, n) \/ DismissRead(r, n)
          PROVE  Inv'
      BY <2>4, ApplyReadKeeps, DismissReadKeeps
    <2> QED
      BY <1>2, <2>1, <2>2, <2>3, <2>4 DEF Starts
  <1>3. ASSUME NEW r \in Requests, Continues(r) PROVE Inv'
    BY <1>3, UpdateWriteKeeps, CascadeReadKeeps, CascadeWriteKeeps, CascadeThrowsKeeps,
       CascadeUpKeeps, GenerateDayKeeps, GenerateEndKeeps, ApplyWriteKeeps, DismissWriteKeeps
       DEF Continues
  <1>4. ASSUME NEW r \in Requests, Fail(r) PROVE Inv'
    BY <1>4, FailKeeps
  <1> QED
    BY <1>1, <1>2, <1>3, <1>4 DEF Next

-----------------------------------------------------------------------------
(* The theorems *)

\* Whatever is created and updated, no rate comes to derive from itself.
THEOREM NoLoops ==
    ASSUME OneAtATime
    PROVE  Spec => []NoRateDerivesFromItself
  <1>1. Inv => NoRateDerivesFromItself
    BY TreeHasNoCycle DEF Inv, NoRateDerivesFromItself
  <1> QED
    BY <1>1, InvInit, InvNext, PTL DEF Spec

\* Between calls every derived rate has the amount its formula gives, but for
\* those that a cascade which stopped has not come to.
THEOREM AmountsFollow ==
    ASSUME OneAtATime
    PROVE  Spec => []DerivedFollowParents
  <1>1. Inv => DerivedFollowParents
    <2> SUFFICES ASSUME Inv, \A r \in Requests : req[r] = Idle,
                        NEW i \in RateId \ stale, rate[i].parent # Null
                 PROVE  Follows(i)
      BY DEF DerivedFollowParents
    <2>1. \A r \in Requests : Waiting(req[r], rate) = {}
      BY NoneWaits DEF Idle
    <2>2. Fits(rate, i)
      BY <2>1 DEF Inv, RateId
    <2> QED
      BY <2>2 DEF Fits, Follows
  <1> QED
    BY <1>1, InvInit, InvNext, PTL DEF Spec

-----------------------------------------------------------------------------
(* The form of a booking *)

WizardTypeOK ==
    /\ step \in 1..4
    /\ form \in Forms
    /\ room \in Rooms \cup {NoRoom} /\ second \in Rooms \cup {NoRoom}
    /\ offered \subseteq Rooms

OptionsExclude ==
    /\ form.split => ~form.dayUse /\ ~form.locked /\ form.cycle = "NIGHTLY"
    /\ form.dayUse => form.cycle = "NIGHTLY"
    /\ form.dayUse /\ form.checkIn # Blank => form.checkOut = form.checkIn

PairIsReady == step \in {3, 4} => room \in Rooms /\ (form.split => SplitReady)

Coherence == WizardTypeOK /\ OptionsExclude /\ PairIsReady

\* The wizard opens on an empty form.
LEMMA StartsEmpty == WizardInit => Coherence
BY WizardAssumption DEF WizardInit, Coherence, WizardTypeOK, OptionsExclude, PairIsReady,
   Forms, EmptyForm, Blank, Days, Dates, Cycles

\* Every control of the first step leaves the options excluding one another.
LEMMA FillKeepsCoherence == Coherence /\ FillIn => Coherence'
<1> SUFFICES ASSUME Coherence, FillIn PROVE Coherence'
  OBVIOUS
<1> USE WizardAssumption
    DEF Coherence, WizardTypeOK, OptionsExclude, PairIsReady, Forms, Blank, Days, Dates, Cycles,
        Fill, KeepSecondRoom, ClearSecondRoom
<1> DEFINE Same == step' = step /\ room' = room /\ offered' = offered
<1>1. CASE \E p \in Properties \cup {NoProperty} : SelectProperty(p)
  BY <1>1 DEF SelectProperty
<1>2. ASSUME NEW d \in {Blank} \cup Days, ChangeCheckIn(d) PROVE Coherence'
  <2> DEFINE out == IF form.dayUse THEN d
                    ELSE IF form.checkOut # Blank /\ d >= form.checkOut THEN d + 1
                    ELSE form.checkOut
  <2>a. out \in Dates
    BY <1>2
  <2>b. form' = [form EXCEPT !.checkIn = d, !.checkOut = out]
    BY <1>2 DEF ChangeCheckIn
  <2> HIDE DEF out
  <2>1. form' \in Forms
    BY <2>a, <2>b
  <2> USE DEF out
  <2>2. Same
    BY <1>2 DEF ChangeCheckIn
  <2>3. OptionsExclude'
    BY <1>2, <2>1 DEF ChangeCheckIn
  <2>4. second' \in Rooms \cup {NoRoom} /\ PairIsReady'
    BY <1>2 DEF ChangeCheckIn
  <2> QED
    BY <2>1, <2>2, <2>3, <2>4
<1>3. ASSUME NEW d \in Dates, ChangeCheckOut(d) PROVE Coherence'
  BY <1>3 DEF ChangeCheckOut
<1>4. ASSUME NEW d \in Dates, ChangeSplitDate(d) PROVE Coherence'
  BY <1>4 DEF ChangeSplitDate
<1>5. CASE TickDayUse
  <2> DEFINE out == IF form.checkIn # Blank THEN form.checkIn ELSE form.checkOut
  <2>a. out \in Dates
    OBVIOUS
  <2>b. form' = [form EXCEPT !.dayUse = TRUE, !.split = FALSE, !.cycle = "NIGHTLY",
                             !.checkOut = out]
    BY <1>5 DEF TickDayUse
  <2> HIDE DEF out
  <2>1. form' \in Forms
    BY <2>a, <2>b
  <2> USE DEF out
  <2>2. Same
    BY <1>5 DEF TickDayUse
  <2>3. OptionsExclude'
    BY <1>5, <2>1 DEF TickDayUse
  <2>4. second' \in Rooms \cup {NoRoom} /\ PairIsReady'
    BY <1>5 DEF TickDayUse
  <2> QED
    BY <2>1, <2>2, <2>3, <2>4
<1>6. CASE UntickDayUse
  <2> DEFINE out == IF form.checkIn # Blank /\ form.checkOut = form.checkIn
                    THEN form.checkOut + 1 ELSE form.checkOut
  <2>a. out \in Dates
    OBVIOUS
  <2>b. form' = [form EXCEPT !.dayUse = FALSE, !.checkOut = out]
    BY <1>6 DEF UntickDayUse
  <2> HIDE DEF out
  <2>1. form' \in Forms
    BY <2>a, <2>b
  <2> USE DEF out
  <2>2. Same
    BY <1>6 DEF UntickDayUse
  <2>3. OptionsExclude'
    BY <1>6, <2>1 DEF UntickDayUse
  <2>4. second' \in Rooms \cup {NoRoom} /\ PairIsReady'
    BY <1>6 DEF UntickDayUse
  <2> QED
    BY <2>1, <2>2, <2>3, <2>4
<1>7. CASE TickSplitStay
  <2> DEFINE date == IF /\ form.checkIn # Blank /\ form.checkOut # Blank
                        /\ form.splitDate = Blank
                        /\ form.checkIn + 1 < form.checkOut
                     THEN form.checkIn + 1 ELSE form.splitDate
  <2>a. date \in Dates
    OBVIOUS
  <2>b. form' = [form EXCEPT !.split = TRUE, !.dayUse = FALSE, !.splitDate = date]
    BY <1>7 DEF TickSplitStay
  <2> HIDE DEF date
  <2>1. form' \in Forms
    BY <2>a, <2>b
  <2> USE DEF date
  <2>2. Same
    BY <1>7 DEF TickSplitStay, SplitDisabled, Extended
  <2>3. OptionsExclude'
    BY <1>7, <2>1 DEF TickSplitStay, SplitDisabled, Extended
  <2>4. second' \in Rooms \cup {NoRoom} /\ PairIsReady'
    BY <1>7 DEF TickSplitStay, SplitDisabled, Extended
  <2> QED
    BY <2>1, <2>2, <2>3, <2>4
<1>8. CASE UntickSplitStay
  BY <1>8 DEF UntickSplitStay
<1>9. CASE TickRoomLock
  BY <1>9 DEF TickRoomLock
<1>10. CASE UntickRoomLock
  BY <1>10 DEF UntickRoomLock
<1>11. ASSUME NEW c \in Cycles, ChangeBillingCycle(c) PROVE Coherence'
  <2>1. step = 1 /\ Same /\ second' \in Rooms \cup {NoRoom}
    BY <1>11 DEF ChangeBillingCycle
  <2>2. form' = [form EXCEPT !.cycle = c, !.dayUse = FALSE, !.split = FALSE]
        \/ form' = [form EXCEPT !.cycle = c]
    BY <1>11 DEF ChangeBillingCycle
  <2>3. ~form.dayUse /\ ~form.split
    BY <1>11 DEF ChangeBillingCycle
  <2>4. form' \in Forms
    <3>1. CASE form' = [form EXCEPT !.cycle = c, !.dayUse = FALSE, !.split = FALSE]
      BY <3>1
    <3>2. CASE form' = [form EXCEPT !.cycle = c]
      BY <3>2
    <3> QED
      BY <2>2, <3>1, <3>2
  <2>5. ~form'.dayUse /\ ~form'.split
    <3>1. CASE form' = [form EXCEPT !.cycle = c, !.dayUse = FALSE, !.split = FALSE]
      BY <3>1
    <3>2. CASE form' = [form EXCEPT !.cycle = c]
      BY <2>3, <3>2
    <3> QED
      BY <2>2, <3>1, <3>2
  <2>6. OptionsExclude'
    BY <2>5
  <2>7. PairIsReady'
    BY <2>1
  <2> QED
    BY <2>1, <2>4, <2>6, <2>7
<1>12. ASSUME NEW p \in Purposes, ChangeStayPurpose(p) PROVE Coherence'
  BY <1>12 DEF ChangeStayPurpose
<1> QED
  BY <1>1, <1>2, <1>3, <1>4, <1>5, <1>6, <1>7, <1>8, <1>9, <1>10, <1>11, <1>12 DEF FillIn

\* The steps change no field; what they choose is checked on the way to step 3.
LEMMA ProceedKeepsCoherence == Coherence /\ Proceed => Coherence'
<1> SUFFICES ASSUME Coherence, Proceed PROVE Coherence'
  OBVIOUS
<1> USE WizardAssumption DEF Coherence, WizardTypeOK, OptionsExclude, PairIsReady
<1>1. CASE Step1Next
  BY <1>1 DEF Step1Next, SplitReady, SplitDateInside
<1>2. CASE Step2Next
  BY <1>2 DEF Step2Next, SplitReady, SplitDateInside
<1>3. CASE Step3Next
  BY <1>3 DEF Step3Next, SplitReady, SplitDateInside
<1>4. ASSUME NEW p \in Properties, NEW rooms \in Lists, RoomsLoaded(p, rooms)
      PROVE Coherence'
  BY <1>4 DEF RoomsLoaded
<1>5. ASSUME NEW p \in Properties, RoomsFailed(p) PROVE Coherence'
  BY <1>5 DEF RoomsFailed, SplitReady, SplitDateInside
<1>6. ASSUME NEW m \in Rooms, SelectRoom(m) \/ SelectSecondRoom(m) PROVE Coherence'
  BY <1>6 DEF SelectRoom, SelectSecondRoom
<1>7. CASE Back
  BY <1>7 DEF Back, SplitReady, SplitDateInside
<1>8. CASE Submit \/ SubmitFailed
  BY <1>8 DEF Submit, SubmitFailed, SplitReady, SplitDateInside
<1> QED
  BY <1>1, <1>2, <1>3, <1>4, <1>5, <1>6, <1>7, <1>8 DEF Proceed

\* The invariant is inductive.
LEMMA WizardStep == Coherence /\ [WizardNext]_wizardVars => Coherence'
<1> SUFFICES ASSUME Coherence, [WizardNext]_wizardVars PROVE Coherence'
  OBVIOUS
<1>1. CASE Leave
  BY <1>1, WizardAssumption DEF Leave, Coherence, WizardTypeOK, OptionsExclude, PairIsReady,
     Forms, EmptyForm, Blank, Days, Dates, Cycles
<1>2. CASE UNCHANGED wizardVars
  BY <1>2 DEF wizardVars, Coherence, WizardTypeOK, OptionsExclude, PairIsReady, SplitReady,
     SplitDateInside
<1> QED
  BY <1>1, <1>2, FillKeepsCoherence, ProceedKeepsCoherence DEF WizardNext

\* On the last step the invariant is what the API asks for.
LEMMA CoherentWhenSent == Coherence => SentIsCoherent
<1> SUFFICES ASSUME Coherence, CanSubmit PROVE
        /\ BillingCycleCompatible(request)
        /\ RoomLockCompatible(request)
        /\ SplitStayOK(request)
        /\ request.dayUse /\ request.checkIn # Blank => request.checkIn = request.checkOut
  BY DEF SentIsCoherent
<1> USE DEF Coherence, OptionsExclude, request, Payload
<1>1. BillingCycleCompatible(request)
  BY DEF BillingCycleCompatible
<1>2. RoomLockCompatible(request)
  BY DEF RoomLockCompatible
<1>3. SplitStayOK(request)
  <2>1. CASE ~form.split
    BY <2>1 DEF SplitStayOK
  <2>2. CASE form.split
    <3>1. SplitReady
      BY <2>2 DEF PairIsReady, CanSubmit
    <3>2. request.stays = <<Segment(room, form.checkIn, form.splitDate),
                            Segment(second, form.splitDate, form.checkOut)>>
      BY <2>2 DEF SplitStayPayload
    <3>3. /\ request.stays[1] = [room |-> room, from |-> form.checkIn,
                                 to |-> form.splitDate, rate |-> RateOf[room]]
          /\ request.stays[2] = [room |-> second, from |-> form.splitDate,
                                 to |-> form.checkOut, rate |-> RateOf[second]]
      BY <3>2 DEF Segment
    <3> QED
      BY <2>2, <3>1, <3>3 DEF SplitStayOK, SplitReady, SplitDateInside, WizardTypeOK, Forms,
         Dates, Days, Blank
  <2> QED
    BY <2>1, <2>2
<1>4. request.dayUse /\ request.checkIn # Blank => request.checkIn = request.checkOut
  OBVIOUS
<1> QED
  BY <1>1, <1>2, <1>3, <1>4

\* What can be sent passes the API's checks of the options and the segments,
\* whatever was pressed before and whenever the lists of rooms arrived.
THEOREM SendsCoherent == WizardSpec => []SentIsCoherent
<1>1. WizardSpec => []Coherence
  BY StartsEmpty, WizardStep, PTL DEF WizardSpec
<1> QED
  BY <1>1, CoherentWhenSent, PTL

\* The total follows from the options excluding one another: a split stay is
\* neither billed by cycles nor a day use.
LEMMA TotalWhenSent == Coherence => TotalAgrees
<1> SUFFICES ASSUME Coherence, CanSubmit, form.checkIn # Blank, form.checkOut # Blank,
                    StayDatesOK(request)
             PROVE request.total = StayTotal(request)
  BY DEF TotalAgrees, request, Payload
<1>1. /\ request.purpose = form.purpose /\ request.dayUse = form.dayUse
      /\ request.checkIn = form.checkIn /\ request.checkOut = form.checkOut
      /\ request.total = TotalAmount(form, room, second)
  BY DEF request, Payload
<1>2. CASE NonRevenue(form.purpose)
  BY <1>1, <1>2 DEF TotalAmount, StayTotal
<1>3. ASSUME ~NonRevenue(form.purpose), form.split PROVE request.total = StayTotal(request)
  <2>1. request.stays = <<Segment(room, form.checkIn, form.splitDate),
                          Segment(second, form.splitDate, form.checkOut)>>
    BY <1>3 DEF request, Payload, SplitStayPayload
  <2>2. /\ request.stays[1].to - request.stays[1].from = form.splitDate - form.checkIn
        /\ request.stays[2].to - request.stays[2].from = form.checkOut - form.splitDate
        /\ request.stays[1].rate = RateOf[room] /\ request.stays[2].rate = RateOf[second]
    BY <2>1 DEF Segment
  <2>3. /\ CalendarNights(form.checkIn, form.splitDate) = form.splitDate - form.checkIn
        /\ CalendarNights(form.splitDate, form.checkOut) = form.checkOut - form.splitDate
    BY <1>3 DEF Coherence, PairIsReady, CanSubmit, SplitReady, SplitDateInside, CalendarNights
  <2>4. TotalAmount(form, room, second) = StayTotal(request)
    BY <1>1, <1>3, <2>1, <2>2, <2>3 DEF TotalAmount, RackTotal, StayTotal
  <2> QED
    BY <1>1, <2>4
<1>4. ASSUME ~NonRevenue(form.purpose), ~form.split PROVE request.total = StayTotal(request)
  <2>1. /\ request.stays = <<>> /\ request.rate = RateOf[room]
        /\ request.cycle = IF form.dayUse THEN "NIGHTLY" ELSE form.cycle
    BY <1>4 DEF request, Payload
  <2>2. room \in Rooms
    BY DEF Coherence, PairIsReady, CanSubmit
  <2>3. RateOf[room] \in Nat
    BY <2>2, WizardAssumption
  <2>4. form.dayUse => form.cycle = "NIGHTLY"
    BY DEF Coherence, OptionsExclude
  <2>5. TotalAmount(form, room, second) = StayTotal(request)
    BY <1>1, <1>4, <2>1, <2>3, <2>4 DEF TotalAmount, RackTotal, StayTotal, CountBillingCycles,
       ApiCountBillingCycles
  <2> QED
    BY <1>1, <2>5
<1> QED
  BY <1>2, <1>3, <1>4

\* What the clerk reads out is what the API would charge for the stay.
THEOREM TotalIsTheServers == WizardSpec => []TotalAgrees
<1>1. WizardSpec => []Coherence
  BY StartsEmpty, WizardStep, PTL DEF WizardSpec
<1> QED
  BY <1>1, TotalWhenSent, PTL


-----------------------------------------------------------------------------
(* The screens' tables *)

\* The API knows the step, and whatever the step changes of what the screen
\* shows is read again after it, or is not seen any more.
StepFits(name, client, act) ==
    /\ act \in DOMAIN client.service
    /\ \A q \in client.service[act].changes \cap DOMAIN client.hooks.leavesOut :
         \/ q \in client.hooks.invalidates[act]
         \/ <<act, q>> \in LeftBehind \/ <<name, act>> \in LeavesPage

\* What a panel offers fits; of a status it has read it offers what the API
\* takes of it, and of a row that is not there nothing.
PanelFits(name, client, panel) ==
    /\ "NONE" \notin DOMAIN panel.buttons
    /\ \A act \in panel.forms : StepFits(name, client, act)
    /\ \A status \in DOMAIN panel.buttons : \A act \in panel.buttons[status] :
        /\ StepFits(name, client, act)
        /\ \/ status \in client.service[act].from \cup client.service[act].same
           \/ <<name, act, status>> \in OfferedAnyway \/ status \in Unread

\* The tables of one screen agree.
StatusesFit(client) ==
    \A act \in DOMAIN client.service :
        \A s \in client.service[act].from :
            s \notin Unread /\ \A t \in client.service[act].to[s] : t \notin Unread
ScreenFits(name, client) ==
    /\ \A p \in DOMAIN client.panels : PanelFits(name, client, client.panels[p])
    /\ StatusesFit(client)

\* Housekeeping, whose statuses are looked at and not listed.
LEMMA HousekeepingFits == ScreenFits("housekeeping", HousekeepingClient)
  <1> DEFINE client == HousekeepingClient
             board == {"housekeeping-board"}
             offers == [s \in AnyRoom |->
                  (IF s \in Asking({"DND"}) THEN {} ELSE {"setDnd"})
                  \cup (IF s \in Asking({"MUR"}) THEN {} ELSE {"setMur"})
                  \cup (IF s \in Asking({"NONE"}) THEN {} ELSE {"clearRequest"})
                  \cup (IF s \in Stage({"DIRTY"}) \ Asking({"DND"}) THEN {"markClean"} ELSE {})]
             inspects == [s \in Stage({"CLEAN"}) |-> {"inspect"}]
             steps == {"markClean", "setDnd", "setMur", "clearRequest", "inspect"}
             free == AnyRoom \ (Shut \cup Asking({"DND"}))
             panels == <<Panel("housekeeping-board", offers, {}, {}),
                         Panel("housekeeping-board", inspects, {}, {})>>
  <1>1. AnyRoom \cap {"NONE", "?", "LOADING"} = {}
    BY DEF AnyRoom, RoomLooks
  <1>2. /\ Stage({"CLEAN"}) \subseteq AnyRoom /\ Stage({"DIRTY"}) \subseteq AnyRoom
        /\ Shut \subseteq AnyRoom
    BY DEF Stage, Shut
  <1>3. client.panels = panels
    BY DEF HousekeepingClient, HkRoomCard, HkInspectPanel, Panel
  <1>12. /\ DOMAIN RoomSteps = steps
         /\ \A act \in steps :
              /\ RoomSteps[act].changes = board /\ RoomSteps[act].from \subseteq AnyRoom
              /\ \A s \in RoomSteps[act].from : RoomSteps[act].to[s] \subseteq AnyRoom
    <2>1. \A s, t : Restaged(s, t) \subseteq AnyRoom /\ Requested(s, t) \subseteq AnyRoom
      BY DEF Restaged, Requested
    <2> QED
      BY <1>2, <2>1 DEF RoomSteps, RequestStep, Step
  <1>13. /\ DOMAIN OtherRoomSteps = {"updateStatus", "update", "checkOut"}
         /\ \A act \in DOMAIN OtherRoomSteps :
              /\ OtherRoomSteps[act].changes = board /\ OtherRoomSteps[act].from \subseteq AnyRoom
              /\ \A s \in OtherRoomSteps[act].from : OtherRoomSteps[act].to[s] \subseteq AnyRoom
    <2>1. "DIRTY" \in AnyRoom
      BY DEF AnyRoom, RoomLooks
    <2> QED
      BY <2>1 DEF OtherRoomSteps, Step, Takes, TakesOrSame
  <1>4. /\ DOMAIN client.service = steps \cup {"updateStatus", "update", "checkOut"}
        /\ \A act \in DOMAIN client.service :
             /\ client.service[act].changes = board /\ client.service[act].from \subseteq AnyRoom
             /\ \A s \in client.service[act].from : client.service[act].to[s] \subseteq AnyRoom
    BY <1>12, <1>13 DEF HousekeepingClient, Both
  <1>5. /\ client.service["markClean"].from = free \cap Stage({"DIRTY"})
        /\ client.service["setDnd"].from = AnyRoom \ Shut
        /\ client.service["setMur"].from = AnyRoom \ Shut
        /\ client.service["clearRequest"].from = AnyRoom
        /\ client.service["inspect"].from = Stage({"CLEAN"}) \ Shut
    BY DEF HousekeepingClient, RoomSteps, RequestStep, Step, Both
  <1>6. \A act \in steps : StepFits("housekeeping", client, act)
    <2>1. /\ client.hooks.invalidates = [act \in steps |-> board]
          /\ DOMAIN client.hooks.leavesOut = board
      BY DEF HousekeepingClient, RoomHooks, Hooks, Whole, Each
    <2> QED
      BY <1>4, <2>1 DEF StepFits
  <1>7. \A act \in {"markClean", "setDnd", "setMur", "inspect"}, s \in Shut :
            <<"housekeeping", act, s>> \in OfferedAnyway
    BY DEF OfferedAnyway, OfferedRegardless
  <1>8. PanelFits("housekeeping", client, Panel("housekeeping-board", offers, {}, {}))
    <2>1. /\ DOMAIN offers = AnyRoom
          /\ \A s \in AnyRoom : \A act \in offers[s] :
               /\ act \in {"setDnd", "setMur", "clearRequest", "markClean"}
               /\ act = "markClean" => s \in Stage({"DIRTY"}) \ Asking({"DND"})
      OBVIOUS
    <2> HIDE DEF offers, client
    <2>2. \A s \in AnyRoom : \A act \in offers[s] :
             s \in client.service[act].from \/ <<"housekeeping", act, s>> \in OfferedAnyway
      BY <1>5, <1>7, <2>1
    <2> QED
      BY <1>1, <1>6, <2>1, <2>2 DEF PanelFits, Panel
  <1>9. PanelFits("housekeeping", client, Panel("housekeeping-board", inspects, {}, {}))
    <2> HIDE DEF client
    <2>1. \A s \in Stage({"CLEAN"}) :
             s \in client.service["inspect"].from \/ <<"housekeeping", "inspect", s>> \in OfferedAnyway
      BY <1>5, <1>7
    <2> QED
      BY <1>1, <1>2, <1>6, <2>1 DEF PanelFits, Panel
  <1>10. StatusesFit(client)
    <2> HIDE DEF client
    <2> QED
      BY <1>1, <1>4 DEF StatusesFit, Unread
  <1>11. /\ DOMAIN client.panels = {1, 2}
         /\ client.panels[1] = Panel("housekeeping-board", offers, {}, {})
         /\ client.panels[2] = Panel("housekeeping-board", inspects, {}, {})
    BY <1>3
  <1> HIDE DEF client, offers, inspects
  <1>14. \A p \in DOMAIN client.panels : PanelFits("housekeeping", client, client.panels[p])
    BY <1>8, <1>9, <1>11
  <1>15. ScreenFits("housekeeping", client)
    BY <1>10, <1>14 DEF ScreenFits
  <1> QED
    BY <1>15 DEF client

LEMMA AllScreensFit == \A name \in DOMAIN AllScreens : ScreenFits(name, AllScreens[name])
  <1> USE DEF PanelFits, StatusesFit, StepFits, Unread, OfferedAnyway, OfferedRegardless,
              OfferedOnPages, LeftBehind, LeavesPage, Panel, Step, Takes, TakesOrSame, Adds,
              Edits, Refuses, NoButtons, Hooks, Whole, Each, Both
  <1>1. ScreenFits("items", LostFoundClient)
    BY DEF ScreenFits, LostFoundClient, ItemHooks, LostFoundItemCard, LostFoundRegisterForm,
           ItemService
  <1>2. ScreenFits("complaints", ComplaintsClient)
    BY DEF ScreenFits, ComplaintsClient, ComplaintHooks, ComplaintCard, ComplaintLogForm,
           ComplaintService
  <1>3. ScreenFits("feedback", FeedbackClient)
    BY DEF ScreenFits, FeedbackClient, FeedbackHooks, FeedbackService
  <1>4. ScreenFits("messages", MessagesClient)
    BY DEF ScreenFits, MessagesClient, MessageHooks, MessageService
  <1>5. ScreenFits("staysKeys", DigitalKeyPanel)
    BY DEF ScreenFits, DigitalKeyPanel, KeyHooks, KeyService
  <1>6. ScreenFits("keys", DigitalKeysClient)
    BY DEF ScreenFits, DigitalKeysClient, KeyHooks, KeyService, DigitalKeyCard, IssueForm
  <1>7. ScreenFits("calls", WakeUpCallsClient)
    BY DEF ScreenFits, WakeUpCallsClient, CallHooks, CallService
  <1>8. ScreenFits("staysCalls", WakeUpCallPanel)
    BY DEF ScreenFits, WakeUpCallPanel, CallHooks, CallService
  <1>9. ScreenFits("reports", Tm30ReportsClient)
    BY DEF ScreenFits, Tm30ReportsClient, ReportHooks, ReportService, Tm30ReportCard
  <1>10. ScreenFits("cards", RegistrationCardPanel)
    BY DEF ScreenFits, RegistrationCardPanel, CardHooks, CardService
  <1>11. ScreenFits("signing", RegistrationCardSignClient)
    BY DEF ScreenFits, RegistrationCardSignClient, CardHooks, CardService
  <1>12. ScreenFits("printing", RegistrationCardPrintClient)
    BY DEF ScreenFits, RegistrationCardPrintClient, CardHooks, CardService
  <1>13. ScreenFits("holds", CardPreauthsClient)
    BY DEF ScreenFits, CardPreauthsClient, PreauthHooks, PreauthService, CardPreauthList,
           HoldCardPreauthForm
  <1>14. ScreenFits("taxInvoices", TaxInvoicesClient)
    BY DEF ScreenFits, TaxInvoicesClient, TaxInvoiceHooks, TaxInvoiceService, TaxInvoiceList,
           IssueTaxInvoiceForm
  <1>15. ScreenFits("shifts", ShiftsClient)
    BY DEF ScreenFits, ShiftsClient, ShiftHooks, ShiftQueries, ShiftService, OpenShiftForm,
           CloseShiftForm, HandoverShiftForm, TodayShiftList
  <1>16. ScreenFits("yield", YieldClient)
    BY DEF ScreenFits, YieldClient, YieldHooks, YieldQueries, YieldService, RecommendationList,
           GenerateButton, CompetitorPanel
  <1>17. ScreenFits("blocks", BlocksClient)
    BY DEF ScreenFits, BlocksClient, BlockHooks, BlockService, CreateBlockForm, PickupPanel
  <1>18. ScreenFits("housekeeping", HousekeepingClient)
    BY HousekeepingFits
  <1>19. ScreenFits("ar", ArAccountsClient)
    <2> DEFINE client == ArAccountsClient
    <2>3. /\ PanelFits("ar", client, CreateArAccountForm)
          /\ PanelFits("ar", client, TransferFolioForm)
      BY DEF ArAccountsClient, ArHooks, ArQueries, ArService, CreateArAccountForm,
             TransferFolioForm
    <2>4. PanelFits("ar", client, ArInvoicePanel)
      BY DEF ArAccountsClient, ArHooks, ArQueries, ArService, ArInvoicePanel
    <2>5. client.panels = <<CreateArAccountForm, TransferFolioForm, ArInvoicePanel>>
      BY DEF ArAccountsClient
    <2>1. \A p \in DOMAIN client.panels : PanelFits("ar", client, client.panels[p])
      BY <2>3, <2>4, <2>5
    <2>2. StatusesFit(client)
      BY DEF ArAccountsClient, ArService
    <2> QED
      BY <2>1, <2>2 DEF ScreenFits
  <1>20. ScreenFits("agents", HardwareBridgeClient)
    BY DEF ScreenFits, HardwareBridgeClient, AgentHooks, AgentService, HbAgentsPanel
  <1>21. ScreenFits("rates", RatesClient)
    BY DEF ScreenFits, RatesClient, RateHooks, RateService, CreateRateForm, RateList
  <1>22. ScreenFits("partners", PartnerHotelsClient)
    BY DEF ScreenFits, PartnerHotelsClient, PartnerHooks, PartnerService,
           CreatePartnerHotelForm, PartnerHotelList
  <1>23. ScreenFits("exchangeRates", ExchangeRatesClient)
    BY DEF ScreenFits, ExchangeRatesClient, ExchangeRateHooks, ExchangeRateService,
           ExchangeRateForm, ExchangeRateList
  <1>24. ScreenFits("guests", GuestsClient)
    <2> DEFINE client == GuestsClient
    <2>1. \A p \in DOMAIN client.panels : PanelFits("guests", client, client.panels[p])
      BY DEF GuestsClient, GuestHooks, GuestTable, GuestFormDialog, GuestService
    <2>2. StatusesFit(client)
      BY DEF GuestsClient, GuestService
    <2> QED
      BY <2>1, <2>2 DEF ScreenFits
  <1>25. ScreenFits("guest", GuestDetailPage)
    <2> DEFINE client == GuestDetailPage
    <2>1. \A p \in DOMAIN client.panels : PanelFits("guest", client, client.panels[p])
      BY DEF GuestDetailPage, GuestPageHooks, GuestService
    <2>2. StatusesFit(client)
      BY DEF GuestDetailPage, GuestService
    <2> QED
      BY <2>1, <2>2 DEF ScreenFits
  <1>26. ScreenFits("properties", PropertiesPage)
    <2> DEFINE client == PropertiesPage
    <2>1. \A p \in DOMAIN client.panels : PanelFits("properties", client, client.panels[p])
      BY DEF PropertiesPage, PropertyHooks, PropertyCard, PropertyFormDialog,
             PropertyService
    <2>2. StatusesFit(client)
      BY DEF PropertiesPage, PropertyService
    <2> QED
      BY <2>1, <2>2 DEF ScreenFits
  <1>27. ScreenFits("roomTypes", RoomTypesPage)
    <2> DEFINE client == RoomTypesPage
    <2>1. \A p \in DOMAIN client.panels : PanelFits("roomTypes", client, client.panels[p])
      BY DEF RoomTypesPage, RoomTypeHooks, RoomTypeCard, RoomTypeService
    <2>2. StatusesFit(client)
      BY DEF RoomTypesPage, RoomTypeService
    <2> QED
      BY <2>1, <2>2 DEF ScreenFits
  <1>28. ScreenFits("room", RoomDetailPage)
    <2> DEFINE client == RoomDetailPage
    <2>1. \A p \in DOMAIN client.panels : PanelFits("room", client, client.panels[p])
      BY DEF RoomDetailPage, RoomPageService
    <2>2. StatusesFit(client)
      BY DEF RoomDetailPage, RoomPageService
    <2> QED
      BY <2>1, <2>2 DEF ScreenFits
  <1>29. ScreenFits("codes", TransactionCodesPage)
    <2> DEFINE client == TransactionCodesPage
    <2>1. \A p \in DOMAIN client.panels : PanelFits("codes", client, client.panels[p])
      BY DEF TransactionCodesPage, CodeHooks, CodeService, TransactionCodeDialog
    <2>2. StatusesFit(client)
      BY DEF TransactionCodesPage, CodeService
    <2> QED
      BY <2>1, <2>2 DEF ScreenFits
  <1>30. ScreenFits("reservation", ReservationDetailPage)
    <2> DEFINE client == ReservationDetailPage
    <2>1. PanelFits("reservation", client, ReservationDetailActions)
      BY DEF ReservationDetailPage, ReservationHooks, ReservationService, ReservationDetailActions
    <2>2. PanelFits("reservation", client, ReservationNoShowButton)
      BY DEF ReservationDetailPage, ReservationHooks, ReservationService, ReservationNoShowButton
    <2>3. PanelFits("reservation", client, WalkPanel)
      BY DEF ReservationDetailPage, ReservationHooks, ReservationService, WalkPanel
    <2>4. PanelFits("reservation", client, RoomMovePanel)
      BY DEF ReservationDetailPage, ReservationHooks, ReservationService, RoomMovePanel
    <2>5. StatusesFit(client)
      BY DEF ReservationDetailPage, ReservationService
    <2>6. client.panels = <<ReservationDetailActions, ReservationNoShowButton, WalkPanel,
                            RoomMovePanel>>
      BY DEF ReservationDetailPage
    <2> QED
      BY <2>1, <2>2, <2>3, <2>4, <2>5, <2>6 DEF ScreenFits
  <1>31. ScreenFits("folio", FolioDetail)
    <2> DEFINE client == FolioDetail
    <2>1. PanelFits("folio", client, FolioCheckoutBar)
      BY DEF FolioDetail, FolioHooks, FolioPostings, FolioClosing, FolioCheckoutBar
    <2>2. PanelFits("folio", client, TransactionsTable)
      BY DEF FolioDetail, FolioHooks, FolioPostings, FolioClosing, TransactionsTable,
             VoidTransactionDialog
    <2>3. PanelFits("folio", client, PostChargeDialog)
      BY DEF FolioDetail, FolioHooks, FolioPostings, FolioClosing, PostChargeDialog
    <2>4. PanelFits("folio", client, PostPaymentDialog)
      BY DEF FolioDetail, FolioHooks, FolioPostings, FolioClosing, PostPaymentDialog
    <2>5. StatusesFit(client)
      BY DEF FolioDetail, FolioPostings, FolioClosing
    <2>6. client.panels = <<FolioCheckoutBar, TransactionsTable, PostChargeDialog,
                            PostPaymentDialog>>
      BY DEF FolioDetail
    <2> QED
      BY <2>1, <2>2, <2>3, <2>4, <2>5, <2>6 DEF ScreenFits
  <1>32. ScreenFits("nightAudit", NightAuditPage)
    BY DEF ScreenFits, NightAuditPage, AuditHooks, AuditStatusPanel, AuditService
  <1> HIDE DEF PanelFits, StatusesFit, StepFits, Unread, OfferedAnyway, OfferedRegardless,
              OfferedOnPages, LeftBehind, LeavesPage, Panel, Step, Takes, TakesOrSame, Adds,
              Edits, Refuses, NoButtons, Hooks, Whole, Each, Both
  <1> QED
    BY <1>1, <1>2, <1>3, <1>4, <1>5, <1>6, <1>7, <1>8, <1>9, <1>10, <1>11, <1>12, <1>13,
       <1>14, <1>15, <1>16, <1>17, <1>18, <1>19, <1>20, <1>21, <1>22, <1>23, <1>24,
       <1>25, <1>26, <1>27, <1>28, <1>29, <1>30, <1>31, <1>32 DEF AllScreens

-----------------------------------------------------------------------------
(* The invariant of the screens *)

\* The columns of the state: what a list shows, the list, a call.
Cells == [Rows -> Statuses \cup {"NONE"}]
ListRow == [have : BOOLEAN, rows : Cells, at : Nat, stale : BOOLEAN,
            fetch : {"no", "asked", "read"}, got : Cells, gotAt : Nat]
CallRow == [phase : {"idle", "paused", "sent", "done", "refused", "declined"},
            step : Steps \cup {"none"}, row : Rows \cup {NoRow},
            seen : Statuses \cup {"NONE"} \cup Unread, since : Nat,
            found : Statuses \cup {"?"}, moved : Nat, wrote : Nat,
            online : BOOLEAN, held : BOOLEAN]
DeskTypes ==
    /\ screen \in Screens /\ query \in DOMAIN The.hooks.leavesOut
    /\ row \in [Rows -> Statuses] /\ writes \in Nat /\ own \in 0..writes
    /\ changed \in [Rows -> Nat]
    /\ online \in BOOLEAN /\ list \in ListRow /\ call \in [Calls -> CallRow]

\* What is shown or about to be shown is not older than the clerk's own change.
ListIsCurrent ==
    /\ list.have /\ list.fetch = "no" /\ ~list.stale => list.at >= own
    /\ list.fetch = "read" => list.gotAt >= own

\* A call is of a step that fits and of a button that was there, and a
\* refusal says why.
CallFits(k) ==
    /\ k.phase # "idle" => StepFits(screen, The, k.step)
    /\ k.phase \in {"paused", "sent", "refused"} /\ k.row # NoRow
         => \E p \in Panels : k.step \in ButtonsFor(p, k.seen)
    /\ k.phase = "refused" =>
         /\ k.row # NoRow /\ k.found \in Statuses
         /\ k.found \notin The.service[k.step].from \cup The.service[k.step].same
         /\ k.seen \in Unread \/ k.moved > k.since \/ k.seen \in {k.found, "NONE"}
    /\ k.wrote <= writes
CallsFit == \A c \in Calls : CallFits(call[c])

\* The invariant of the screens, but for what was seen and when.
Desk == DeskTypes /\ ListIsCurrent /\ CallsFit

\* What is shown, what is about to be, and what was shown when a call was
\* made tells of every row not written since as the API would tell of it now.
RowsAsOf(rows, at) ==
    at <= writes /\ \A r \in Rows : changed[r] <= at => rows[r] = Answer[r]
SeenAsOf(k) ==
    /\ k.since <= writes
    /\ k.phase \in {"paused", "sent"} /\ k.row # NoRow /\ k.seen \notin Unread
       /\ changed[k.row] <= k.since
         => k.seen = Answer[k.row]
AsItWas ==
    /\ list.at <= writes
    /\ list.have => RowsAsOf(list.rows, list.at)
    /\ list.fetch = "read" => RowsAsOf(list.got, list.gotAt)
    /\ \A c \in Calls : SeenAsOf(call[c])

-----------------------------------------------------------------------------
(* What the tables say of the screen that is open *)

\* The tables do not change, nor does the screen that is looked at.
LEMMA SameScreen ==
    ASSUME UNCHANGED <<screen, query>>
    PROVE  /\ The' = The /\ Steps' = Steps /\ Statuses' = Statuses /\ Panels' = Panels
           /\ Handmade' = Handmade /\ Cells' = Cells /\ ListRow' = ListRow /\ CallRow' = CallRow
           /\ \A k : StepFits(screen, The, k)' = StepFits(screen, The, k)
           /\ \A p, s : ButtonsFor(p, s)' = ButtonsFor(p, s)
  BY DEF The, Steps, Statuses, Outcomes, Panels, Handmade, Cells, ListRow, CallRow, StepFits, ButtonsFor

LEMMA TheFits ==
    ASSUME screen \in Screens
    PROVE  /\ ScreenFits(screen, The)
           /\ Statuses \cap Unread = {}
           /\ \A act \in Steps : \A s \in The.service[act].from :
                The.service[act].to[s] \subseteq Statuses
  <1>1. ScreenFits(screen, The)
    BY AllScreensFit, ScreensAssumption DEF The
  <1>2. \A act \in Steps :
          \A s \in The.service[act].from :
             s \notin Unread /\ \A t \in The.service[act].to[s] : t \notin Unread
    BY <1>1 DEF ScreenFits, StatusesFit, Steps
  <1> QED
    BY <1>1, <1>2 DEF Statuses, Outcomes

LEMMA OfferedFits ==
    ASSUME screen \in Screens, NEW p \in Panels
    PROVE  /\ \A act \in The.panels[p].forms : StepFits(screen, The, act)
           /\ \A s : \A act \in ButtonsFor(p, s) :
                /\ StepFits(screen, The, act)
                /\ \/ s \in Unread \/ <<screen, act, s>> \in OfferedAnyway
                   \/ s \in The.service[act].from \cup The.service[act].same
           /\ ButtonsFor(p, "NONE") = {}
  <1>1. ScreenFits(screen, The)
    BY TheFits
  <1>2. \A s : \A act \in ButtonsFor(p, s) :
            \E t \in DOMAIN The.panels[p].buttons :
                act \in The.panels[p].buttons[t] /\ (s = "?" \/ s = t)
    BY DEF ButtonsFor
  <1>3. ButtonsFor(p, "NONE") = {}
    BY <1>1 DEF ScreenFits, PanelFits, Panels, ButtonsFor
  <1> QED
    BY <1>1, <1>2, <1>3 DEF ScreenFits, PanelFits, Panels, Unread

-----------------------------------------------------------------------------
(* A call *)

\* A row of a call with other values in some columns.
LEMMA CallMade ==
    ASSUME DeskTypes, NEW c \in Calls, NEW p \in Panels, NEW act, NEW r \in Rows \cup {NoRow},
           NEW seen,
           StepFits(screen, The, act), seen \in Statuses \cup {"NONE"} \cup Unread,
           r # NoRow => act \in ButtonsFor(p, seen),
           CallsFit, Make(c, act, r, seen)
    PROVE  DeskTypes' /\ CallsFit'
  <1> DEFINE k == call'[c]
  <1>0. UNCHANGED <<screen, query, row, writes, changed, online, own, list>>
    BY DEF Make
  <1>1. PICK phase \in {"paused", "sent"} :
           /\ call' = [call EXCEPT ![c] = k]
           /\ k = [phase |-> phase, step |-> act, row |-> r, seen |-> seen, since |-> Due,
                   found |-> "?", moved |-> 0, wrote |-> 0, online |-> online, held |-> TRUE]
    BY DEF Make, DeskTypes, NoCall
  <1> HIDE DEF k
  <1>2. k \in CallRow
    <2>1. /\ act \in Steps \cup {"none"} /\ seen \in Statuses \cup {"NONE"} \cup Unread
          /\ online \in BOOLEAN /\ Due \in Nat
      BY DEF DeskTypes, StepFits, Steps, Due, ListRow
    <2> QED
      BY ONLY <1>1, <2>1, r \in Rows \cup {NoRow} DEF CallRow
  <1>3. CallFits(k)
    BY <1>1 DEF CallFits, DeskTypes
  <1>4. DeskTypes'
    BY <1>0, <1>1, <1>2, SameScreen DEF DeskTypes
  <1>5. CallsFit'
    BY <1>0, <1>1, <1>3, SameScreen DEF CallsFit, CallFits, DeskTypes
  <1> QED
    BY <1>4, <1>5

LEMMA NoCallFits ==
    ASSUME DeskTypes PROVE NoCall \in CallRow /\ CallFits(NoCall)
  <1>1. NoCall \in CallRow
    BY DEF NoCall, CallRow, Unread
  <1>2. CallFits(NoCall)
    BY DEF NoCall, CallFits, DeskTypes
  <1> QED
    BY <1>1, <1>2

\* Changes elsewhere do not touch what a call rests on.
LEMMA StillFits ==
    ASSUME DeskTypes, UNCHANGED <<screen, query>>, writes' \in Nat, writes' >= writes,
           NEW k \in CallRow, CallFits(k)
    PROVE  CallFits(k)'
  <1>1. k.wrote \in Nat
    BY DEF CallRow
  <1> QED
    BY <1>1, SameScreen DEF CallFits, DeskTypes

LEMMA CallsStay ==
    ASSUME DeskTypes, CallsFit, UNCHANGED <<screen, query, call>>, writes' \in Nat,
           writes' >= writes
    PROVE  call' \in [Calls -> CallRow'] /\ CallsFit'
  <1>1. \A c \in Calls : call[c] \in CallRow /\ CallFits(call[c])
    BY DEF DeskTypes, CallsFit
  <1>2. \A c \in Calls : CallFits(call[c])'
    BY <1>1, StillFits
  <1> QED
    BY <1>1, <1>2, SameScreen DEF DeskTypes, CallsFit

LEMMA CallReplaced ==
    ASSUME DeskTypes, CallsFit, UNCHANGED <<screen, query>>, writes' \in Nat, writes' >= writes,
           NEW c \in Calls, NEW k \in CallRow, CallFits(k)', call' = [call EXCEPT ![c] = k]
    PROVE  call' \in [Calls -> CallRow'] /\ CallsFit'
  <1>1. \A d \in Calls : call[d] \in CallRow /\ CallFits(call[d])
    BY DEF DeskTypes, CallsFit
  <1>2. \A d \in Calls : CallFits(call[d])'
    BY <1>1, StillFits
  <1>3. \A d \in Calls : call'[d] = IF d = c THEN k ELSE call[d]
    BY DEF DeskTypes
  <1>4. call' \in [Calls -> CallRow']
    BY <1>1, SameScreen DEF DeskTypes
  <1>5. ASSUME NEW d \in Calls PROVE CallFits(call[d])'
    <2>1. CASE d = c
      BY <2>1, <1>3 DEF CallFits
    <2>2. CASE d # c
      BY <2>2, <1>3, <1>2 DEF CallFits
    <2> QED
      BY <2>1, <2>2
  <1> QED
    BY <1>4, <1>5 DEF CallsFit

\* An answer on its way back.
LEMMA AnswerFits ==
    ASSUME DeskTypes, UNCHANGED <<screen, query>>, writes' \in Nat, writes' >= writes,
           NEW k \in CallRow, CallFits(k), k.phase = "sent",
           NEW phase \in {"done", "declined"}, NEW wrote \in 0..writes',
           NEW s, s = Served(k, phase, wrote)
    PROVE  s \in CallRow /\ CallFits(s)'
  <1>1. s = [phase |-> phase, step |-> k.step, row |-> NoRow, seen |-> "?", since |-> 0,
             found |-> k.found, moved |-> k.moved, wrote |-> wrote, online |-> k.online,
             held |-> k.held]
    BY Zenon DEF Served, CallRow
  <1>2. /\ k.step \in Steps \cup {"none"} /\ k.found \in Statuses \cup {"?"}
        /\ k.online \in BOOLEAN /\ k.held \in BOOLEAN /\ wrote \in Nat /\ k.moved \in Nat
        /\ "?" \in Statuses \cup {"NONE"} \cup Unread /\ NoRow \in Rows \cup {NoRow}
        /\ phase \in {"idle", "paused", "sent", "done", "refused", "declined"}
    BY DEF CallRow, Unread
  <1>3. s \in CallRow
    BY ONLY <1>1, <1>2 DEF CallRow
  <1>4. StepFits(screen, The, k.step)
    BY DEF CallFits
  <1>5. /\ s.phase = phase /\ s.step = k.step /\ s.wrote = wrote
    BY <1>1
  <1>6. CallFits(s)'
    BY <1>4, <1>5, SameScreen DEF CallFits
  <1> QED
    BY <1>3, <1>6

\* A call that is sent, refused or not seen any more.
LEMMA PhaseFits ==
    ASSUME DeskTypes, UNCHANGED <<screen, query, writes>>, NEW k \in CallRow, CallFits(k),
           NEW found \in Statuses \cup {"?"}, NEW moved \in Nat, NEW held \in BOOLEAN,
           NEW phase \in {k.phase, "sent", "refused"},
           phase # k.phase => k.phase \in {"paused", "sent"},
           phase = "refused" =>
             /\ k.row # NoRow /\ found \in Statuses
             /\ found \notin The.service[k.step].from \cup The.service[k.step].same
             /\ k.seen \in Unread \/ moved > k.since \/ k.seen \in {found, "NONE"},
           NEW s, s = [k EXCEPT !.phase = phase, !.found = found, !.moved = moved, !.held = held]
    PROVE  s \in CallRow /\ CallFits(s)'
  <1>1. s = [phase |-> phase, step |-> k.step, row |-> k.row, seen |-> k.seen,
             since |-> k.since, found |-> found, moved |-> moved, wrote |-> k.wrote,
             online |-> k.online, held |-> held]
    BY DEF CallRow
  <1>2. /\ k.step \in Steps \cup {"none"} /\ k.row \in Rows \cup {NoRow}
        /\ k.seen \in Statuses \cup {"NONE"} \cup Unread
        /\ k.online \in BOOLEAN /\ k.wrote \in Nat /\ k.since \in Nat
        /\ phase \in {"idle", "paused", "sent", "done", "refused", "declined"}
    BY DEF CallRow
  <1>3. s \in CallRow
    BY ONLY <1>1, <1>2, found \in Statuses \cup {"?"}, moved \in Nat, held \in BOOLEAN
       DEF CallRow
  <1>5. /\ s.phase = phase /\ s.step = k.step /\ s.row = k.row /\ s.seen = k.seen
        /\ s.since = k.since /\ s.found = found /\ s.moved = moved /\ s.wrote = k.wrote
    BY <1>1
  <1>6. CallFits(s)'
    BY <1>5, SameScreen DEF CallFits, DeskTypes
  <1> QED
    BY <1>3, <1>6

-----------------------------------------------------------------------------
(* The rows and the list *)

LEMMA RowChanged ==
    ASSUME DeskTypes, NEW act \in Steps, NEW r \in Rows, row[r] \in The.service[act].from,
           Change(act, r)
    PROVE  /\ row' \in [Rows -> Statuses] /\ writes' = writes + 1
           /\ changed' \in [Rows -> Nat]
  BY TheFits DEF Change, DeskTypes

LEMMA ListRows ==
    ASSUME DeskTypes
    PROVE  /\ Unmade \in Cells /\ Answer \in Cells /\ NoList \in ListRow
           /\ \A l \in ListRow : Asked(l) \in ListRow /\ Stopped(l) \in ListRow
  <1>1. Unmade \in Cells /\ Answer \in Cells
    BY DEF Unmade, Answer, Cells, DeskTypes
  <1>2. NoList \in ListRow
    BY <1>1 DEF NoList, ListRow
  <1>3. \A l \in ListRow : Asked(l) \in ListRow /\ Stopped(l) \in ListRow
    BY <1>1 DEF Asked, Stopped, ListRow
  <1> QED
    BY <1>1, <1>2, <1>3

\* Calls that nobody waits for.
LEMMA UnseenFits ==
    ASSUME DeskTypes, UNCHANGED <<screen, query, writes>>,
           NEW calls \in [Calls -> CallRow], \A c \in Calls : CallFits(calls[c]),
           call' = Unseen(calls)
    PROVE  call' \in [Calls -> CallRow'] /\ CallsFit'
  <1>1. ASSUME NEW c \in Calls PROVE call'[c] \in CallRow /\ CallFits(call[c])'
    <2> DEFINE k == calls[c]
    <2>1. k \in CallRow /\ CallFits(k)
      OBVIOUS
    <2>2. call'[c] = [k EXCEPT !.held = FALSE]
      BY DEF Unseen
    <2> HIDE DEF k
    <2>3. /\ k.phase \in {k.phase, "sent", "refused"} /\ k.found \in Statuses \cup {"?"}
          /\ k.moved \in Nat
      BY <2>1 DEF CallRow
    <2>4. call'[c] =
            [k EXCEPT !.phase = k.phase, !.found = k.found, !.moved = k.moved, !.held = FALSE]
      BY <2>1, <2>2 DEF CallRow
    <2>5. k.phase = "refused" =>
             /\ k.row # NoRow /\ k.found \in Statuses
             /\ k.found \notin The.service[k.step].from \cup The.service[k.step].same
             /\ k.seen \in Unread \/ k.moved > k.since \/ k.seen \in {k.found, "NONE"}
      BY <2>1 DEF CallFits
    <2>6. ASSUME NEW s, s = [k EXCEPT !.phase = k.phase, !.found = k.found, !.moved = k.moved,
                                      !.held = FALSE]
          PROVE  s \in CallRow /\ CallFits(s)'
      BY <2>1, <2>3, <2>5, <2>6, PhaseFits
    <2> QED
      BY <2>4, <2>6 DEF CallFits
  <1>2. call' = [c \in Calls |-> call'[c]]
    BY DEF Unseen
  <1> QED
    BY <1>1, <1>2, SameScreen DEF CallsFit

-----------------------------------------------------------------------------
(* The clerk *)

LEMMA ClickKeeps ==
    ASSUME Desk, NEW c \in Calls, Click(c) \/ FillForm(c) PROVE Desk'
  <1>1. screen \in Screens /\ DeskTypes /\ CallsFit
    BY DEF Desk, DeskTypes
  <1>2. ASSUME NEW p \in Panels, NEW act, NEW r \in Rows \cup {NoRow},
           NEW seen,
               seen \in Statuses \cup {"NONE"} \cup Unread, StepFits(screen, The, act),
               r # NoRow => act \in ButtonsFor(p, seen), Make(c, act, r, seen)
        PROVE  Desk'
    <2>1. DeskTypes' /\ CallsFit'
      BY <1>1, <1>2, CallMade
    <2>2. UNCHANGED <<list, own>>
      BY <1>2 DEF Make
    <2> QED
      BY <2>1, <2>2 DEF Desk, ListIsCurrent
  <1>3. CASE Click(c)
    <2>1. PICK p \in Panels, r \in Rows : \E s \in Shown(p, r) : \E act \in ButtonsFor(p, s) :
              Make(c, act, r, s)
      BY <1>3 DEF Click
    <2>2. PICK seen \in Shown(p, r) : \E act \in ButtonsFor(p, seen) : Make(c, act, r, seen)
      BY <2>1
    <2>3. PICK act \in ButtonsFor(p, seen) : Make(c, act, r, seen)
      BY <2>2
    <2>4. seen \in Statuses \cup {"NONE"} \cup Unread
      BY <1>1 DEF Shown, DeskTypes, ListRow, Cells, Unread
    <2>5. StepFits(screen, The, act)
      BY <1>1, OfferedFits
    <2> QED
      BY <1>2, <2>3, <2>4, <2>5
  <1>4. CASE FillForm(c)
    <2>1. PICK p \in Panels : \E act \in The.panels[p].forms : Make(c, act, NoRow, "?")
      BY <1>4 DEF FillForm
    <2>2. PICK act \in The.panels[p].forms : Make(c, act, NoRow, "?")
      BY <2>1
    <2>3. StepFits(screen, The, act) /\ "?" \in Statuses \cup {"NONE"} \cup Unread
      BY <1>1, OfferedFits DEF Unread
    <2>4. NoRow \in Rows \cup {NoRow}
      OBVIOUS
    <2> QED
      BY <1>2, <2>2, <2>3, <2>4
  <1> QED
    BY <1>3, <1>4

LEMMA LeaveKeeps ==
    ASSUME Desk, LeaveScreen PROVE Desk'
  <1>1. UNCHANGED <<screen, query, row, writes, changed, online, own>> /\ call' = Unseen(call)
    BY DEF LeaveScreen
  <1>2. call' \in [Calls -> CallRow'] /\ CallsFit'
    BY <1>1, UnseenFits DEF Desk, DeskTypes, CallsFit
  <1>3. list' = NoList \/ list' = list
    BY DEF LeaveScreen
  <1>4. list' \in ListRow /\ ListIsCurrent'
    <2>1. CASE list' = NoList
      BY <2>1, ListRows DEF Desk, ListIsCurrent, NoList
    <2>2. CASE list' = list
      BY <1>1, <2>2 DEF Desk, DeskTypes, ListIsCurrent
    <2> QED
      BY <1>3, <2>1, <2>2
  <1> QED
    BY <1>1, <1>2, <1>4, SameScreen DEF Desk, DeskTypes

LEMMA ReloadKeeps ==
    ASSUME Desk, Reload PROVE Desk'
  <1>1. UNCHANGED <<screen, query, row, writes, changed, online>> /\ own' = 0
    BY DEF Reload
  <1>2. call' = [c \in Calls |-> NoCall]
    BY DEF Reload
  <1>3. NoCall \in CallRow /\ CallFits(NoCall)
    BY NoCallFits DEF Desk
  <1>4. CallFits(NoCall)'
    BY <1>1, <1>3, StillFits DEF Desk, DeskTypes
  <1>5. call' \in [Calls -> CallRow'] /\ CallsFit'
    BY <1>1, <1>2, <1>3, <1>4, SameScreen DEF CallsFit, CallFits
  <1>6. PICK kept \in {Stopped(list), NoList} : list' = IF kept.stale THEN Asked(kept) ELSE kept
    BY DEF Reload
  <1>7. list' \in ListRow
    BY <1>6, ListRows DEF Desk, DeskTypes
  <1>8. ListIsCurrent'
    BY <1>1, <1>7 DEF ListIsCurrent, ListRow
  <1> QED
    BY <1>1, <1>5, <1>7, <1>8, SameScreen DEF Desk, DeskTypes

-----------------------------------------------------------------------------
(* The API *)

LEMMA ServeKeeps ==
    ASSUME Desk, AsItWas, NEW c \in Calls,
           ServeChange(c) \/ ServeSame(c) \/ Refuse(c) \/ Decline(c) \/ Resume(c)
    PROVE  Desk'
  <1> DEFINE k == call[c]
  <1>1. k \in CallRow /\ CallFits(k) /\ DeskTypes /\ CallsFit
    BY DEF Desk, DeskTypes, CallsFit
  <1>2. UNCHANGED <<screen, query, online, list, own>>
    BY DEF ServeChange, ServeSame, Refuse, Decline, Resume
  <1>3. ASSUME NEW s \in CallRow, CallFits(s)', call' = [call EXCEPT ![c] = s],
               row' \in [Rows -> Statuses], changed' \in [Rows -> Nat],
               writes' \in Nat, writes' >= writes
        PROVE  Desk'
    <2>1. call' \in [Calls -> CallRow'] /\ CallsFit'
      BY <1>1, <1>2, <1>3, CallReplaced
    <2>2. DeskTypes'
      BY <1>1, <1>2, <1>3, <2>1, SameScreen DEF DeskTypes
    <2> QED
      BY <1>2, <2>1, <2>2 DEF Desk, ListIsCurrent
  <1> HIDE DEF k
  <1>4. CASE ServeChange(c)
    <2>1. PICK r \in Rows : row[r] \in The.service[k.step].from /\ Change(k.step, r)
      BY <1>1, <1>4 DEF ServeChange, About, CallRow, k
    <2>2. k.phase = "sent" /\ call' = [call EXCEPT ![c] = Served(k, "done", writes')]
      BY <1>4 DEF ServeChange, k
    <2>3. k.step \in Steps
      BY <1>1, <2>2 DEF CallFits, StepFits, Steps
    <2>4. /\ row' \in [Rows -> Statuses] /\ writes' \in Nat /\ writes' >= writes
          /\ writes' \in 0..writes' /\ changed' \in [Rows -> Nat]
      BY <1>1, <2>1, <2>3, RowChanged DEF DeskTypes
    <2>5. ASSUME NEW s, s = Served(k, "done", writes') PROVE s \in CallRow /\ CallFits(s)'
      BY <1>1, <1>2, <2>2, <2>4, <2>5, AnswerFits
    <2> QED
      BY <1>3, <2>2, <2>4, <2>5
  <1>5. CASE ServeSame(c) \/ Decline(c)
    <2>1. PICK phase \in {"done", "declined"} : call' = [call EXCEPT ![c] = Served(k, phase, 0)]
      BY <1>5 DEF ServeSame, Decline, k
    <2>2. k.phase = "sent" /\ UNCHANGED <<row, writes, changed>>
      BY <1>5 DEF ServeSame, Decline, k
    <2>3. /\ row' \in [Rows -> Statuses] /\ writes' \in Nat /\ writes' >= writes
          /\ 0 \in 0..writes' /\ changed' \in [Rows -> Nat]
      BY <1>1, <2>2 DEF DeskTypes
    <2>4. ASSUME NEW s, s = Served(k, phase, 0) PROVE s \in CallRow /\ CallFits(s)'
      BY <1>1, <1>2, <2>2, <2>3, <2>4, AnswerFits
    <2> QED
      BY <1>3, <2>1, <2>3, <2>4
  <1>6. CASE Refuse(c)
    <2> DEFINE answer == [k EXCEPT !.phase = "refused", !.found = row[k.row],
                                   !.moved = changed[k.row], !.held = k.held]
    <2>1. /\ call' = [call EXCEPT ![c].phase = "refused", ![c].found = row[k.row],
                                  ![c].moved = changed[k.row]]
          /\ k.phase = "sent" /\ k.row # NoRow
          /\ row[k.row] \notin The.service[k.step].from \cup The.service[k.step].same
          /\ UNCHANGED <<row, writes, changed>>
      BY <1>6 DEF Refuse, k
    <2>2. /\ k.row \in Rows /\ row[k.row] \in Statuses /\ changed[k.row] \in Nat
          /\ k.held \in BOOLEAN /\ k.since \in Nat
      BY <1>1, <2>1 DEF DeskTypes, CallRow
    <2>3. call' = [call EXCEPT ![c] = answer]
      BY <1>1, <2>1 DEF DeskTypes, CallRow, k
    <2>6. k.seen \in Unread \/ changed[k.row] > k.since \/ k.seen \in {row[k.row], "NONE"}
      <3>1. k.seen \notin Unread /\ changed[k.row] <= k.since => k.seen = Answer[k.row]
        BY <2>1 DEF AsItWas, SeenAsOf, k
      <3>2. Answer[k.row] \in {row[k.row], "NONE"}
        BY <2>2 DEF Answer
      <3> QED
        BY <2>2, <3>1, <3>2
    <2>4. ASSUME NEW s, s = answer PROVE s \in CallRow /\ CallFits(s)'
      <3>1. "refused" \in {k.phase, "sent", "refused"} /\ row[k.row] \in Statuses \cup {"?"}
        BY <2>2
      <3> QED
        BY <1>1, <1>2, <2>1, <2>2, <2>4, <2>6, <3>1, PhaseFits
    <2> HIDE DEF answer
    <2>5. /\ row' \in [Rows -> Statuses] /\ writes' \in Nat /\ writes' >= writes
          /\ changed' \in [Rows -> Nat]
      BY <1>1, <2>1 DEF DeskTypes
    <2> QED
      BY <1>3, <2>3, <2>4, <2>5
  <1>7. CASE Resume(c)
    <2>1. /\ call' = [call EXCEPT ![c].phase = "sent"] /\ k.phase = "paused"
          /\ UNCHANGED <<row, writes, changed>>
      BY <1>7 DEF Resume, k
    <2>2. k.held \in BOOLEAN /\ k.found \in Statuses \cup {"?"} /\ k.moved \in Nat
      BY <1>1 DEF CallRow
    <2>3. call' = [call EXCEPT ![c] = [k EXCEPT !.phase = "sent", !.found = k.found,
                                                !.moved = k.moved, !.held = k.held]]
      BY <1>1, <2>1 DEF DeskTypes, CallRow, k
    <2>4. ASSUME NEW s, s = [k EXCEPT !.phase = "sent", !.found = k.found,
                                      !.moved = k.moved, !.held = k.held]
          PROVE  s \in CallRow /\ CallFits(s)'
      <3>1. "sent" \in {k.phase, "sent", "refused"} /\ "sent" # "refused"
        OBVIOUS
      <3> QED
        BY <1>1, <1>2, <2>1, <2>2, <2>4, <3>1, PhaseFits
    <2>5. /\ row' \in [Rows -> Statuses] /\ writes' \in Nat /\ writes' >= writes
          /\ changed' \in [Rows -> Nat]
      BY <1>1, <2>1 DEF DeskTypes
    <2> QED
      BY <1>3, <2>3, <2>4, <2>5
  <1> QED
    BY <1>4, <1>5, <1>6, <1>7

LEMMA AnotherDeskKeeps ==
    ASSUME Desk, AnotherDesk PROVE Desk'
  <1>1. UNCHANGED <<screen, query, online, list, call, own>>
    BY DEF AnotherDesk
  <1>2. /\ row' \in [Rows -> Statuses] /\ writes' = writes + 1
        /\ changed' \in [Rows -> Nat]
    BY RowChanged DEF Desk, AnotherDesk
  <1>3. writes' \in Nat /\ writes' >= writes
    BY <1>2 DEF Desk, DeskTypes
  <1>4. call' \in [Calls -> CallRow'] /\ CallsFit'
    BY <1>1, <1>3, CallsStay DEF Desk
  <1>5. DeskTypes'
    BY <1>1, <1>2, <1>3, <1>4, SameScreen DEF Desk, DeskTypes
  <1> QED
    BY <1>1, <1>4, <1>5 DEF Desk, ListIsCurrent

-----------------------------------------------------------------------------
(* What comes back *)

\* What happens to the list alone.
LEMMA ListKeeps ==
    ASSUME Desk, list' \in ListRow, online' \in BOOLEAN,
           UNCHANGED <<screen, query, row, writes, changed, call, own>>,
           ListIsCurrent'
    PROVE  Desk'
  <1>1. writes' \in Nat /\ writes' >= writes
    BY DEF Desk, DeskTypes
  <1>2. call' \in [Calls -> CallRow'] /\ CallsFit'
    BY <1>1, CallsStay DEF Desk
  <1> QED
    BY <1>2, SameScreen DEF Desk, DeskTypes

LEMMA FetchKeeps ==
    ASSUME Desk,
           Return \/ ReadList \/ Arrive \/ FetchFails \/ GrowStale \/ TryAgain \/ Refetch
           \/ GoOffline \/ GoOnline
    PROVE  Desk'
  <1>1. UNCHANGED <<screen, query, row, writes, changed, call, own>> /\ online' \in BOOLEAN
    BY DEF Desk, DeskTypes, Return, ReadList, Arrive, FetchFails, GrowStale, TryAgain, Refetch,
           GoOffline, GoOnline
  <1>2. DeskTypes /\ list \in ListRow /\ ListIsCurrent /\ own \in Nat /\ own <= writes
    BY DEF Desk, DeskTypes
  <1>3. CASE list' \in {list, Asked(list), Stopped([list EXCEPT !.stale = TRUE]), NoList,
                        [list EXCEPT !.stale = TRUE]}
    <2>1. list' \in ListRow
      <3>1. [list EXCEPT !.stale = TRUE] \in ListRow
        BY <1>2 DEF ListRow
      <3> QED
        BY <1>2, <1>3, <3>1, ListRows
    <2>2. ListIsCurrent'
      <3>1. CASE list' = list \/ list' = [list EXCEPT !.stale = TRUE]
        <4>1. /\ list'.fetch = list.fetch /\ list'.gotAt = list.gotAt
              /\ (list'.stale = TRUE \/ list' = list)
          BY <1>2, <3>1 DEF ListRow
        <4> QED
          BY <1>1, <1>2, <4>1 DEF ListIsCurrent
      <3>2. CASE list' = Asked(list)
        <4>1. list'.fetch = "asked"
          BY <1>2, <3>2 DEF Asked, ListRow
        <4> QED
          BY <4>1 DEF ListIsCurrent
      <3>4. CASE list' = NoList
        BY <3>4 DEF ListIsCurrent, NoList
      <3>3. CASE list' = Stopped([list EXCEPT !.stale = TRUE])
        <4>1. list'.stale = TRUE /\ list'.fetch = "no"
          BY <1>2, <3>3 DEF Stopped, ListRow
        <4> QED
          BY <4>1 DEF ListIsCurrent
      <3> QED
        BY <1>3, <3>1, <3>2, <3>3, <3>4
    <2> QED
      BY <1>1, <2>1, <2>2, ListKeeps
  <1>4. CASE ReadList
    <2>1. list' = [list EXCEPT !.fetch = "read", !.got = Answer, !.gotAt = writes]
      BY <1>4 DEF ReadList
    <2>2. list' \in ListRow
      BY <1>2, <2>1, ListRows DEF ListRow, DeskTypes
    <2>3. ListIsCurrent'
      BY <1>1, <1>2, <2>1 DEF ListIsCurrent, ListRow
    <2> QED
      BY <1>1, <2>2, <2>3, ListKeeps
  <1>5. CASE Arrive
    <2> DEFINE shown == [list EXCEPT !.have = TRUE, !.rows = list.got, !.at = list.gotAt,
                                     !.stale = FALSE]
    <2>1. list' = Stopped(shown) /\ list.fetch = "read"
      BY <1>5 DEF Arrive
    <2>2. shown \in ListRow /\ shown.at = list.gotAt
      BY <1>2 DEF ListRow
    <2> HIDE DEF shown
    <2>3. list' \in ListRow
      BY <1>2, <2>1, <2>2, ListRows
    <2>4. list'.at = list.gotAt /\ list'.fetch = "no"
      BY <2>1, <2>2 DEF Stopped, ListRow
    <2>5. ListIsCurrent'
      BY <1>1, <1>2, <2>1, <2>4 DEF ListIsCurrent
    <2> QED
      BY <1>1, <2>3, <2>5, ListKeeps
  <1> QED
    BY <1>3, <1>4, <1>5 DEF Return, FetchFails, GrowStale, TryAgain, Refetch, GoOffline, GoOnline

\* An answer is heard: the calls.
LEMMA HeardCalls ==
    ASSUME Desk, NEW c \in Calls, Hear(c) \/ Lose(c)
    PROVE  call' \in [Calls -> CallRow'] /\ CallsFit'
  <1> DEFINE rest == [call EXCEPT ![c] = NoCall]
  <1>1. UNCHANGED <<screen, query, writes>> /\ (call' = rest \/ call' = Unseen(rest))
    BY DEF Hear, Lose
  <1>2. DeskTypes /\ CallsFit /\ NoCall \in CallRow /\ CallFits(NoCall)
    BY NoCallFits DEF Desk
  <1>3. writes' \in Nat /\ writes' >= writes
    BY <1>1, <1>2 DEF DeskTypes
  <1>4. CASE call' = rest
    <2>1. CallFits(NoCall)'
      BY <1>1, <1>2, <1>3, StillFits
    <2> QED
      BY <1>1, <1>2, <1>3, <1>4, <2>1, CallReplaced
  <1>5. CASE call' = Unseen(rest)
    <2>1. rest \in [Calls -> CallRow] /\ \A d \in Calls : CallFits(rest[d])
      BY <1>2 DEF DeskTypes, CallsFit
    <2> HIDE DEF rest
    <2> QED
      BY <1>1, <1>2, <1>5, <2>1, UnseenFits
  <1> QED
    BY <1>1, <1>4, <1>5

\* The list: what the clerk is told of has been asked for again, or she has
\* left the page.
LEMMA HeardList ==
    ASSUME Desk, NEW c \in Calls, Hear(c)
    PROVE  list' \in ListRow /\ own' \in 0..writes /\ ListIsCurrent'
  <1> DEFINE k == call[c]
  <1>1. k \in CallRow /\ CallFits(k) /\ DeskTypes /\ list \in ListRow /\ ListIsCurrent
    BY DEF Desk, DeskTypes, CallsFit
  <1> HIDE DEF k
  <1>2. own' = IF Succeeds(k) /\ Owes(k) /\ k.wrote > own THEN k.wrote ELSE own
    BY DEF Hear, k
  <1>3. own \in 0..writes /\ own' \in 0..writes
    BY <1>1, <1>2 DEF CallFits, CallRow, DeskTypes
  <1>4. \/ Rereads(k) /\ list' \in ReadAgain(list)
        \/ Closes(k) /\ list' = NoList
        \/ ~Rereads(k) /\ ~Closes(k) /\ list' = list
    BY DEF Hear, k
  <1>5. ASSUME Succeeds(k), Owes(k) PROVE Rereads(k) \/ Closes(k)
    <2>1. StepFits(screen, The, k.step) /\ query \in DOMAIN The.hooks.leavesOut
      BY <1>1, <1>5 DEF Succeeds, CallFits, DeskTypes
    <2> QED
      BY <1>5, <2>1 DEF StepFits, Owes, Rereads, Closes
  <1>6. list' \in ListRow
    <2>1. [list EXCEPT !.stale = TRUE] \in ListRow
      BY <1>1 DEF ListRow
    <2>2. ASSUME NEW l \in ReadAgain(list) PROVE l \in ListRow
      BY <1>1, <2>1, ListRows DEF ReadAgain, Invalidated
    <2> QED
      BY <1>1, <1>4, <2>2, ListRows
  <1>7. ListIsCurrent'
    <2>1. CASE Closes(k) /\ list' = NoList
      BY <1>3, <2>1 DEF ListIsCurrent, NoList
    <2>2. CASE list' = list /\ own' = own
      BY <1>1, <2>2 DEF ListIsCurrent
    <2>3. CASE list'.fetch = "asked"
      BY <2>3 DEF ListIsCurrent
    <2>4. CASE Rereads(k) /\ list' \in ReadAgain(list)
      <3>1. list'.fetch = "asked" \/ (list' = list /\ list.fetch # "no" /\ Handmade)
            \/ (/\ list' = [list EXCEPT !.stale = TRUE] /\ ~Handmade
                /\ ~(mounted /\ (list.have \/ list.fetch = "no")))
        BY <1>1, <2>4 DEF ReadAgain, Invalidated, Asked, ListRow
      <3>2. CASE list' = list /\ list.fetch # "no" /\ Handmade
        BY <1>2, <2>2, <3>2 DEF Owes, NoOlderAnswerDue
      <3>3. CASE /\ list' = [list EXCEPT !.stale = TRUE] /\ ~Handmade
                 /\ ~(mounted /\ (list.have \/ list.fetch = "no"))
        <4>1. list'.stale = TRUE /\ list'.fetch = list.fetch /\ list'.gotAt = list.gotAt
          BY <1>1, <3>3 DEF ListRow
        <4>2. list.fetch = "read" => own' = own
          BY <1>2, <3>3 DEF Owes, NoOlderAnswerDue
        <4> QED
          BY <1>1, <4>1, <4>2 DEF ListIsCurrent
      <3> QED
        BY <2>3, <3>1, <3>2, <3>3
    <2> QED
      BY <1>2, <1>4, <1>5, <2>1, <2>2, <2>4
  <1> QED
    BY <1>3, <1>6, <1>7

LEMMA HearKeeps ==
    ASSUME Desk, NEW c \in Calls, Hear(c) \/ Lose(c) PROVE Desk'
  <1>1. UNCHANGED <<screen, query, row, writes, changed, online>>
    BY DEF Hear, Lose
  <1>2. call' \in [Calls -> CallRow'] /\ CallsFit'
    BY HeardCalls
  <1>3. list' \in ListRow /\ own' \in 0..writes /\ ListIsCurrent'
    <2>1. CASE Hear(c)
      BY <2>1, HeardList
    <2>2. CASE Lose(c)
      BY <2>2 DEF Lose, Desk, DeskTypes, ListIsCurrent
    <2> QED
      BY <2>1, <2>2
  <1> QED
    BY <1>1, <1>2, <1>3, SameScreen DEF Desk, DeskTypes

-----------------------------------------------------------------------------
(* The theorems *)

LEMMA DeskBegins == DeskInit => Desk /\ AsItWas
  <1> SUFFICES ASSUME DeskInit PROVE Desk /\ AsItWas
    OBVIOUS
  <1>1. DeskTypes
    <2>1. Unmade \in Cells
      BY DEF Unmade, Cells
    <2>2. list \in ListRow
      BY <2>1 DEF DeskInit, Asked, NoList, ListRow
    <2>3. call \in [Calls -> CallRow]
      BY DEF DeskInit, NoCall, CallRow, Unread
    <2> QED
      BY <2>2, <2>3 DEF DeskInit, DeskTypes
  <1>2. ListIsCurrent
    BY DEF DeskInit, Asked, NoList, ListIsCurrent
  <1>3. CallsFit
    BY <1>1, NoCallFits DEF DeskInit, CallsFit
  <1>4. AsItWas
    BY DEF DeskInit, Asked, NoList, NoCall, AsItWas, SeenAsOf
  <1> QED
    BY <1>1, <1>2, <1>3, <1>4 DEF Desk

LEMMA DeskKeeps ==
    ASSUME Desk, AsItWas, [DeskNext]_deskVars PROVE Desk'
  <1>1. CASE UNCHANGED deskVars
    <2>1. UNCHANGED <<screen, query, row, writes, changed, call, own, list, online>>
      BY <1>1 DEF deskVars
    <2> QED
      BY <2>1, ListKeeps DEF Desk, DeskTypes, ListIsCurrent
  <1>2. ASSUME NEW c \in Calls, Click(c) \/ FillForm(c) PROVE Desk'
    BY <1>2, ClickKeeps
  <1>3. ASSUME NEW c \in Calls, Hear(c) \/ Lose(c) PROVE Desk'
    BY <1>3, HearKeeps
  <1>4. ASSUME NEW c \in Calls,
               ServeChange(c) \/ ServeSame(c) \/ Refuse(c) \/ Decline(c) \/ Resume(c)
        PROVE  Desk'
    BY <1>4, ServeKeeps
  <1>5. CASE LeaveScreen
    BY <1>5, LeaveKeeps
  <1>6. CASE Reload
    BY <1>6, ReloadKeeps
  <1>7. CASE AnotherDesk
    BY <1>7, AnotherDeskKeeps
  <1>8. CASE \/ Return \/ ReadList \/ Arrive \/ FetchFails \/ GrowStale \/ TryAgain \/ Refetch
             \/ GoOffline \/ GoOnline
    BY <1>8, FetchKeeps
  <1> QED
    BY <1>1, <1>2, <1>3, <1>4, <1>5, <1>6, <1>7, <1>8 DEF DeskNext

-----------------------------------------------------------------------------
(* What was seen, and when *)

\* A row is as it was, or was written by this step.
LEMMA RowsMove ==
    ASSUME Desk, [DeskNext]_deskVars
    PROVE  /\ UNCHANGED <<screen, query>> /\ writes' \in Nat /\ writes' >= writes
           /\ \A r \in Rows : \/ row'[r] = row[r] /\ changed'[r] = changed[r]
                              \/ changed'[r] > writes
  <1>1. DeskTypes
    BY DEF Desk
  <1>2. CASE UNCHANGED <<screen, query, row, writes, changed>>
    BY <1>1, <1>2 DEF DeskTypes
  <1>3. ASSUME NEW act, NEW r \in Rows, Change(act, r), UNCHANGED <<screen, query>>
        PROVE  /\ writes' \in Nat /\ writes' >= writes
               /\ \A d \in Rows : \/ row'[d] = row[d] /\ changed'[d] = changed[d]
                                  \/ changed'[d] > writes
    BY <1>1, <1>3 DEF Change, DeskTypes
  <1>4. ASSUME NEW c \in Calls, ServeChange(c)
        PROVE  \E r \in Rows : Change(call[c].step, r) /\ UNCHANGED <<screen, query>>
    BY <1>1, <1>4 DEF ServeChange, About, DeskTypes, CallRow
  <1>5. ASSUME AnotherDesk
        PROVE  \E act \in Steps, r \in Rows : Change(act, r) /\ UNCHANGED <<screen, query>>
    BY <1>5 DEF AnotherDesk
  <1>7. ASSUME NEW c \in Calls,
               Click(c) \/ FillForm(c) \/ Resume(c) \/ Hear(c) \/ Lose(c) \/ ServeSame(c)
               \/ Refuse(c) \/ Decline(c)
        PROVE  UNCHANGED <<screen, query, row, writes, changed>>
    BY <1>7 DEF Click, FillForm, Make, Resume, Hear, Lose, ServeSame, Refuse, Decline
  <1>6. \/ UNCHANGED <<screen, query, row, writes, changed>> \/ AnotherDesk
        \/ \E c \in Calls : ServeChange(c)
    BY <1>7 DEF DeskNext, deskVars, LeaveScreen, Return, Reload, ReadList, Arrive, FetchFails, GrowStale,
           TryAgain, Refetch, GoOffline, GoOnline
  <1> QED
    BY <1>2, <1>3, <1>4, <1>5, <1>6

LEMMA StillAsOf ==
    ASSUME Desk, AsItWas, [DeskNext]_deskVars, NEW rows, NEW at \in Nat, RowsAsOf(rows, at)
    PROVE  RowsAsOf(rows, at)'
  <1>1. writes \in Nat /\ changed \in [Rows -> Nat]
    BY DEF Desk, DeskTypes
  <1>3. \A r \in Rows : Answer'[r] = Answer[r] \/ changed'[r] > writes
    <2>1. The' = The /\ query' = query
      BY RowsMove DEF The
    <2> QED
      BY <2>1, RowsMove DEF Answer
  <1>2. \A r \in Rows : changed'[r] = changed[r] \/ changed'[r] > writes
    BY RowsMove
  <1>4. \A r \in Rows : changed'[r] \in Nat
    BY DeskKeeps DEF Desk, DeskTypes
  <1> QED
    BY <1>1, <1>2, <1>3, <1>4, RowsMove DEF RowsAsOf

\* Rows come on a list by being read, and are shown when the answer arrives.
LEMMA ListMoves ==
    ASSUME Desk, [DeskNext]_deskVars
    PROVE  /\ list'.have => \/ list.have /\ list'.rows = list.rows /\ list'.at = list.at
                            \/ /\ list.fetch = "read"
                               /\ list'.rows = list.got /\ list'.at = list.gotAt
           /\ list'.fetch = "read" =>
                \/ list.fetch = "read" /\ list'.got = list.got /\ list'.gotAt = list.gotAt
                \/ list'.got = Answer /\ list'.gotAt = writes
           /\ list'.at \in {list.at, 0} \/ (list.fetch = "read" /\ list'.at = list.gotAt)
  <1>1. list \in ListRow
    BY DEF Desk, DeskTypes
  <1>2. CASE list' = list
    BY <1>1, <1>2
  <1>3. ASSUME NEW marked \in {list, NoList, [list EXCEPT !.stale = TRUE], Stopped(list),
                               Stopped([list EXCEPT !.stale = TRUE])},
               list' = marked \/ list' = Asked(marked)
        PROVE  /\ list'.have => list.have /\ list'.rows = list.rows /\ list'.at = list.at
               /\ list'.fetch = "read" =>
                    list.fetch = "read" /\ list'.got = list.got /\ list'.gotAt = list.gotAt
               /\ list'.at \in {list.at, 0}
    <2>1. /\ marked.have => list.have /\ marked.rows = list.rows /\ marked.at = list.at
          /\ marked.fetch = "read" =>
               list.fetch = "read" /\ marked.got = list.got /\ marked.gotAt = list.gotAt
          /\ marked.at \in {list.at, 0}
      <3>1. CASE marked = NoList
        BY <3>1 DEF NoList
      <3>2. CASE marked \in {list, [list EXCEPT !.stale = TRUE]}
        BY <1>1, <3>2 DEF ListRow
      <3>3. CASE marked \in {Stopped(list), Stopped([list EXCEPT !.stale = TRUE])}
        BY <1>1, <3>3 DEF Stopped, ListRow
      <3> QED
        BY <1>3, <3>1, <3>2, <3>3
    <2>2. marked \in ListRow
      <3>1. [list EXCEPT !.stale = TRUE] \in ListRow
        BY <1>1 DEF ListRow
      <3> QED
        BY <1>1, <3>1, ListRows DEF Desk
    <2>3. /\ Asked(marked).have = marked.have /\ Asked(marked).rows = marked.rows
          /\ Asked(marked).at = marked.at /\ Asked(marked).fetch = "asked"
      BY <2>2 DEF Asked, ListRow
    <2> QED
      BY <1>3, <2>1, <2>3
  <1>4. CASE ReadList
    BY <1>1, <1>4 DEF ReadList, ListRow
  <1>5. CASE Arrive
    BY <1>1, <1>5 DEF Arrive, Stopped, ListRow
  <1>6. CASE LeaveScreen \/ Return \/ FetchFails \/ GrowStale \/ TryAgain \/ Refetch
    BY <1>3, <1>6 DEF LeaveScreen, Return, FetchFails, GrowStale, TryAgain, Refetch
  <1>7. CASE Reload
    <2>1. PICK kept \in {Stopped(list), NoList} : list' = IF kept.stale THEN Asked(kept) ELSE kept
      BY <1>7 DEF Reload
    <2> QED
      BY <1>3, <2>1
  <1>8. ASSUME NEW c \in Calls, Hear(c)
        PROVE  \E marked \in {list, NoList, [list EXCEPT !.stale = TRUE]} :
                   list' = marked \/ list' = Asked(marked)
    BY <1>8 DEF Hear, ReadAgain, Invalidated
  <1>9. CASE \E c \in Calls : Hear(c)
    BY <1>3, <1>8, <1>9
  <1>10. \/ list' = list \/ ReadList \/ Arrive \/ Reload \/ (\E c \in Calls : Hear(c))
         \/ LeaveScreen \/ Return \/ FetchFails \/ GrowStale \/ TryAgain \/ Refetch
    BY DEF DeskNext, deskVars, Click, FillForm, Make, Resume, Lose, ServeSame, ServeChange,
           Refuse, Decline, AnotherDesk, GoOffline, GoOnline
  <1> QED
    BY <1>2, <1>4, <1>5, <1>6, <1>7, <1>9, <1>10

\* A call made just now was made from what is shown, and a call made before
\* goes on from what was shown then.
LEMMA CallsMove ==
    ASSUME Desk, [DeskNext]_deskVars, NEW c \in Calls
    PROVE  \/ /\ call'[c].since \in {call[c].since, 0}
              /\ call'[c].phase \in {"paused", "sent"} =>
                   /\ call[c].phase \in {"paused", "sent"} /\ call'[c].row = call[c].row
                   /\ call'[c].seen = call[c].seen /\ call'[c].since = call[c].since
           \/ \E r \in Rows \cup {NoRow} : \E seen :
                /\ call'[c].row = r /\ call'[c].seen = seen /\ call'[c].since = Due
                /\ r # NoRow => (list.have /\ seen = list.rows[r]) \/ seen \in Unread
                /\ UNCHANGED <<row, writes, changed, list>>
  <1> DEFINE k == call[c]
             Goes(new) == /\ new.since \in {k.since, 0}
                          /\ new.phase \in {"paused", "sent"} =>
                               /\ k.phase \in {"paused", "sent"} /\ new.row = k.row
                               /\ new.seen = k.seen /\ new.since = k.since
  <1>1. call \in [Calls -> CallRow] /\ k \in CallRow
    BY DEF Desk, DeskTypes
  <1>2. Goes(k) /\ Goes(NoCall) /\ Goes([k EXCEPT !.held = FALSE])
        /\ Goes([NoCall EXCEPT !.held = FALSE])
    BY <1>1 DEF CallRow, NoCall
  <1>3. ASSUME NEW d \in Calls, Click(d) \/ FillForm(d) \/ Resume(d) \/ Lose(d) \/ ServeSame(d)
                 \/ ServeChange(d) \/ Refuse(d) \/ Decline(d),
               c # d
        PROVE  Goes(call'[c])
    <2>1. call'[c] = k
      BY <1>1, <1>3 DEF Click, FillForm, Make, Resume, Lose, ServeSame, ServeChange, Refuse, Decline
    <2> QED
      BY <1>2, <2>1
  <1>4. CASE Resume(c) \/ Lose(c) \/ ServeSame(c) \/ ServeChange(c) \/ Refuse(c) \/ Decline(c)
    <2>1. CASE Resume(c) \/ Refuse(c)
      BY <1>1, <2>1 DEF Resume, Refuse, CallRow
    <2>2. CASE Lose(c)
      BY <1>1, <1>2, <2>2 DEF Lose
    <2>3. CASE ServeSame(c) \/ ServeChange(c) \/ Decline(c)
      <3>1. PICK phase \in {"done", "declined"} : \E wrote :
                call' = [call EXCEPT ![c] = Served(k, phase, wrote)]
        BY <2>3 DEF ServeSame, ServeChange, Decline
      <3> QED
        BY <1>1, <3>1 DEF Served, CallRow
    <2> QED
      BY <1>4, <2>1, <2>2, <2>3
  <1>5. ASSUME NEW d \in Calls, Hear(d) PROVE Goes(call'[c])
    <2>1. call' = [call EXCEPT ![d] = NoCall] \/ call' = Unseen([call EXCEPT ![d] = NoCall])
      BY <1>5 DEF Hear
    <2>2. call'[c] \in {k, NoCall, [k EXCEPT !.held = FALSE], [NoCall EXCEPT !.held = FALSE]}
      BY <1>1, <2>1 DEF Unseen
    <2> QED
      BY <1>2, <2>2
  <1>6. CASE LeaveScreen \/ Reload
    <2>1. call'[c] \in {NoCall, [k EXCEPT !.held = FALSE]}
      BY <1>1, <1>6 DEF LeaveScreen, Reload, Unseen
    <2> QED
      BY <1>2, <2>1
  <1>7. CASE call' = call
    BY <1>2, <1>7
  <1>8. CASE Click(c)
    <2>1. PICK p \in Panels, r \in Rows : \E s \in Shown(p, r) : \E act \in ButtonsFor(p, s) :
              Make(c, act, r, s)
      BY <1>8 DEF Click
    <2>2. PICK seen \in Shown(p, r) : \E act \in ButtonsFor(p, seen) : Make(c, act, r, seen)
      BY <2>1
    <2>3. PICK act \in ButtonsFor(p, seen) : Make(c, act, r, seen)
      BY <2>2
    <2>4. /\ call'[c].row = r /\ call'[c].seen = seen /\ call'[c].since = Due
          /\ UNCHANGED <<row, writes, changed, list>>
      BY <1>1, <2>3 DEF Make, NoCall
    <2>5. (list.have /\ seen = list.rows[r]) \/ seen \in Unread
      BY DEF Shown, Unread
    <2> QED
      BY <2>4, <2>5
  <1>9. CASE FillForm(c)
    <2>1. PICK p \in Panels : \E act : Make(c, act, NoRow, "?")
      BY <1>9 DEF FillForm
    <2>2. PICK act : Make(c, act, NoRow, "?")
      BY <2>1
    <2>3. /\ call'[c].row = NoRow /\ call'[c].seen = "?" /\ call'[c].since = Due
          /\ UNCHANGED <<row, writes, changed, list>>
      BY <1>1, <2>2 DEF Make, NoCall
    <2> QED
      BY <2>3
  <1>10. \/ call' = call \/ LeaveScreen \/ Reload
         \/ \E d \in Calls : \/ Click(d) \/ FillForm(d) \/ Resume(d) \/ Lose(d) \/ ServeSame(d)
                             \/ ServeChange(d) \/ Refuse(d) \/ Decline(d) \/ Hear(d)
    BY DEF DeskNext, deskVars, Return, ReadList, Arrive, FetchFails, GrowStale, TryAgain, Refetch,
           AnotherDesk, GoOffline, GoOnline
  <1> QED
    BY <1>3, <1>4, <1>5, <1>6, <1>7, <1>8, <1>9, <1>10

LEMMA AsItWasKeeps ==
    ASSUME Desk, AsItWas, [DeskNext]_deskVars PROVE AsItWas'
  <1>1. /\ list \in ListRow /\ call \in [Calls -> CallRow] /\ writes \in Nat /\ own \in 0..writes
        /\ changed \in [Rows -> Nat]
    BY DEF Desk, DeskTypes
  <1>2. writes' \in Nat /\ writes' >= writes
    BY RowsMove
  <1>3. list.at \in Nat /\ list.gotAt \in Nat /\ list.at <= writes
    BY <1>1 DEF ListRow, AsItWas
  <1>4. list'.at <= writes'
    <2>1. list.fetch = "read" => list.gotAt <= writes
      BY DEF AsItWas, RowsAsOf
    <2>2. list'.at \in {list.at, 0} \/ (list.fetch = "read" /\ list'.at = list.gotAt)
      BY ListMoves
    <2> QED
      BY <1>1, <1>2, <1>3, <2>1, <2>2
  <1>5. \A rows, at : at \in Nat /\ RowsAsOf(rows, at) => RowsAsOf(rows, at)'
    BY StillAsOf
  <1>6. list'.have => RowsAsOf(list.rows, list.at)'
    <2> SUFFICES ASSUME list'.have PROVE RowsAsOf(list.rows, list.at)'
      OBVIOUS
    <2>1. PICK rows, at : /\ rows = list'.rows /\ at = list'.at
                          /\ at \in Nat /\ RowsAsOf(rows, at)
      BY <1>3, ListMoves DEF AsItWas
    <2>2. RowsAsOf(rows, at)'
      BY <1>5, <2>1
    <2> QED
      BY <2>1, <2>2 DEF RowsAsOf
  <1>7. list'.fetch = "read" => RowsAsOf(list.got, list.gotAt)'
    <2> SUFFICES ASSUME list'.fetch = "read" PROVE RowsAsOf(list.got, list.gotAt)'
      OBVIOUS
    <2>1. RowsAsOf(Answer, writes)
      BY <1>1 DEF RowsAsOf
    <2>2. PICK rows, at : /\ rows = list'.got /\ at = list'.gotAt
                          /\ at \in Nat /\ RowsAsOf(rows, at)
      BY <1>1, <1>3, <2>1, ListMoves DEF AsItWas
    <2>3. RowsAsOf(rows, at)'
      BY <1>5, <2>2
    <2> QED
      BY <2>2, <2>3 DEF RowsAsOf
  <1>8. Due \in Nat /\ Due <= writes /\ (list.have => Due = list.at)
    BY <1>1, <1>3 DEF Due, Desk, ListIsCurrent, ListRow
  <1>9. ASSUME NEW c \in Calls PROVE SeenAsOf(call[c])'
    <2> DEFINE k == call[c]
               new == call'[c]
    <2>1. /\ k \in CallRow /\ k.since \in Nat /\ k.since <= writes
          /\ k.row \in Rows \cup {NoRow}
      BY <1>1 DEF AsItWas, SeenAsOf, CallRow
    <2>2. CASE /\ new.since \in {k.since, 0}
               /\ new.phase \in {"paused", "sent"} =>
                    /\ k.phase \in {"paused", "sent"} /\ new.row = k.row
                    /\ new.seen = k.seen /\ new.since = k.since
      <3>1. new.since <= writes'
        BY <1>1, <1>2, <2>1, <2>2
      <3>2. ASSUME new.phase \in {"paused", "sent"}, new.row # NoRow, new.seen \notin Unread,
                   changed'[new.row] <= new.since
            PROVE  new.seen = Answer'[new.row]
        <4>1. k.row \in Rows /\ (changed[k.row] <= k.since => k.seen = Answer[k.row])
          BY <2>1, <2>2, <3>2 DEF AsItWas, SeenAsOf
        <4>2. changed'[k.row] <= writes
          <5>1. changed'[k.row] \in Nat
            BY <4>1, DeskKeeps DEF Desk, DeskTypes
          <5> QED
            BY <1>1, <2>1, <2>2, <3>2, <5>1
        <4>3. row'[k.row] = row[k.row] /\ changed'[k.row] = changed[k.row]
          <5>1. changed'[k.row] \in Nat
            BY <4>1, DeskKeeps DEF Desk, DeskTypes
          <5> QED
            BY <1>1, <4>1, <4>2, <5>1, RowsMove
        <4>4. Answer'[k.row] = Answer[k.row]
          BY <4>1, <4>3, RowsMove DEF Answer, The
        <4> QED
          BY <2>2, <3>2, <4>1, <4>3, <4>4
      <3> QED
        BY <3>1, <3>2 DEF SeenAsOf
    <2>3. CASE \E r \in Rows \cup {NoRow} : \E seen :
                  /\ new.row = r /\ new.seen = seen /\ new.since = Due
                  /\ r # NoRow => (list.have /\ seen = list.rows[r]) \/ seen \in Unread
                  /\ UNCHANGED <<row, writes, changed, list>>
      <3>1. /\ new.since = Due /\ new.row \in Rows \cup {NoRow}
            /\ new.row # NoRow =>
                 (list.have /\ new.seen = list.rows[new.row]) \/ new.seen \in Unread
            /\ UNCHANGED <<row, writes, changed, list>>
        BY <2>3
      <3>2. Answer' = Answer
        BY <3>1, RowsMove DEF Answer, The
      <3>3. list.have => \A r \in Rows : changed[r] <= Due => list.rows[r] = Answer[r]
        BY <1>8 DEF AsItWas, RowsAsOf
      <3> QED
        BY <1>8, <3>1, <3>2, <3>3 DEF SeenAsOf
    <2> QED
      BY <2>2, <2>3, CallsMove
  <1> QED
    BY <1>4, <1>6, <1>7, <1>9 DEF AsItWas

-----------------------------------------------------------------------------
(* The theorems *)

LEMMA DeskAlways == DeskSpec => [](Desk /\ AsItWas)
  <1>1. Desk /\ AsItWas /\ [DeskNext]_deskVars => (Desk /\ AsItWas)'
    BY DeskKeeps, AsItWasKeeps
  <1> QED
    BY <1>1, DeskBegins, PTL DEF DeskSpec

\* Whatever overtakes what, a list the clerk may take for current shows her
\* own changes, on every screen.
THEOREM OwnChangesAreShown == DeskSpec => []OwnChangesShow
  <1>1. Desk => OwnChangesShow
    BY DEF Desk, ListIsCurrent, OwnChangesShow
  <1> QED
    BY <1>1, DeskAlways, PTL

\* Behind every refusal is a change made after the clerk's list was read and
\* after all of her own that the list owed her, on every screen.
THEOREM RefusalsHaveReasons == DeskSpec => []RefusalsAreExplained
  <1>1. Desk => RefusalsAreExplained
    <2> SUFFICES ASSUME Desk, NEW c \in Calls, call[c].phase = "refused", call[c].seen \notin Unread,
                        <<screen, call[c].step, call[c].found>> \notin OfferedAnyway
                 PROVE  call[c].moved > call[c].since
      BY DEF RefusalsAreExplained
    <2> DEFINE k == call[c]
    <2>1. screen \in Screens /\ CallFits(k)
      BY DEF Desk, DeskTypes, CallsFit
    <2>2. PICK p \in Panels : k.step \in ButtonsFor(p, k.seen)
      BY <2>1 DEF CallFits
    <2>3. k.found \in Statuses /\ k.found \notin Unread
      BY <2>1, TheFits DEF CallFits
    <2>4. k.seen # k.found
      BY <2>1, <2>2, <2>3, OfferedFits DEF CallFits
    <2>5. k.seen # "NONE"
      BY <2>1, <2>2, OfferedFits
    <2> QED
      BY <2>1, <2>4, <2>5 DEF CallFits
  <1> QED
    BY <1>1, DeskAlways, PTL
====
