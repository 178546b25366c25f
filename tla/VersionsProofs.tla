--------------------------- MODULE VersionsProofs ---------------------------
(***************************************************************************)
(* Swapping the arguments of VersionCompare negates its result, and on the *)
(* versions whose numbers fit an int it is a total preorder: what          *)
(* sort.Sort needs of ByVersion and BySnapVersion.  A number that does not *)
(* fit is equal to every other, so that it breaks the chains.              *)
(*                                                                         *)
(* Strings and versions are both compared place by place, and the first    *)
(* place that differs decides.  First says that r is the result of the     *)
(* place-by-place results d; the lemmas on First are used for both.        *)
(***************************************************************************)
EXTENDS Versions, WellFoundedInduction, TLAPS

Sign == {-1, 0, 1}

First(d, r) ==
    \/ r = 0 /\ \A i \in Nat : d[i] = 0
    \/ r # 0 /\ \E k \in Nat : d[k] = r /\ \A j \in 0..(k - 1) : d[j] = 0

\* Results of comparing x with y and y with x.
Opp(xy, yx) == xy = - yx

\* Results of comparing x with y, y with z and x with z that fit together.
Fit(xy, yz, xz) ==
    (xy <= 0 /\ yz <= 0) => IF xy = 0 /\ yz = 0 THEN xz = 0 ELSE xz = -1

(* Least is the least element of a set of natural numbers.                 *)
LEMMA LeastIsLeast ==
    ASSUME NEW S \in SUBSET Nat, S # {}
    PROVE  Least(S) \in S /\ \A j \in S : Least(S) <= j
<1>1. PICK x \in S : \A y \in S : <<y, x>> \notin OpToRel(<, Nat)
  BY NatLessThanWellFounded, WFMin, Zenon
<1>2. \A y \in S : ~(y < x)
  BY <1>1, Zenon DEF OpToRel
<1>3. \A y \in S : x <= y
  BY <1>2
<1>4. QED
  BY <1>3, Zenon DEF Least

(* cmpInt is the order of the integers.                                    *)
LEMMA cmpIntOrders ==
    ASSUME NEW x \in Int, NEW y \in Int, NEW z \in Int
    PROVE  /\ cmpInt(x, y) \in Sign
           /\ Opp(cmpInt(x, y), cmpInt(y, x))
           /\ Fit(cmpInt(x, y), cmpInt(y, z), cmpInt(x, z))
BY DEF cmpInt, Sign, Fit, Opp

(* Opposite results in every place give opposite results.                  *)
LEMMA FirstOpposite ==
    ASSUME NEW xy \in [Nat -> Sign], NEW yx \in [Nat -> Sign],
           \A i \in Nat : Opp(xy[i], yx[i]),
           NEW r \in Sign, NEW s \in Sign, First(xy, r), First(yx, s)
    PROVE  Opp(r, s)
<1>1. CASE r = 0
  <2>1. \A i \in Nat : yx[i] = 0
    BY <1>1 DEF First, Sign, Opp
  <2>2. QED
    BY <1>1, <2>1 DEF First, Sign, Opp
<1>2. CASE r # 0
  <2>1. PICK k \in Nat : xy[k] = r /\ \A j \in 0..(k - 1) : xy[j] = 0
    BY <1>2 DEF First
  <2>2. yx[k] = - r /\ \A j \in 0..(k - 1) : yx[j] = 0
    BY <2>1 DEF Sign, Opp
  <2>3. s # 0
    BY <1>2, <2>2 DEF First, Sign
  <2>4. PICK m \in Nat : yx[m] = s /\ \A j \in 0..(m - 1) : yx[j] = 0
    BY <2>3 DEF First
  <2>5. k = m
    BY <1>2, <2>2, <2>3, <2>4 DEF Sign
  <2>6. QED
    BY <2>2, <2>4, <2>5 DEF Sign, Opp
<1>3. QED
  BY <1>1, <1>2

(* Results that fit together in every place fit together.                  *)
LEMMA FirstFits ==
    ASSUME NEW xy \in [Nat -> Sign], NEW yz \in [Nat -> Sign], NEW xz \in [Nat -> Sign],
           \A i \in Nat : Fit(xy[i], yz[i], xz[i]),
           NEW r \in Sign, NEW s \in Sign, NEW t \in Sign,
           First(xy, r), First(yz, s), First(xz, t)
    PROVE  Fit(r, s, t)
<1> SUFFICES ASSUME r <= 0, s <= 0
             PROVE  IF r = 0 /\ s = 0 THEN t = 0 ELSE t = -1
  BY DEF Fit
<1>1. CASE r = 0 /\ s = 0
  <2>1. \A i \in Nat : xy[i] = 0 /\ yz[i] = 0
    BY <1>1 DEF First
  <2>2. \A i \in Nat : xz[i] = 0
    BY <2>1 DEF Fit
  <2>3. QED
    BY <1>1, <2>2 DEF First, Sign
<1>2. CASE ~(r = 0 /\ s = 0)
  <2>1. \E k \in Nat : /\ xy[k] <= 0 /\ yz[k] <= 0 /\ ~(xy[k] = 0 /\ yz[k] = 0)
                       /\ \A j \in 0..(k - 1) : xy[j] = 0 /\ yz[j] = 0
    <3>1. CASE r = 0
      <4>1. PICK k \in Nat : yz[k] = s /\ \A j \in 0..(k - 1) : yz[j] = 0
        BY <1>2, <3>1 DEF First
      <4>2. \A i \in Nat : xy[i] = 0
        BY <3>1 DEF First
      <4>3. QED
        BY <1>2, <3>1, <4>1, <4>2
    <3>2. CASE s = 0
      <4>1. PICK k \in Nat : xy[k] = r /\ \A j \in 0..(k - 1) : xy[j] = 0
        BY <1>2, <3>2 DEF First
      <4>2. \A i \in Nat : yz[i] = 0
        BY <3>2 DEF First
      <4>3. QED
        BY <1>2, <3>2, <4>1, <4>2
    <3>3. CASE r # 0 /\ s # 0
      <4>1. PICK k \in Nat : xy[k] = r /\ \A j \in 0..(k - 1) : xy[j] = 0
        BY <3>3 DEF First
      <4>2. PICK m \in Nat : yz[m] = s /\ \A j \in 0..(m - 1) : yz[j] = 0
        BY <3>3 DEF First
      <4>3. CASE k < m
        BY <3>3, <4>1, <4>2, <4>3 DEF Sign
      <4>4. CASE k = m
        BY <3>3, <4>1, <4>2, <4>4 DEF Sign
      <4>5. CASE m < k
        BY <3>3, <4>1, <4>2, <4>5 DEF Sign
      <4>6. QED
        BY <4>3, <4>4, <4>5
    <3>4. QED
      BY <3>1, <3>2, <3>3
  <2>2. PICK k \in Nat : /\ xy[k] <= 0 /\ yz[k] <= 0 /\ ~(xy[k] = 0 /\ yz[k] = 0)
                         /\ \A j \in 0..(k - 1) : xy[j] = 0 /\ yz[j] = 0
    BY <2>1
  <2>3. xz[k] = -1 /\ \A j \in 0..(k - 1) : xz[j] = 0
    BY <2>2 DEF Fit
  <2>4. t # 0
    BY <2>3 DEF First
  <2>5. PICK m \in Nat : xz[m] = t /\ \A j \in 0..(m - 1) : xz[j] = 0
    BY <2>4 DEF First
  <2>6. k = m
    BY <2>3, <2>4, <2>5
  <2>7. QED
    BY <1>2, <2>3, <2>5, <2>6
<1>3. QED
  BY <1>1, <1>2

(* The first difference of two strings decides cmpString.                  *)
LEMMA StringFirst ==
    ASSUME NEW a \in Seq(Int), NEW b \in Seq(Int)
    PROVE  /\ cmpString(a, b) \in Sign
           /\ First([i \in Nat |-> cmpInt(CharAt(a, i), CharAt(b, i))], cmpString(a, b))
<1> DEFINE d == [i \in Nat |-> cmpInt(CharAt(a, i), CharAt(b, i))]
           differ == {i \in 1..Longer(a, b) : cmpInt(CharAt(a, i), CharAt(b, i)) # 0}
<1>1. \A i \in Nat : CharAt(a, i) \in Int /\ CharAt(b, i) \in Int
  BY DEF CharAt
<1>2. \A i \in Nat : d[i] \in Sign
  BY <1>1 DEF cmpInt, Sign
<1>3. \A i \in Nat : d[i] # 0 => i \in differ
  <2> SUFFICES ASSUME NEW i \in Nat, d[i] # 0
               PROVE  i \in differ
    OBVIOUS
  <2>1. i \in 1..Len(a) \/ i \in 1..Len(b)
    BY DEF CharAt, cmpInt
  <2>2. i \in 1..Longer(a, b)
    BY <2>1 DEF Longer
  <2>3. QED
    BY <2>2
<1>4. CASE differ = {}
  <2>1. cmpString(a, b) = 0
    BY <1>4 DEF cmpString
  <2>2. \A i \in Nat : d[i] = 0
    BY <1>3, <1>4, SMTT(30)
  <2>3. QED
    BY <2>1, <2>2 DEF First, Sign
<1>5. CASE differ # {}
  <2>1. differ \in SUBSET Nat
    BY DEF Longer
  <2>2. Least(differ) \in differ /\ \A j \in differ : Least(differ) <= j
    BY <1>5, <2>1, LeastIsLeast, Zenon
  <2>3. PICK k \in Nat : k = Least(differ)
    BY <2>1, <2>2, Zenon
  <2>4. cmpString(a, b) = cmpInt(CharAt(a, k), CharAt(b, k))
    BY <1>5, <2>3 DEF cmpString
  <2>5. cmpString(a, b) = d[k] /\ d[k] # 0
    BY <2>2, <2>3, <2>4
  <2>6. \A j \in 0..(k - 1) : d[j] = 0
    BY <1>3, <2>2, <2>3
  <2>7. QED
    BY <1>2, <2>5, <2>6 DEF First
<1>6. QED
  BY <1>4, <1>5

(* cmpString orders the strings.                                           *)
LEMMA cmpStringOrders ==
    ASSUME NEW a \in Seq(Int), NEW b \in Seq(Int), NEW c \in Seq(Int)
    PROVE  /\ cmpString(a, b) \in Sign
           /\ Opp(cmpString(a, b), cmpString(b, a))
           /\ Fit(cmpString(a, b), cmpString(b, c), cmpString(a, c))
<1> DEFINE D(x, y) == [i \in Nat |-> cmpInt(CharAt(x, i), CharAt(y, i))]
<1>1. \A i \in Nat : CharAt(a, i) \in Int /\ CharAt(b, i) \in Int /\ CharAt(c, i) \in Int
  BY DEF CharAt
<1>2. /\ D(a, b) \in [Nat -> Sign] /\ D(b, a) \in [Nat -> Sign]
      /\ D(b, c) \in [Nat -> Sign] /\ D(a, c) \in [Nat -> Sign]
  BY <1>1, cmpIntOrders, Zenon
<1>3. \A i \in Nat : Opp(D(a, b)[i], D(b, a)[i])
  BY <1>1, cmpIntOrders
<1>4. \A i \in Nat : Fit(D(a, b)[i], D(b, c)[i], D(a, c)[i])
  BY <1>1, cmpIntOrders
<1>5. /\ cmpString(a, b) \in Sign /\ First(D(a, b), cmpString(a, b))
      /\ cmpString(b, a) \in Sign /\ First(D(b, a), cmpString(b, a))
      /\ cmpString(b, c) \in Sign /\ First(D(b, c), cmpString(b, c))
      /\ cmpString(a, c) \in Sign /\ First(D(a, c), cmpString(a, c))
  BY StringFirst, Zenon
<1> HIDE DEF D
<1>6. Opp(cmpString(a, b), cmpString(b, a))
  BY <1>2, <1>3, <1>5, FirstOpposite, Zenon
<1>7. Fit(cmpString(a, b), cmpString(b, c), cmpString(a, c))
  BY <1>2, <1>4, <1>5, FirstFits, Zenon
<1>8. QED
  BY <1>5, <1>6, <1>7

(* A string that does not start with a digit is not equal to a number.     *)
LEMMA WordIsNoNumber ==
    ASSUME NEW w \in Seq(CharOrder), w # << >>
    PROVE  cmpString(w, << >>) # 0 /\ cmpString(<< >>, w) # 0
<1>1. w \in Seq(Int) /\ << >> \in Seq(Int) /\ w[1] \in Int \ {0} /\ Len(w) > 0
  BY DEF CharOrder
<1>2. CharAt(w, 1) = w[1] /\ CharAt(<< >>, 1) = 0
  BY <1>1 DEF CharAt
<1>3. cmpInt(CharAt(w, 1), CharAt(<< >>, 1)) # 0 /\ cmpInt(CharAt(<< >>, 1), CharAt(w, 1)) # 0
  BY <1>1, <1>2 DEF cmpInt
<1>4. /\ First([i \in Nat |-> cmpInt(CharAt(w, i), CharAt(<< >>, i))], cmpString(w, << >>))
      /\ First([i \in Nat |-> cmpInt(CharAt(<< >>, i), CharAt(w, i))], cmpString(<< >>, w))
  BY <1>1, StringFirst, Zenon
<1>5. QED
  BY <1>3, <1>4 DEF First

\* The fragments that are words or numbers that fit an int.
Small == {f \in Fragment : f.n <= MaxInt}

(* Whatever the numbers, a fragment's string is a sequence of integers.    *)
LEMMA FragmentChars == \A f \in Fragment : f.chars \in Seq(Int) /\ f.n \in Int
<1>1. \A s \in Seq(CharOrder) : s \in Seq(Int)
  BY DEF CharOrder
<1>2. QED
  BY <1>1 DEF Fragment

(* Swapping two fragments negates cmpFragment.                             *)
LEMMA cmpFragmentOpposite ==
    ASSUME NEW a \in Fragment, NEW b \in Fragment
    PROVE  /\ cmpFragment(a, b) \in Sign
           /\ Opp(cmpFragment(a, b), cmpFragment(b, a))
<1>1. /\ cmpString(a.chars, b.chars) \in Sign
      /\ Opp(cmpString(a.chars, b.chars), cmpString(b.chars, a.chars))
  BY FragmentChars, cmpStringOrders
<1>2. cmpInt(a.n, b.n) \in Sign /\ Opp(cmpInt(a.n, b.n), cmpInt(b.n, a.n))
  BY FragmentChars, cmpIntOrders
<1>3. QED
  BY <1>1, <1>2 DEF cmpFragment

(* cmpFragment orders the fragments whose numbers fit an int: the words    *)
(* that start with '~', the numbers, the other words.                      *)
LEMMA cmpFragmentFits ==
    ASSUME NEW a \in Small, NEW b \in Small, NEW c \in Small
    PROVE  Fit(cmpFragment(a, b), cmpFragment(b, c), cmpFragment(a, c))
<1>1. \A f \in Small : \/ Atoi(f) /\ f.n \in Int /\ f.chars = << >>
                       \/ ~Atoi(f) /\ f.chars \in Seq(CharOrder) /\ f.chars # << >>
  BY MaxIntAssumption DEF Small, Fragment, Atoi
<1>2. cmpString(a.chars, b.chars) \in Sign /\ cmpString(b.chars, c.chars) \in Sign
      /\ cmpString(a.chars, c.chars) \in Sign
      /\ Opp(cmpString(a.chars, b.chars), cmpString(b.chars, a.chars))
      /\ Fit(cmpString(a.chars, b.chars), cmpString(b.chars, c.chars), cmpString(a.chars, c.chars))
  BY FragmentChars, cmpStringOrders DEF Small
<1>3. QED
  <2>1. CASE Atoi(a) /\ Atoi(b) /\ Atoi(c)
    BY <1>1, <2>1, cmpIntOrders DEF cmpFragment
  <2>2. CASE ~Atoi(b) \/ (~Atoi(a) /\ ~Atoi(c))
    <3>1. CASE ~Atoi(b) /\ Atoi(a) /\ Atoi(c)
      <4>1. a.chars = << >> /\ c.chars = << >>
        BY <1>1, <3>1
      <4>2. cmpString(<< >>, b.chars) # 0 /\ cmpString(b.chars, << >>) # 0
        BY <1>1, <3>1, WordIsNoNumber
      <4>3. cmpFragment(a, b) = cmpString(<< >>, b.chars) /\ cmpFragment(b, c) = cmpString(b.chars, << >>)
        BY <3>1, <4>1 DEF cmpFragment
      <4>4. /\ cmpString(<< >>, b.chars) \in Sign /\ cmpString(b.chars, << >>) \in Sign
            /\ Opp(cmpString(<< >>, b.chars), cmpString(b.chars, << >>))
        BY <1>2, <4>1
      <4>5. QED
        BY <4>2, <4>3, <4>4 DEF Fit, Sign, Opp
    <3>2. CASE ~(Atoi(a) /\ Atoi(c))
      BY <1>2, <2>2, <3>2 DEF cmpFragment
    <3>3. QED
      BY <2>2, <3>1, <3>2
  <2>3. CASE Atoi(a) /\ Atoi(b) /\ ~Atoi(c)
    <3>1. a.chars = << >> /\ b.chars = << >>
      BY <1>1, <2>3
    <3>2. cmpString(<< >>, c.chars) # 0
      BY <1>1, <2>3, WordIsNoNumber
    <3>3. cmpFragment(b, c) = cmpString(<< >>, c.chars) /\ cmpFragment(a, c) = cmpString(<< >>, c.chars)
      BY <2>3, <3>1 DEF cmpFragment
    <3>4. cmpString(<< >>, c.chars) \in Sign
      BY <1>2, <3>1
    <3>5. QED
      BY <3>2, <3>3, <3>4 DEF Fit, Sign
  <2>4. CASE ~Atoi(a) /\ Atoi(b) /\ Atoi(c)
    <3>1. b.chars = << >> /\ c.chars = << >>
      BY <1>1, <2>4
    <3>2. cmpString(a.chars, << >>) # 0
      BY <1>1, <2>4, WordIsNoNumber
    <3>3. cmpFragment(a, b) = cmpString(a.chars, << >>) /\ cmpFragment(a, c) = cmpString(a.chars, << >>)
      BY <2>4, <3>1 DEF cmpFragment
    <3>4. cmpString(a.chars, << >>) \in Sign
      BY <1>2, <3>1
    <3>5. QED
      BY <3>2, <3>3, <3>4 DEF Fit, Sign
  <2>5. QED
    BY <2>1, <2>2, <2>3, <2>4
(* The fragment that stands for a missing one.                             *)
LEMMA ZeroIsFragment == Zero \in Fragment /\ Zero \in Small
BY MaxIntAssumption DEF Zero, Number, Fragment, Small

(* The first fragments that differ decide compareSubversion.               *)
LEMMA SubversionFirst ==
    ASSUME NEW va \in Seq(Fragment), NEW vb \in Seq(Fragment)
    PROVE  /\ compareSubversion(va, vb) \in Sign
           /\ First([i \in Nat |-> cmpFragment(FragmentAt(va, i), FragmentAt(vb, i))],
                    compareSubversion(va, vb))
<1> DEFINE d == [i \in Nat |-> cmpFragment(FragmentAt(va, i), FragmentAt(vb, i))]
           differ == {i \in 1..Longer(va, vb) : cmpFragment(FragmentAt(va, i), FragmentAt(vb, i)) # 0}
<1>1. \A i \in Nat : FragmentAt(va, i) \in Fragment /\ FragmentAt(vb, i) \in Fragment
  BY ZeroIsFragment DEF FragmentAt
<1>2. \A i \in Nat : d[i] \in Sign
  BY <1>1, cmpFragmentOpposite
<1>3. cmpFragment(Zero, Zero) = 0
  BY MaxIntAssumption DEF cmpFragment, Zero, Number, Atoi, cmpInt
<1>4. \A i \in Nat : d[i] # 0 => i \in differ
  <2> SUFFICES ASSUME NEW i \in Nat, d[i] # 0
               PROVE  i \in differ
    OBVIOUS
  <2>1. i \in 1..Len(va) \/ i \in 1..Len(vb)
    BY <1>3 DEF FragmentAt
  <2>2. i \in 1..Longer(va, vb)
    BY <2>1 DEF Longer
  <2>3. QED
    BY <2>2
<1>5. CASE differ = {}
  <2>1. compareSubversion(va, vb) = 0
    BY <1>5 DEF compareSubversion
  <2>2. \A i \in Nat : d[i] = 0
    BY <1>4, <1>5
  <2>3. QED
    BY <2>1, <2>2 DEF First, Sign
<1>6. CASE differ # {}
  <2>1. differ \in SUBSET Nat
    BY DEF Longer
  <2>2. Least(differ) \in differ /\ \A j \in differ : Least(differ) <= j
    BY <1>6, <2>1, LeastIsLeast, Zenon
  <2>3. PICK k \in Nat : k = Least(differ)
    BY <2>1, <2>2, Zenon
  <2>4. compareSubversion(va, vb) = cmpFragment(FragmentAt(va, k), FragmentAt(vb, k))
    BY <1>6, <2>3 DEF compareSubversion
  <2>5. compareSubversion(va, vb) = d[k] /\ d[k] # 0
    BY <2>2, <2>3, <2>4
  <2>6. \A j \in 0..(k - 1) : d[j] = 0
    BY <1>4, <2>2, <2>3
  <2>7. QED
    BY <1>2, <2>5, <2>6 DEF First
<1>7. QED
  BY <1>5, <1>6

(* Swapping two sequences of fragments negates compareSubversion.          *)
LEMMA compareSubversionOpposite ==
    ASSUME NEW a \in Seq(Fragment), NEW b \in Seq(Fragment)
    PROVE  /\ compareSubversion(a, b) \in Sign
           /\ Opp(compareSubversion(a, b), compareSubversion(b, a))
<1> DEFINE D(x, y) == [i \in Nat |-> cmpFragment(FragmentAt(x, i), FragmentAt(y, i))]
<1>1. \A i \in Nat : FragmentAt(a, i) \in Fragment /\ FragmentAt(b, i) \in Fragment
  BY ZeroIsFragment DEF FragmentAt
<1>2. D(a, b) \in [Nat -> Sign] /\ D(b, a) \in [Nat -> Sign]
  BY <1>1, cmpFragmentOpposite
<1>3. \A i \in Nat : Opp(D(a, b)[i], D(b, a)[i])
  BY <1>1, cmpFragmentOpposite
<1>4. /\ compareSubversion(a, b) \in Sign /\ First(D(a, b), compareSubversion(a, b))
      /\ compareSubversion(b, a) \in Sign /\ First(D(b, a), compareSubversion(b, a))
  BY SubversionFirst, Zenon
<1> HIDE DEF D
<1>5. QED
  BY <1>2, <1>3, <1>4, FirstOpposite, SMTT(30)

(* compareSubversion orders the sequences of fragments whose numbers fit.  *)
LEMMA compareSubversionFits ==
    ASSUME NEW a \in Seq(Small), NEW b \in Seq(Small), NEW c \in Seq(Small)
    PROVE  Fit(compareSubversion(a, b), compareSubversion(b, c), compareSubversion(a, c))
<1> DEFINE D(x, y) == [i \in Nat |-> cmpFragment(FragmentAt(x, i), FragmentAt(y, i))]
<1>1. \A i \in Nat : /\ FragmentAt(a, i) \in Small /\ FragmentAt(b, i) \in Small
                     /\ FragmentAt(c, i) \in Small
  BY ZeroIsFragment DEF FragmentAt
<1>2. /\ D(a, b) \in [Nat -> Sign] /\ D(b, c) \in [Nat -> Sign]
      /\ D(a, c) \in [Nat -> Sign]
  BY <1>1, cmpFragmentOpposite DEF Small
<1>3. \A i \in Nat : Fit(D(a, b)[i], D(b, c)[i], D(a, c)[i])
  BY <1>1, cmpFragmentFits
<1>4. a \in Seq(Fragment) /\ b \in Seq(Fragment) /\ c \in Seq(Fragment)
  BY DEF Small
<1>5. /\ compareSubversion(a, b) \in Sign /\ First(D(a, b), compareSubversion(a, b))
      /\ compareSubversion(b, c) \in Sign /\ First(D(b, c), compareSubversion(b, c))
      /\ compareSubversion(a, c) \in Sign /\ First(D(a, c), compareSubversion(a, c))
  BY <1>4, SubversionFirst, Zenon
<1> HIDE DEF D
<1>6. QED
  BY <1>2, <1>3, <1>5, FirstFits, Zenon

(* The parts that VersionCompare compares; a version that fits has parts   *)
(* that fit.                                                               *)
LEMMA VersionParts ==
    ASSUME NEW v \in Version
    PROVE  /\ Main(v) \in Seq(Fragment) /\ Revision(v) \in Seq(Fragment)
           /\ Fits(v) => Main(v) \in Seq(Small) /\ Revision(v) \in Seq(Small)
<1>1. <<Zero>> \in Seq(Fragment) /\ <<Zero>> \in Seq(Small)
  BY ZeroIsFragment
<1>2. v.main \in Seq(Fragment) /\ v.rev \in Seq(Fragment)
  BY DEF Version
<1>3. ASSUME NEW s \in Seq(Fragment), \A i \in 1..Len(s) : s[i].n <= MaxInt
      PROVE  s \in Seq(Small)
  <2>1. \A i \in 1..Len(s) : s[i] \in Small
    BY <1>3 DEF Small
  <2>2. s \in [1..Len(s) -> Small] /\ Len(s) \in Nat
    BY <2>1
  <2>3. QED
    BY <2>2
<1>4. Fits(v) => v.main \in Seq(Small) /\ v.rev \in Seq(Small)
  BY <1>2, <1>3 DEF Fits
<1>5. QED
  BY <1>1, <1>2, <1>4 DEF Main, Revision

(* VersionCompare (sort.go) of any versions negates its result when the    *)
(* arguments are swapped, and it is a total preorder on those whose        *)
(* numbers fit an int: the results along a chain fit together.             *)
THEOREM VersionCompareIsOrder ==
    ASSUME NEW va \in Version, NEW vb \in Version, NEW vc \in Version
    PROVE  /\ VersionCompare(va, vb) \in Sign
           /\ Opp(VersionCompare(va, vb), VersionCompare(vb, va))
           /\ Fits(va) /\ Fits(vb) /\ Fits(vc) =>
                 Fit(VersionCompare(va, vb), VersionCompare(vb, vc), VersionCompare(va, vc))
<1> DEFINE M(x, y) == compareSubversion(Main(x), Main(y))
           R(x, y) == compareSubversion(Revision(x), Revision(y))
<1>1. \A x, y \in Version : M(x, y) \in Sign /\ Opp(M(x, y), M(y, x))
  BY VersionParts, compareSubversionOpposite
<1>2. \A x, y \in Version : R(x, y) \in Sign /\ Opp(R(x, y), R(y, x))
  BY VersionParts, compareSubversionOpposite
<1>3. Fits(va) /\ Fits(vb) /\ Fits(vc) =>
          Fit(M(va, vb), M(vb, vc), M(va, vc)) /\ Fit(R(va, vb), R(vb, vc), R(va, vc))
  BY VersionParts, compareSubversionFits
<1>4. \A x, y \in Version : VersionCompare(x, y) = IF M(x, y) # 0 THEN M(x, y) ELSE R(x, y)
  BY DEF VersionCompare
<1> HIDE DEF M, R
<1>5. VersionCompare(va, vb) \in Sign
  BY <1>1, <1>2, <1>4
<1>6. Opp(VersionCompare(va, vb), VersionCompare(vb, va))
  BY <1>1, <1>2, <1>4 DEF Sign, Opp
<1>7. Fits(va) /\ Fits(vb) /\ Fits(vc) =>
          Fit(VersionCompare(va, vb), VersionCompare(vb, vc), VersionCompare(va, vc))
  <2>1. /\ M(va, vb) \in Sign /\ M(vb, vc) \in Sign /\ M(va, vc) \in Sign
        /\ R(va, vb) \in Sign /\ R(vb, vc) \in Sign /\ R(va, vc) \in Sign
    BY <1>1, <1>2
  <2>2. QED
    BY <1>3, <1>4, <2>1 DEF Fit, Sign
<1>8. QED
  BY <1>5, <1>6, <1>7

----------------------------------------------------------------------------
(* The same in terms of <=, as the sort needs it.                          *)
LEMMA VersionsCompare ==
    /\ \A a, b \in Version : VersionCompare(a, b) < 0 => VersionCompare(a, b) <= 0
    /\ \A a, b \in Version : ~(VersionCompare(a, b) < 0) => VersionCompare(b, a) <= 0
    /\ \A a, b, c \in Version :
          /\ Fits(a) /\ Fits(b) /\ Fits(c)
          /\ VersionCompare(a, b) <= 0 /\ VersionCompare(b, c) <= 0
          => VersionCompare(a, c) <= 0
<1>1. \A a, b \in Version : VersionCompare(a, b) < 0 => VersionCompare(a, b) <= 0
  BY VersionCompareIsOrder DEF Sign
<1>2. \A a, b \in Version : ~(VersionCompare(a, b) < 0) => VersionCompare(b, a) <= 0
  BY VersionCompareIsOrder DEF Sign, Opp
<1>3. ASSUME NEW a \in Version, NEW b \in Version, NEW c \in Version,
             Fits(a), Fits(b), Fits(c),
             VersionCompare(a, b) <= 0, VersionCompare(b, c) <= 0
      PROVE  VersionCompare(a, c) <= 0
  BY <1>3, VersionCompareIsOrder DEF Sign, Fit
<1>4. QED
  BY <1>1, <1>2, <1>3

InOrder(p, q) == VersionCompare(list[p], list[q]) <= 0

AllFit == \A i \in 1..Parts : Fits(list[i])

(* While the part at place goes down, the parts up to next are in order    *)
(* but for what stands before place: each with the one before it, the part *)
(* that goes down left out, and each with all before it if all fit.        *)
SortInv ==
    /\ SortTypeOK
    /\ next > Parts => place = next
    /\ \A p, q \in 1..Parts :
          /\ q <= next /\ q # place
          /\ p = q - 1 \/ (p = q - 2 /\ p = place - 1)
          => InOrder(p, q)
    /\ AllFit => \A p, q \in 1..Parts : p < q /\ q <= next /\ q # place => InOrder(p, q)

\* Before the first insertion one version is in order by itself.
LEMMA SortInvInit == SortInit => SortInv
BY ListAssumption DEF SortInit, SortInv, SortTypeOK

\* A swap moves the gap down: what is above it stays above.
LEMMA SortInvSwap == SortInv /\ Swap => SortInv'
<1> SUFFICES ASSUME SortInv, Swap
             PROVE  SortInv'
  OBVIOUS
<1> USE ListAssumption
<1>1. /\ list \in [1..Parts -> Version] /\ next \in 1..Parts /\ place \in 2..next
      /\ next' = next /\ place' = place - 1
  BY DEF SortInv, SortTypeOK, Swap
<1>2. /\ list' \in [1..Parts -> Version]
      /\ list'[place] = list[place - 1] /\ list'[place - 1] = list[place]
      /\ \A p \in 1..Parts : p # place /\ p # place - 1 => list'[p] = list[p]
  BY <1>1 DEF Swap
<1>3. InOrder(place, place - 1)
  BY <1>1, VersionsCompare DEF Swap, Less, InOrder
<1>4. ASSUME NEW p \in 1..Parts, NEW q \in 1..Parts, q <= next, q # place - 1,
             p = q - 1 \/ (p = q - 2 /\ p = place - 2)
      PROVE  InOrder(p, q)'
  <2>1. CASE q = place /\ p = place - 1
    BY <1>2, <1>3, <2>1 DEF InOrder
  <2>2. CASE q = place /\ p = place - 2
    <3>1. InOrder(p, place - 1)
      BY <1>1, <1>4, <2>2 DEF SortInv
    <3>2. QED
      BY <1>1, <1>2, <1>4, <2>2, <3>1 DEF InOrder
  <2>3. CASE q # place /\ p = place
    <3>1. q = place + 1 /\ InOrder(place - 1, q)
      BY <1>1, <1>4, <2>3 DEF SortInv
    <3>2. QED
      BY <1>1, <1>2, <1>4, <2>3, <3>1 DEF InOrder
  <2>4. CASE q # place /\ p # place
    <3>1. p = q - 1 /\ p # place - 1 /\ InOrder(p, q)
      BY <1>1, <1>4, <2>4 DEF SortInv
    <3>2. QED
      BY <1>1, <1>2, <1>4, <2>4, <3>1 DEF InOrder
  <2>5. QED
    BY <1>1, <1>4, <2>1, <2>2, <2>3, <2>4
<1>5. AllFit' => AllFit
  <2> SUFFICES ASSUME AllFit', NEW p \in 1..Parts
               PROVE  Fits(list[p])
    BY DEF AllFit
  <2>1. \E r \in 1..Parts : list'[r] = list[p]
    BY <1>1, <1>2
  <2>2. QED
    BY <2>1 DEF AllFit
<1>6. ASSUME AllFit', NEW p \in 1..Parts, NEW q \in 1..Parts, p < q, q <= next, q # place - 1
      PROVE  InOrder(p, q)'
  <2>0. \A i, j \in 1..Parts : i < j /\ j <= next /\ j # place => InOrder(i, j)
    BY <1>5, <1>6 DEF SortInv
  <2>1. CASE q = place /\ p = place - 1
    BY <1>2, <1>3, <2>1 DEF InOrder
  <2>2. CASE q = place /\ p # place - 1
    BY <1>1, <1>2, <1>6, <2>0, <2>2 DEF InOrder
  <2>3. CASE q # place /\ p = place - 1
    BY <1>1, <1>2, <1>6, <2>0, <2>3 DEF InOrder
  <2>4. CASE q # place /\ p = place
    BY <1>1, <1>2, <1>6, <2>0, <2>4 DEF InOrder
  <2>5. CASE q # place /\ p # place /\ p # place - 1
    BY <1>1, <1>2, <1>6, <2>0, <2>5 DEF InOrder
  <2>6. QED
    BY <2>1, <2>2, <2>3, <2>4, <2>5
<1>7. SortTypeOK'
  BY <1>1, <1>2 DEF SortTypeOK
<1>8. \A p, q \in 1..Parts :
          /\ q <= next' /\ q # place'
          /\ p = q - 1 \/ (p = q - 2 /\ p = place' - 1)
          => InOrder(p, q)'
  BY <1>1, <1>4
<1>9. AllFit' => \A p, q \in 1..Parts : p < q /\ q <= next' /\ q # place' => InOrder(p, q)'
  BY <1>1, <1>6
<1>10. QED
  BY <1>1, <1>7, <1>8, <1>9 DEF SortInv

\* An insertion that ends leaves one more version in order.
LEMMA SortInvInsert == SortInv /\ Insert => SortInv'
<1> SUFFICES ASSUME SortInv, Insert
             PROVE  SortInv'
  OBVIOUS
<1> USE ListAssumption
<1>1. /\ list \in [1..Parts -> Version] /\ next \in 1..Parts /\ place \in 1..next
      /\ next' = next + 1 /\ place' = next + 1 /\ list' = list
  BY DEF SortInv, SortTypeOK, Insert
<1>2. place > 1 => InOrder(place - 1, place)
  BY <1>1, VersionsCompare DEF Insert, Less, InOrder
<1>3. \A p, q \in 1..Parts : q <= next /\ p = q - 1 => InOrder(p, q)
  BY <1>1, <1>2 DEF SortInv
<1>4. ASSUME AllFit, NEW p \in 1..Parts, p < place
      PROVE  InOrder(p, place)
  <2>1. CASE p = place - 1
    BY <1>1, <1>2, <1>4, <2>1
  <2>2. CASE p < place - 1
    <3>1. InOrder(p, place - 1)
      BY <1>1, <1>4, <2>2 DEF SortInv
    <3>2. \A r \in {p, place - 1, place} : list[r] \in Version /\ Fits(list[r])
      BY <1>1, <1>4, <2>2 DEF AllFit
    <3>3. InOrder(place - 1, place)
      BY <1>1, <1>2, <1>4
    <3>4. QED
      BY <3>1, <3>2, <3>3, VersionsCompare DEF InOrder
  <2>3. QED
    BY <1>1, <1>4, <2>1, <2>2
<1>5. AllFit => \A p, q \in 1..Parts : p < q /\ q <= next => InOrder(p, q)
  BY <1>4 DEF SortInv
<1>6. SortTypeOK'
  BY <1>1 DEF SortTypeOK
<1>7. (\A p, q \in 1..Parts : InOrder(p, q)' <=> InOrder(p, q)) /\ (AllFit' <=> AllFit)
  BY <1>1 DEF InOrder, AllFit
<1>8. QED
  BY <1>1, <1>3, <1>5, <1>6, <1>7 DEF SortInv

(* For any list of versions, whatever their numbers, the sort ends with no *)
(* two neighbours the wrong way round, and if every number in the list     *)
(* fits an int, with the list in order from end to end.                    *)
THEOREM SortIsSorted == SortSpec => []SortedByVersion
<1>1. SortInv /\ [SortNext]_sortVars => SortInv'
  <2>1. SortInv /\ UNCHANGED sortVars => SortInv'
    BY DEF SortInv, SortTypeOK, sortVars, InOrder, AllFit
  <2>2. QED
    BY <2>1, SortInvSwap, SortInvInsert DEF SortNext
<1>2. SortInv => SortedByVersion
  BY ListAssumption DEF SortInv, SortTypeOK, SortedByVersion, InOrder, AllFit
<1>3. QED
  BY <1>1, <1>2, SortInvInit, PTL DEF SortSpec
=============================================================================
