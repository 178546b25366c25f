------------------------------ MODULE Versions ------------------------------
(***************************************************************************)
(* How versions compare (snappy/sort.go).  A version is a main part and a  *)
(* revision; each is a sequence of fragments, which are numbers or strings *)
(* without digits.  A string is the sequence of the orders of its          *)
(* characters; a string of digits has order 0 throughout, as has the       *)
(* padding, and is written << >>.                                          *)
(***************************************************************************)
EXTENDS Integers, Sequences

CONSTANTS MaxInt,   \* the largest int
          Known,    \* the versions there are
          Parts     \* how many a list holds

ASSUME MaxIntAssumption == MaxInt \in Nat

\* What a character compares as: only digits compare as 0.
CharOrder == Int \ {0}

Number(n) == [n |-> n, chars |-> << >>]

Word(s) == [n |-> -1, chars |-> s]

Zero == Number(0)

\* A number may be larger than any int.
Fragment ==
    {f \in [n : Int, chars : Seq(CharOrder)] :
        IF f.chars = << >> THEN f.n \in Nat ELSE f.n = -1}

\* chOrder: '~', the letters, and the others after them.
chOrder(code) ==
    CASE code = 126 -> -1
      [] code \in (65..90) \union (97..122) -> code
      [] code \in 48..57 -> 0
      [] OTHER -> code + 256

cmpInt(a, b) == IF a < b THEN -1 ELSE IF a > b THEN 1 ELSE 0

Longer(a, b) == IF Len(a) < Len(b) THEN Len(b) ELSE Len(a)

Least(S) == CHOOSE i \in S : \A j \in S : i <= j

CharAt(s, i) == IF i \in 1..Len(s) THEN s[i] ELSE 0

\* Variant: strings are compared as far as the shorter one goes.
cmpStringShort(a, b) ==
    LET differ == {i \in DOMAIN a \intersect DOMAIN b : cmpInt(a[i], b[i]) # 0}
    IN  IF differ = {} THEN 0 ELSE cmpInt(a[Least(differ)], b[Least(differ)])

\* The first difference decides.
cmpString(a, b) ==
    LET differ == {i \in 1..Longer(a, b) : cmpInt(CharAt(a, i), CharAt(b, i)) # 0}
        first == Least(differ)
    IN  IF differ = {} THEN 0 ELSE cmpInt(CharAt(a, first), CharAt(b, first))

\* strconv.Atoi returns no error: a number that fits an int.
Atoi(f) == f.n \in 0..MaxInt

(* What Atoi refuses is compared as a string, so that a number that does   *)
(* not fit is equal to every number.                                       *)
cmpFragment(a, b) == IF Atoi(a) /\ Atoi(b) THEN cmpInt(a.n, b.n) ELSE cmpString(a.chars, b.chars)

FragmentAt(v, i) == IF i \in 1..Len(v) THEN v[i] ELSE Zero

compareSubversion(va, vb) ==
    LET differ == {i \in 1..Longer(va, vb) : cmpFragment(FragmentAt(va, i), FragmentAt(vb, i)) # 0}
        first == Least(differ)
    IN  IF differ = {} THEN 0 ELSE cmpFragment(FragmentAt(va, first), FragmentAt(vb, first))

\* A version; valid is what VersionIsValid says of it.
Version == [valid : BOOLEAN, main : Seq(Fragment), rev : Seq(Fragment)]

(* An invalid version counts as "0", and one without a revision has the    *)
(* revision "0".                                                           *)
Main(v) == IF v.valid THEN v.main ELSE <<Zero>>

Revision(v) == IF v.valid /\ v.rev # << >> THEN v.rev ELSE <<Zero>>

VersionCompare(va, vb) ==
    LET main == compareSubversion(Main(va), Main(vb))
    IN  IF main # 0 THEN main ELSE compareSubversion(Revision(va), Revision(vb))

----------------------------------------------------------------------------
(* sort.Sort of a few parts, which is by insertion: part number place of   *)
(* the list goes down from number next on while it is Less than the one    *)
(* before it.  GarbageCollect, Rollback and the bags of lightweight read   *)
(* the older versions off the sorted list by their index.                  *)

ASSUME ListAssumption == Known \subseteq Version /\ Parts \in Nat \ {0}

VARIABLES list, next, place

sortVars == <<list, next, place>>

SortInit == list \in [1..Parts -> Known] /\ next = 1 /\ place = 1

\* ByVersion.Less.
Less(a, b) == VersionCompare(list[a], list[b]) < 0

\* ByVersion.Swap.
Swap ==
    /\ next <= Parts /\ place > 1 /\ Less(place, place - 1)
    /\ list' = [list EXCEPT ![place] = list[place - 1], ![place - 1] = list[place]]
    /\ place' = place - 1 /\ UNCHANGED next

Insert ==
    /\ next <= Parts /\ ~(place > 1 /\ Less(place, place - 1))
    /\ next' = next + 1 /\ place' = next + 1 /\ UNCHANGED list

SortNext == Swap \/ Insert

SortSpec == SortInit /\ [][SortNext]_sortVars

SortTypeOK ==
    /\ list \in [1..Parts -> Version]
    /\ next \in 1..(Parts + 1) /\ place \in 1..next

\* A version all of whose numbers fit an int.
Fits(v) == \A s \in {v.main, v.rev} : \A i \in 1..Len(s) : s[i].n <= MaxInt

(* SortedByVersion: no version in a sorted list is before one that is Less *)
(* than it next to it, and the list is in order from end to end, though    *)
(* Less is only asked about neighbours, if every number in it fits an int  *)
(* (sort.go; install.go:186 and rollback.go:48 read older versions off it  *)
(* by index).  A number that does not fit is equal to every number, so     *)
(* that one version that has it hides the order of the others: 1, a larger *)
(* number than any int and 0 stay as they are.                             *)
SortedByVersion ==
    next = Parts + 1 =>
        /\ \A i \in 2..Parts : VersionCompare(list[i - 1], list[i]) <= 0
        /\ (\A i \in 1..Parts : Fits(list[i])) =>
              \A i, j \in 1..Parts : i < j => VersionCompare(list[i], list[j]) <= 0
=============================================================================
