---------------------------- MODULE ArrayExercises ----------------------------
(***************************************************************************)
(* The exercises on arrays and strings of SortViewController,               *)
(* StringArrayViewController and StringViewController.  Arrays are          *)
(* functions on 0 .. n-1, a matrix one of rows.  A loop of the code is a    *)
(* recursive operator over the variables it changes.                        *)
(***************************************************************************)
EXTENDS Exercise

CONSTANTS
    Values,         \* of the elements of the arrays
    oldestAge,
    metrix,         \* the sorted matrix that is searched
    INT_MAX,
    DigitValue      \* of the characters that are digits

ASSUME AgeAssumption == oldestAge \in Nat /\ Values \subseteq 0 .. oldestAge
ASSUME IntAssumption == INT_MAX \in Nat /\ DigitValue \in [DOMAIN DigitValue -> 0 .. 9]

INT_MIN == -INT_MAX - 1

Index(a)  == DOMAIN a
Size(a)   == Cardinality(DOMAIN a)
Sorted(a) == \A i, j \in Index(a) : i < j => a[i] <= a[j]
Count(a, v)   == Cardinality({i \in Index(a) : a[i] = v})
Distinct(a)   == \A i, j \in Index(a) : a[i] = a[j] => i = j
SameItems(a, b) == \A v \in Values : Count(a, v) = Count(b, v)
-----------------------------------------------------------------------------
\* swap; the variant loses the first of the two.
swap(a, i, j) == [a EXCEPT ![i] = a[j], ![j] = a[i]]
SwapNoTemp(a, i, j) == [a EXCEPT ![i] = a[j]]

\* partion: what is not larger than the last goes to the front; the last then changes
\* places with the last of those.  <<array, i>>.
RECURSIVE Collect(_, _, _, _, _)
Collect(a, key, i, j, ln) ==
    IF j = ln THEN <<a, i>>
    ELSE IF a[j] <= key THEN Collect(swap(a, i + 1, j), key, i + 1, j + 1, ln)
    ELSE Collect(a, key, i, j + 1, ln)
partion(a, l0, ln) ==
    LET c == Collect(a, a[ln], l0 - 1, l0, ln)
    IN  IF c[2] \in Index(a) THEN <<swap(c[1], ln, c[2]), c[2]>> ELSE Crash

RECURSIVE quickSort(_, _, _)
quickSort(a, a0, al) ==
    IF a = Crash \/ {a0, al} \cap Index(a) # {a0, al} THEN Crash
    ELSE IF a[a0] >= a[al] THEN a
    ELSE LET p == partion(a, a0, al)
         IN  IF p = Crash THEN Crash
             ELSE quickSort(quickSort(p[1], a0, p[2] - 1), p[2] + 1, al)

\* sortAges: every age below the oldest, as often as it was counted, from the front on.
RECURSIVE WriteAges(_, _, _, _)
WriteAges(ages, total, age, times) ==
    IF age = oldestAge THEN ages
    ELSE WriteAges([i \in Index(ages) |-> IF i \in total .. total + times[age] - 1 THEN age ELSE ages[i]],
                   total + times[age], age + 1, times)
smallestAge(ages) == CHOOSE v \in Values : \E i \in Index(ages) :
                         ages[i] = v /\ \A j \in Index(ages) : v <= ages[j]
AgesFromTheNext(ages) ==
    WriteAges(ages, 0, smallestAge(ages) + 1, [v \in 0 .. oldestAge |-> Count(ages, v)])
sortAges(ages) == WriteAges(ages, 0, smallestAge(ages), [v \in 0 .. oldestAge |-> Count(ages, v)])

\* smalletItem: halve until the two indices are neighbours, and return the first.
RECURSIVE Halves(_, _, _)
Halves(a, index1, index2) ==
    LET mid == index1 + (index2 - index1) \div 2 IN
    IF index2 - index1 = 1 THEN index1
    ELSE IF mid = index1 THEN Endless
    ELSE IF a[mid] >= a[index1] THEN Halves(a, mid, index2)
    ELSE IF a[mid] <= a[index2] THEN Halves(a, index1, mid)
    ELSE Endless
SecondOfTheTwo(a) == LET i == Halves(a, 0, Size(a) - 1) IN IF i = Endless THEN i ELSE i + 1
smalletItem(a) == Halves(a, 0, Size(a) - 1)

\* Fibonacci: the loop runs while i < n.
RECURSIVE Add(_, _, _, _, _)
Add(i, n, one, two, fibN) == IF i >= n THEN fibN ELSE Add(i + 1, n, one + two, one, one + two)
ThroughN(n)  == IF n < 2 THEN n ELSE Add(2, n + 1, 0, 1, 0)
Fibonacci(n) == IF n < 2 THEN n ELSE Add(2, n, 0, 1, 0)
-----------------------------------------------------------------------------
\* _getValueIndexForMetrix, from the upper right corner while there are columns to the
\* left: <<row, column>>, or nil.
RECURSIVE Search(_, _, _)
Search(value, row, column) ==
    IF row = Size(metrix) \/ column <= 0 THEN NULL
    ELSE IF metrix[row][column] = value THEN <<row, column>>
    ELSE IF value < metrix[row][column] THEN Search(value, row, column - 1)
    ELSE Search(value, row + 1, column)
FromTheSecondRow(value) == Search(value, 1, Size(metrix[0]) - 1)
getValueIndex(value) == Search(value, 0, Size(metrix[0]) - 1)

\* _replaceBlankToANSCIIString: read from the end of the string, write from the end of
\* the longer one, in the same buffer.
RECURSIVE Widen(_, _, _)
Widen(s, strLength, newStrLength) ==
    IF ~(strLength > 0 /\ newStrLength > strLength) THEN s
    ELSE LET c == s[strLength - 1]
             n == newStrLength - 1
         IN  IF c # " " THEN Widen([s EXCEPT ![n] = c], strLength - 1, n)
             ELSE Widen([s EXCEPT ![n] = "0", ![n - 1] = "2", ![n - 2] = "%"], strLength - 1, n - 2)
StrLength(s) == CHOOSE n \in Index(s) : s[n] = "NUL" /\ \A i \in 0 .. n - 1 : s[i] # "NUL"
NewLength(s) == StrLength(s) + 2 * Cardinality({i \in Index(s) : s[i] = " "})
OneShort(s)     == Widen(s, StrLength(s), NewLength(s) - 1)
replaceBlank(s) == Widen(s, StrLength(s), NewLength(s))

\* strToInt, one character after the other.  The variant lets a positive number pass
\* that is one too large.
BeyondMin(r, v) == r > INT_MAX \div 10 \/ (r = INT_MAX \div 10 /\ v > INT_MAX % 10)
OnlyLonger(r, v) == r > INT_MAX \div 10
BeyondMax(r, v) == r > INT_MAX \div 10 \/ (r = INT_MAX \div 10 /\ v >= INT_MAX % 10)

RECURSIVE Read(_, _, _, _, _, _)
Read(str, result_, negSign, hasCount, hasSign, c) ==
    CASE c > Len(str) -> negSign * result_
      [] c <= Len(str) /\ str[c] = " " /\ ~hasCount ->
            Read(str, result_, negSign, hasCount, hasSign, c + 1)
      [] c <= Len(str) /\ str[c] \in {"+", "-"} /\ ~hasCount /\ ~hasSign ->
            Read(str, result_, IF str[c] = "-" THEN -1 ELSE negSign, hasCount, TRUE, c + 1)
      [] c <= Len(str) /\ str[c] \in DOMAIN DigitValue ->
            LET value == DigitValue[str[c]] IN
            IF negSign = -1 /\ BeyondMin(result_, value) THEN INT_MIN
            ELSE IF negSign = 1 /\ BeyondMax(result_, value) THEN INT_MAX
            ELSE Read(str, result_ * 10 + value, negSign, TRUE, hasSign, c + 1)
      [] OTHER -> negSign * result_
strToInt(str) == Read(str, 0, 1, FALSE, FALSE, 1)
-----------------------------------------------------------------------------
(* One call.  Lengths bounds the arrays and strings, for TLC.               *)

CONSTANTS Lengths, Letters, MaxN

Arrays  == UNION {[0 .. n - 1 -> Values] : n \in Lengths}
Strings == UNION {[1 .. n -> Letters \cup {" "}] : n \in Lengths}
Numbers == UNION {[1 .. n -> DOMAIN DigitValue \cup {" ", "+", "-", "x"}] : n \in Lengths}

\* A sorted array, some of whose first elements have moved to its end.
Rotated(a) == \E k \in Index(a) : Sorted([i \in Index(a) |-> a[(i + k) % Size(a)]])

\* str in a buffer that has room for the longest result, the rest of it zero.
Buffer(str) == [i \in 0 .. 3 * Len(str) |-> IF i < Len(str) THEN str[i + 1] ELSE "NUL"]

CallOnArray(a) ==
    \/ Called("quickSort", <<a>>, quickSort(a, 0, Size(a) - 1))
    \/ Called("sortAges", <<a>>, sortAges(a))
    \/ Rotated(a) /\ Called("smalletItem", <<a>>, smalletItem(a))

CallOnString ==
    \/ \E str \in Strings : Called("replaceBlank", <<str>>, replaceBlank(Buffer(str)))
    \/ \E str \in Numbers : Called("strToInt", <<str>>, strToInt(str))

CallOnNumber(n) ==
    \/ Called("Fibonacci", <<n>>, Fibonacci(n))
    \/ Called("getValueIndex", <<n>>, getValueIndex(n))

ArrayStep ==
    /\ call = <<>>
    /\ \/ \E a \in Arrays : CallOnArray(a)
       \/ CallOnString
       \/ \E n \in 0 .. MaxN : CallOnNumber(n)
-----------------------------------------------------------------------------
(* Properties.                                                             *)

\* quickSort moves the elements of the array and loses none, or it reads in front of the
\* array, which it does when its pivot ends up first; and where it does not, an array of
\* different elements whose first is smaller than its last is never sorted, as
\* the pivot changes places with the last of the smaller (SortViewController.m:73).
QuickSortLeavesItUnsorted ==
    Answered("quickSort") /\ result # Crash =>
      /\ SameItems(result, call[2])
      /\ Distinct(call[2]) /\ call[2][0] < call[2][Size(call[2]) - 1] => ~Sorted(result)

\* sortAges sorts the ages below the oldest into the first cells; an oldest one is
\* never written back and the last cells keep what was there (:105).
SortAgesForgetsTheOldest ==
    Answered("sortAges") =>
      LET ages == call[2]
          n    == Size(ages) - Count(ages, oldestAge)
      IN  /\ \A i, j \in 0 .. n - 1 : i < j => result[i] <= result[j]
          /\ \A v \in Values \ {oldestAge} :
                Cardinality({i \in 0 .. n - 1 : result[i] = v}) = Count(ages, v)
          /\ \A i \in n .. Size(ages) - 1 : result[i] = ages[i]

\* smalletItem of a rotated sorted array of different elements returns the index of the
\* one before the smallest, in an array that is not rotated of the last but one, and does
\* not return if there is just one element (:128).
SmalletItemIsBeforeTheSmallest ==
    Answered("smalletItem") /\ Distinct(call[2]) =>
      LET a == call[2] IN
      IF Size(a) = 1 THEN result = Endless
      ELSE result = IF Sorted(a) THEN Size(a) - 2
                    ELSE CHOOSE i \in Index(a) : \A j \in Index(a) : a[j] <= a[i]

\* Fibonacci returns the number two places before the n-th, from the second on: the
\* loop starts at n = 2 with the numbers 0 and 1 and does not reach n (:155).
FibonacciIsTwoBehind ==
    Answered("Fibonacci") =>
      LET n == call[2]
          F[k \in 0 .. n] == IF k < 2 THEN k ELSE F[k - 1] + F[k - 2]
      IN  result = IF n < 2 THEN n ELSE F[n - 2]

\* The search of the sorted matrix finds a number if it is in a column other than the
\* first, and tells where (StringArrayViewController.m:46).
SearchMissesTheFirstColumn ==
    Answered("getValueIndex") =>
      LET At(r, c) == metrix[r][c] = call[2]
          rows     == Index(metrix)
          columns  == Index(metrix[0]) \ {0}
      IN  IF result = NULL THEN \A r \in rows, c \in columns : ~At(r, c)
          ELSE result[1] \in rows /\ result[2] \in columns /\ At(result[1], result[2])

\* replaceBlank leaves the string with each blank as %20 and nothing else changed,
\* although it reads and writes in one buffer (:63).
BlanksAreReplacedInPlace ==
    Answered("replaceBlank") =>
      LET str == call[2]
          Expanded[i \in 0 .. Len(str)] ==
              IF i = 0 THEN <<>>
              ELSE Expanded[i - 1] \o (IF str[i] = " " THEN <<"%", "2", "0">> ELSE <<str[i]>>)
          new == Expanded[Len(str)]
      IN  \A i \in Index(result) : result[i] = IF i < Len(new) THEN new[i + 1] ELSE "NUL"

\* strToInt returns the number the string starts with, or the nearest there is: blanks
\* and one sign in any order, then digits (StringViewController.m:48).
StrToIntIsTheNearestInt ==
    Answered("strToInt") =>
      LET str      == call[2]
          Digits   == DOMAIN DigitValue
          starts   == {i \in DOMAIN str :
                          /\ str[i] \in Digits
                          /\ \A j \in 1 .. i - 1 : str[j] \in {" ", "+", "-"}
                          /\ Cardinality({j \in 1 .. i - 1 : str[j] # " "}) <= 1}
          Exact(i) ==
              LET V[k \in i - 1 .. Len(str)] ==
                      IF k < i THEN 0
                      ELSE IF \A j \in i .. k : str[j] \in Digits
                      THEN V[k - 1] * 10 + DigitValue[str[k]] ELSE V[k - 1]
              IN  IF \E j \in 1 .. i - 1 : str[j] = "-" THEN -V[Len(str)] ELSE V[Len(str)]
          Nearest(v) == IF v > INT_MAX THEN INT_MAX ELSE IF v < INT_MIN THEN INT_MIN ELSE v
      IN  result = IF starts = {} THEN 0 ELSE Nearest(Exact(CHOOSE i \in starts : TRUE))

-----------------------------------------------------------------------------
\* What the loops over arrays and numbers leave or find, at the first and the last
\* index as well as between.
LoopsReachTheirEnds ==
    /\ QuickSortLeavesItUnsorted
    /\ SortAgesForgetsTheOldest
    /\ SmalletItemIsBeforeTheSmallest
    /\ FibonacciIsTwoBehind
    /\ SearchMissesTheFirstColumn

\* What becomes of a string that is rewritten in place or read as a number.
StringsAreConverted ==
    /\ BlanksAreReplacedInPlace
    /\ StrToIntIsTheNearestInt
=============================================================================
