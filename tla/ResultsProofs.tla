---------------------------- MODULE ResultsProofs ----------------------------
(***************************************************************************)
(* What becomes of an answer, for every answer, ceiling and selection: what*)
(* is retained, excerpted and read piece by piece is what Gitea sent.      *)
(***************************************************************************)
EXTENDS RetainedResults, FiniteSetTheorems, WellFoundedInduction, TLAPS

-----------------------------------------------------------------------------
(* What is retained *)

Held == Payload(Data, Upstream.header, Upstream.declared)

(* The reply and the payload are made of the answer, and stay so.          *)
Made ==
  /\ answer \in [upstream : Answers, ceiling : Ceilings, kept : BOOLEAN]
  /\ reply # Absent => reply = Reply(Data, Upstream.headers, answer.ceiling, answer.kept)
  /\ retained # Absent => retained = Held

LEMMA MadeInit == Init => Made
  BY DEF Init, Made

LEMMA MadeKept == Made /\ [Next]_vars => Made'
<1> SUFFICES ASSUME Made, [Next]_vars PROVE Made'
  OBVIOUS
<1>1. answer' = answer
  BY DEF Next, vars, Respond, Begin, SelectNext, Lose
<1>2. Data' = Data /\ Upstream' = Upstream /\ Held' = Held
  BY <1>1 DEF Data, Upstream, Held
<1>3. CASE Respond
  BY <1>1, <1>2, <1>3 DEF Respond, Made, Upstream, Held
<1>4. CASE Lose
  BY <1>1, <1>2, <1>4 DEF Lose, Made
<1>5. CASE UNCHANGED <<reply, retained>>
  BY <1>1, <1>2, <1>5 DEF Made
<1> QED
  BY <1>3, <1>4, <1>5 DEF Next, vars, Begin, SelectNext

(* Each media type is of one sort.                                         *)
LEMMA Types ==
  /\ \A type \in Json : IsTextual(type) /\ DeclaresJson(type) /\ type # Absent
  /\ \A type \in {Absent} \cup PlainText \cup Xml : ~DeclaresJson(type)
  /\ \A type \in PlainText \cup Xml \cup {"text/plain"} : IsTextual(type)
  /\ ~IsTextual("application/octet-stream") /\ ~IsTextual(Absent) /\ IsTextual("application/json")
  BY RetainedResultsAssumption DEF IsTextual, DeclaresJson, Json, Xml, PlainText

LEMMA HeldReadsBack ==
  ASSUME Made, Restorable
  PROVE  LET contents == Contents(Held)
         IN /\ contents.of = Upstream.body
            /\ contents.form = IF Data.is = "string" \/ Upstream.body.is # "bytes" THEN "text" ELSE "blob"
<1> DEFINE type == Effective(Upstream.header, Upstream.declared)
<1>1. /\ WellFormed(Upstream.body, type) /\ Decodes(type, Upstream.body)
      /\ Data = Decoded(type, Upstream.body) /\ EffectiveType = type
  BY RetainedResultsAssumption DEF Made, Data, EffectiveType, Upstream
<1> HIDE DEF type
<1>2. CASE Upstream.body.is # "bytes"
  <2>1. Data = Upstream.body /\ type \in Json
    BY <1>1, <1>2 DEF Decoded, WellFormed
  <2>2. Held = [body |-> Upstream.body, type |-> "application/json"]
    BY <2>1, Types DEF Held, Payload, type
  <2> QED
    BY <1>2, <2>2, Types DEF Contents
<1>3. CASE Upstream.body.is = "bytes"
  <2> DEFINE s == Upstream.body.bytes
  <2>1. Upstream.body = [is |-> "bytes", bytes |-> s] /\ s # <<>>
    BY <1>1, <1>3 DEF WellFormed, Restorable
  <2> HIDE DEF s
  <2>2. CASE type \in {Absent} \cup PlainText \cup Xml /\ IsUtf8(s)
    <3>1. Data = Text(s)
      BY <1>1, <1>3, <2>1, <2>2 DEF Decoded, s
    <3>2. Data.is = "string" /\ Data.bytes = s
      BY <3>1 DEF Text
    <3>3. Held = [body |-> [is |-> "bytes", bytes |-> s],
                  type |-> IF type = Absent THEN "text/plain" ELSE type]
      BY <2>2, <3>2, Types DEF Held, Payload, type
    <3>4. IsTextual(IF type = Absent THEN "text/plain" ELSE type)
      BY <2>2, Types
    <3> QED
      BY <2>1, <2>2, <3>2, <3>3, <3>4 DEF Contents
  <2>3. CASE ~(type \in {Absent} \cup PlainText \cup Xml /\ IsUtf8(s))
    <3>1. Data = Wrapped(s)
      BY <1>1, <1>3, <2>1, <2>3 DEF Decoded, s
    <3>2. Data.is = "object" /\ IsWrapper(Data) /\ Data.fields["content"].bytes = s
      BY <3>1 DEF Wrapped, IsWrapper
    <3>3. ~IsTextual(type)
      BY <1>1, <1>3, <3>2 DEF Restorable
    <3>4. Held = [body |-> [is |-> "bytes", bytes |-> s],
                  type |-> IF Upstream.header = Absent THEN "application/octet-stream" ELSE Upstream.header]
      BY <3>2, <3>3 DEF Held, Payload, type
    <3>5. ~IsTextual(IF Upstream.header = Absent THEN "application/octet-stream" ELSE Upstream.header)
      BY <3>3, Types DEF type, Effective
    <3> QED
      BY <1>3, <2>1, <3>2, <3>4, <3>5 DEF Contents
  <2> QED
    BY <2>2, <2>3
<1> QED
  BY <1>2, <1>3

LEMMA MadeReads == Made => ReadsBack
  BY HeldReadsBack DEF Made, ReadsBack

(* Whatever was sent, and whichever of the header and the catalogue names  *)
(* its type, a handle reads as it (payload_bytes, resource_contents).      *)
THEOREM HandleReadsBack == Spec => []ReadsBack
  BY MadeInit, MadeKept, MadeReads, PTL DEF Spec

-----------------------------------------------------------------------------
(* Counting in sets of natural numbers *)

(* A nonempty set of natural numbers has a least member.                   *)
LEMMA LeastNatural ==
  ASSUME NEW S \in SUBSET Nat, S # {}
  PROVE  \E x \in S : \A y \in S : x <= y
<1>1. IsWellFoundedOn(OpToRel(<, Nat), Nat)
  BY NatLessThanWellFounded
<1>2. PICK x \in S : \A y \in S : ~ (<<y, x>> \in OpToRel(<, Nat))
  BY <1>1, WFMin
<1>3. ASSUME NEW y \in S, y < x
      PROVE  FALSE
  <2>1. <<y, x>> \in Nat \X Nat /\ <<y, x>>[1] < <<y, x>>[2]
    BY <1>3
  <2> QED
    BY <1>2, <2>1, Zenon DEF OpToRel
<1> QED
  BY <1>3

UpTo(S, i) == {j \in S : j <= i}

(* The members of a set of numbers are its first, second, .., last.        *)
LEMMA Counted ==
  ASSUME NEW m \in Nat, NEW S \in SUBSET (1 .. m)
  PROVE  /\ Cardinality(S) \in Nat
         /\ \A i \in S : Cardinality(UpTo(S, i)) \in 1 .. Cardinality(S)
         /\ \A i, l \in S : i < l => Cardinality(UpTo(S, i)) < Cardinality(UpTo(S, l))
         /\ \A k \in 1 .. Cardinality(S) : \E i \in S : Cardinality(UpTo(S, i)) = k
<1>0. S \in SUBSET Nat /\ \A i \in S : i \in Nat /\ i \in Int
  OBVIOUS
<1>1. IsFiniteSet(S) /\ Cardinality(S) \in Nat
  <2>1. 1 \in Int /\ m \in Int
    OBVIOUS
  <2>2. IsFiniteSet(1 .. m)
    BY <2>1, FS_Interval
  <2> QED
    BY <2>2, FS_Subset, FS_CardinalityType
<1>2. ASSUME NEW i
      PROVE  /\ IsFiniteSet(UpTo(S, i)) /\ Cardinality(UpTo(S, i)) \in Nat
             /\ Cardinality(UpTo(S, i)) <= Cardinality(S)
  <2>1. UpTo(S, i) \in SUBSET S
    BY DEF UpTo
  <2> QED
    BY <1>1, <2>1, FS_Subset, FS_CardinalityType
<1>3. ASSUME NEW i \in S
      PROVE  Cardinality(UpTo(S, i)) # 0
  <2>1. i \in UpTo(S, i)
    BY DEF UpTo
  <2> QED
    BY <1>2, <2>1, FS_EmptySet
<1>4. ASSUME NEW i \in S, NEW l \in S, i < l
      PROVE  Cardinality(UpTo(S, i)) < Cardinality(UpTo(S, l))
  <2>1. UpTo(S, i) \in SUBSET UpTo(S, l) /\ l \in UpTo(S, l) /\ l \notin UpTo(S, i)
    <3>1. l <= l /\ ~ (l <= i) /\ \A j \in S : j <= i => j <= l
      BY <1>0, <1>4
    <3> QED
      BY <1>4, <3>1, Zenon DEF UpTo
  <2>2. /\ Cardinality(UpTo(S, i)) <= Cardinality(UpTo(S, l))
        /\ Cardinality(UpTo(S, i)) # Cardinality(UpTo(S, l))
    BY <1>2, <2>1, FS_Subset
  <2> QED
    BY <1>2, <2>2
<1>5. ASSUME NEW k \in 1 .. Cardinality(S)
      PROVE  \E i \in S : Cardinality(UpTo(S, i)) = k
  <2> DEFINE Enough == {x \in 0 .. m : Cardinality(UpTo(S, x)) >= k}
  <2>1. m \in Enough
    <3>0. \A j \in S : j <= m
      OBVIOUS
    <3>1. UpTo(S, m) = S
      BY <3>0 DEF UpTo
    <3> QED
      BY <1>1, <3>1
  <2>a. Enough \in SUBSET Nat /\ Enough # {}
    BY <2>1
  <2> HIDE DEF Enough
  <2>2. PICK x \in Enough : \A y \in Enough : x <= y
    BY <2>a, LeastNatural
  <2>b. x \in 0 .. m /\ x \in Nat /\ Cardinality(UpTo(S, x)) >= k
    BY DEF Enough
  <2>3. x # 0
    <3>0. \A j \in S : ~ (j <= 0)
      OBVIOUS
    <3>1. UpTo(S, 0) = {}
      BY <3>0 DEF UpTo
    <3>2. Cardinality(UpTo(S, 0)) = 0
      BY <3>1, FS_EmptySet
    <3> QED
      BY <2>b, <3>2
  <2>4. Cardinality(UpTo(S, x - 1)) < k
    <3>1. x - 1 \in 0 .. m /\ ~ (x <= x - 1)
      BY <2>b, <2>3
    <3>2. x - 1 \notin Enough
      BY <2>2, <3>1
    <3> QED
      BY <1>2, <3>1, <3>2 DEF Enough
  <2>5. x \in S
    <3>1. ASSUME x \notin S
          PROVE  UpTo(S, x) = UpTo(S, x - 1)
      <4>1. \A j \in S : j <= x <=> j <= x - 1
        BY <1>0, <2>b, <3>1
      <4> QED
        BY <4>1 DEF UpTo
    <3> QED
      BY <1>2, <2>4, <2>b, <3>1
  <2>6. Cardinality(UpTo(S, x)) = Cardinality(UpTo(S, x - 1)) + 1
    <3>0. \A j \in S : j <= x <=> j <= x - 1 \/ j = x
      BY <1>0, <2>b
    <3>a. x <= x /\ ~ (x <= x - 1)
      BY <2>b
    <3>1. UpTo(S, x) = UpTo(S, x - 1) \cup {x} /\ x \notin UpTo(S, x - 1)
      BY <2>5, <3>0, <3>a, Zenon DEF UpTo
    <3> QED
      BY <1>2, <3>1, FS_AddElement
  <2> QED
    BY <1>2, <2>4, <2>5, <2>6, <2>b
<1> QED
  BY <1>1, <1>2, <1>3, <1>4, <1>5

-----------------------------------------------------------------------------
(* The excerpt *)

Ends(s) == {i \in 1 .. Len(s) : IsBoundary(s, i)}

(* The ends of a text's characters, in order and without a gap.            *)
LEMMA BoundariesInOrder ==
  ASSUME NEW s \in Seq(STRING)
  PROVE  LET ends == Boundaries(s)
         IN /\ Len(ends) \in Nat
            /\ \A k \in 1 .. Len(ends) : ends[k] \in Ends(s)
            /\ \A k, l \in 1 .. Len(ends) : k < l => ends[k] < ends[l]
            /\ \A i \in Ends(s) : \E k \in 1 .. Len(ends) : ends[k] = i
<1> DEFINE S == Ends(s)
           n == Cardinality(S)
           count(i) == Cardinality(UpTo(S, i))
           ends == [k \in 1 .. n |-> CHOOSE i \in S : count(i) = k]
<1>1. Boundaries(s) = ends
  BY DEF Boundaries, Ends, UpTo
<1>2. S \in SUBSET (1 .. Len(s)) /\ Len(s) \in Nat
  BY DEF Ends
<1>3. /\ n \in Nat /\ \A i \in S : count(i) \in 1 .. n
      /\ \A i, l \in S : i < l => count(i) < count(l)
      /\ \A k \in 1 .. n : \E i \in S : count(i) = k
  BY <1>2, Counted
<1>b. \A i \in S : i \in Nat
  BY <1>2
<1> HIDE DEF S, n, count
<1>4. Len(ends) = n
  BY <1>3
<1>5. \A k \in 1 .. n : ends[k] \in S /\ count(ends[k]) = k
  BY <1>3
<1>6. ASSUME NEW i \in S, NEW l \in S, count(i) <= count(l)
      PROVE  i <= l
  <2>1. count(i) \in 1 .. n /\ count(l) \in 1 .. n
    BY <1>3
  <2>2. l < i => count(l) < count(i)
    BY <1>3
  <2>3. ~ (l < i)
    BY <1>3, <1>6, <2>1, <2>2
  <2> QED
    BY <1>b, <2>3
<1>7. \A k, l \in 1 .. n : k < l => ends[k] < ends[l]
  <2> SUFFICES ASSUME NEW k \in 1 .. n, NEW l \in 1 .. n, k < l
               PROVE  ends[k] < ends[l]
    OBVIOUS
  <2> HIDE DEF ends
  <2>1. ends[k] <= ends[l] /\ ends[k] # ends[l]
    BY <1>3, <1>5, <1>6
  <2> QED
    BY <1>5, <1>b, <2>1 DEF ends
<1>8. \A i \in S : \E k \in 1 .. n : ends[k] = i
  <2> SUFFICES ASSUME NEW i \in S
               PROVE  ends[count(i)] = i
    BY <1>3
  <2>1. count(i) \in 1 .. n
    BY <1>3
  <2> DEFINE e == ends[count(i)]
  <2>2. e \in S /\ count(e) = count(i)
    BY <1>5, <2>1
  <2> HIDE DEF e, ends
  <2>3. e <= i /\ i <= e
    BY <1>3, <1>6, <2>1, <2>2
  <2> QED
    BY <1>b, <2>2, <2>3 DEF e
<1> HIDE DEF ends
<1> QED
  BY <1>1, <1>3, <1>4, <1>5, <1>7, <1>8 DEF S

-----------------------------------------------------------------------------
(* Binary search for the last number of an initial segment *)

IsLast(Fit, low, high, m) ==
  /\ m \in low .. high
  /\ m = low \/ m \in Fit
  /\ m = high \/ m + 1 \notin Fit

LEMMA LastExists ==
  ASSUME NEW Fit, NEW low \in Nat, NEW high \in Nat, low <= high
  PROVE  \E m \in low .. high : IsLast(Fit, low, high, m)
<1> DEFINE Stops == {m \in low .. high : m = high \/ m + 1 \notin Fit}
<1>1. Stops \in SUBSET Nat /\ Stops # {}
  OBVIOUS
<1> HIDE DEF Stops
<1>2. PICK m \in Stops : \A k \in Stops : m <= k
  BY <1>1, LeastNatural
<1>3. m \in low .. high /\ (m = high \/ m + 1 \notin Fit)
  BY DEF Stops
<1>4. ASSUME m # low
      PROVE  m \in Fit
  <2>1. m - 1 \in low .. high /\ ~ (m <= m - 1) /\ (m - 1) + 1 = m
    BY <1>3, <1>4
  <2>2. m - 1 \notin Stops
    BY <1>2, <2>1
  <2> QED
    BY <2>1, <2>2 DEF Stops
<1> QED
  BY <1>3, <1>4 DEF IsLast

(* Each number below a fitting one fits.                                   *)
Initial(Fit, n) == Fit \in SUBSET (1 .. n) /\ \A k \in Fit : \A j \in 1 .. k : j \in Fit

LEMMA LastUnique ==
  ASSUME NEW n \in Nat, NEW Fit, Initial(Fit, n), NEW low \in 0 .. n, NEW high \in 0 .. n,
         NEW m, NEW k, IsLast(Fit, low, high, m), IsLast(Fit, low, high, k)
  PROVE  m = k
<1>1. ASSUME NEW i, NEW j, IsLast(Fit, low, high, i), IsLast(Fit, low, high, j), i < j
      PROVE  FALSE
  <2>1. i \in low .. high /\ j \in low .. high /\ i # high /\ j # low /\ i + 1 \in 1 .. j
    BY <1>1 DEF IsLast
  <2> QED
    BY <1>1, <2>1 DEF IsLast, Initial
<1>2. m \in low .. high /\ k \in low .. high
  BY DEF IsLast
<1> QED
  BY <1>1, <1>2

(* One step of the search, on results R and with f for what is left.       *)
Halved(Fit, R, n, f) ==
  [range \in (0 .. n) \X (0 .. n) |->
     LET low == range[1]
         high == range[2]
         middle == (low + high) \div 2
     IN IF low >= high THEN R[low]
        ELSE IF middle + 1 \in Fit THEN f[<<middle + 1, high>>] ELSE f[<<low, middle>>]]

LEMMA HalfIsLast ==
  ASSUME NEW n \in Nat, NEW Fit, Initial(Fit, n), NEW low \in 0 .. n, NEW high \in 0 .. n, low < high,
         NEW middle, middle = (low + high) \div 2
  PROVE  /\ middle \in low .. (high - 1) /\ middle \in 0 .. n /\ middle + 1 \in 0 .. n
         /\ \A m : IF middle + 1 \in Fit THEN IsLast(Fit, middle + 1, high, m) => IsLast(Fit, low, high, m)
                  ELSE IsLast(Fit, low, middle, m) => IsLast(Fit, low, high, m)
<1>1. middle \in low .. (high - 1) /\ middle \in 0 .. n /\ middle + 1 \in 0 .. n
  OBVIOUS
<1>2. ASSUME NEW m, middle + 1 \in Fit, IsLast(Fit, middle + 1, high, m)
      PROVE  IsLast(Fit, low, high, m)
  BY <1>1, <1>2 DEF IsLast
<1>3. ASSUME NEW m, middle + 1 \notin Fit, IsLast(Fit, low, middle, m)
      PROVE  IsLast(Fit, low, high, m)
  BY <1>1, <1>3 DEF IsLast
<1> QED
  BY <1>1, <1>2, <1>3

LEMMA SearchExists ==
  ASSUME NEW n \in Nat, NEW Fit, Initial(Fit, n), NEW R
  PROVE  \E f : f = Halved(Fit, R, n, f)
<1> DEFINE last(low, high) == CHOOSE m \in low .. high : IsLast(Fit, low, high, m)
           f == [range \in (0 .. n) \X (0 .. n) |->
                   IF range[1] >= range[2] THEN R[range[1]] ELSE R[last(range[1], range[2])]]
<1>1. ASSUME NEW low \in 0 .. n, NEW high \in 0 .. n, low <= high
      PROVE  IsLast(Fit, low, high, last(low, high))
  <2>1. low \in Nat /\ high \in Nat
    OBVIOUS
  <2>2. \E m \in low .. high : IsLast(Fit, low, high, m)
    BY <1>1, <2>1, LastExists
  <2> QED
    BY <2>2, Zenon
<1> HIDE DEF last
<1>2. ASSUME NEW low \in 0 .. n, NEW high \in 0 .. n, low <= high
      PROVE  f[<<low, high>>] = R[last(low, high)]
  <2>1. CASE low = high
    <3>0. last(low, high) \in low .. high
      BY <1>1, <1>2 DEF IsLast
    <3>1. last(low, high) = low
      BY <2>1, <3>0
    <3> QED
      BY <2>1, <3>1
  <2>2. CASE low < high
    BY <2>2
  <2> QED
    BY <1>2, <2>1, <2>2
<1>3. ASSUME NEW range \in (0 .. n) \X (0 .. n)
      PROVE  f[range] = Halved(Fit, R, n, f)[range]
  <2> DEFINE low == range[1]
             high == range[2]
             middle == (low + high) \div 2
  <2>1. low \in 0 .. n /\ high \in 0 .. n /\ range = <<low, high>>
    OBVIOUS
  <2>2. CASE low >= high
    BY <2>2 DEF Halved
  <2>3. CASE low < high
    <3>1. f[range] = R[last(low, high)]
      BY <1>2, <2>1, <2>3
    <3>2. Halved(Fit, R, n, f)[range] =
            IF middle + 1 \in Fit THEN f[<<middle + 1, high>>] ELSE f[<<low, middle>>]
      BY <2>1, <2>3 DEF Halved
    <3> HIDE DEF f, low, high
    <3>3. middle \in low .. (high - 1) /\ middle \in 0 .. n /\ middle + 1 \in 0 .. n
      BY <2>1, <2>3, HalfIsLast
    <3>4. CASE middle + 1 \in Fit
      <4>1. IsLast(Fit, middle + 1, high, last(middle + 1, high))
        BY <1>1, <2>1, <3>3
      <4>2. IsLast(Fit, low, high, last(middle + 1, high))
        BY <2>1, <2>3, <3>4, <4>1, HalfIsLast
      <4>3. last(middle + 1, high) = last(low, high)
        BY <1>1, <2>1, <2>3, <4>2, LastUnique
      <4>4. f[<<middle + 1, high>>] = R[last(middle + 1, high)]
        BY <1>2, <2>1, <3>3
      <4> QED
        BY <3>1, <3>2, <3>4, <4>3, <4>4
    <3>5. CASE middle + 1 \notin Fit
      <4>1. IsLast(Fit, low, middle, last(low, middle))
        BY <1>1, <2>1, <3>3
      <4>2. IsLast(Fit, low, high, last(low, middle))
        BY <2>1, <2>3, <3>5, <4>1, HalfIsLast
      <4>3. last(low, middle) = last(low, high)
        BY <1>1, <2>1, <2>3, <4>2, LastUnique
      <4>4. f[<<low, middle>>] = R[last(low, middle)]
        BY <1>2, <2>1, <3>3
      <4> QED
        BY <3>1, <3>2, <3>5, <4>3, <4>4
    <3> QED
      BY <3>4, <3>5
  <2> QED
    BY <2>1, <2>2, <2>3
<1>4. f = Halved(Fit, R, n, f)
  BY <1>3 DEF Halved
<1> QED
  BY <1>4

LEMMA SearchFindsLast ==
  ASSUME NEW n \in Nat, NEW Fit, Initial(Fit, n), NEW R, NEW f, f = Halved(Fit, R, n, f)
  PROVE  \E m \in 0 .. n : IsLast(Fit, 0, n, m) /\ f[<<0, n>>] = R[m]
<1> DEFINE Right(low, high) == \E m \in low .. high : IsLast(Fit, low, high, m) /\ f[<<low, high>>] = R[m]
           Wrong == {d \in Nat : \E low, high \in 0 .. n : high - low = d /\ ~ Right(low, high)}
<1> HIDE DEF Right
<1>1. ASSUME Wrong # {}
      PROVE  FALSE
  <2>1. PICK d \in Wrong : \A e \in Wrong : d <= e
    BY <1>1, LeastNatural
  <2>2. PICK low \in 0 .. n, high \in 0 .. n : high - low = d /\ ~ Right(low, high) /\ d \in Nat
    BY <2>1
  <2>3. ASSUME NEW i \in 0 .. n, NEW j \in 0 .. n, i <= j, j - i < d
        PROVE  Right(i, j)
    <3>1. j - i \in Nat /\ ~ (d <= j - i)
      BY <2>2, <2>3
    <3>2. j - i \notin Wrong
      BY <2>1, <3>1
    <3> QED
      BY <3>1, <3>2
  <2> HIDE DEF Wrong
  <2> DEFINE middle == (low + high) \div 2
  <2>4. <<low, high>> \in (0 .. n) \X (0 .. n) /\ low <= high
    BY <2>2
  <2>5. f[<<low, high>>] =
          IF low >= high THEN R[low]
          ELSE IF middle + 1 \in Fit THEN f[<<middle + 1, high>>] ELSE f[<<low, middle>>]
    BY <2>4 DEF Halved
  <2>6. CASE low = high
    <3>1. IsLast(Fit, low, high, low) /\ low \in low .. high
      BY <2>6 DEF IsLast
    <3>2. f[<<low, high>>] = R[low]
      BY <2>5, <2>6
    <3> QED
      BY <2>2, <3>1, <3>2 DEF Right
  <2>7. CASE low < high
    <3>1. middle \in low .. (high - 1) /\ middle \in 0 .. n /\ middle + 1 \in 0 .. n
      BY <2>7, HalfIsLast
    <3>2. ~ (low >= high)
      BY <2>7
    <3> HIDE DEF middle
    <3>3. CASE middle + 1 \in Fit
      <4>1. f[<<low, high>>] = f[<<middle + 1, high>>]
        BY <2>5, <3>2, <3>3
      <4>2. middle + 1 <= high /\ high - (middle + 1) < d
        BY <2>2, <3>1
      <4>3. Right(middle + 1, high)
        BY <2>3, <3>1, <4>2
      <4>4. PICK m \in (middle + 1) .. high :
              IsLast(Fit, middle + 1, high, m) /\ f[<<middle + 1, high>>] = R[m]
        BY <4>3 DEF Right
      <4>5. IsLast(Fit, low, high, m)
        BY <2>7, <3>3, <4>4, HalfIsLast DEF middle
      <4>6. m \in low .. high
        BY <4>5 DEF IsLast
      <4> QED
        BY <2>2, <4>1, <4>4, <4>5, <4>6 DEF Right
    <3>4. CASE middle + 1 \notin Fit
      <4>1. f[<<low, high>>] = f[<<low, middle>>]
        BY <2>5, <3>2, <3>4
      <4>2. low <= middle /\ middle - low < d
        BY <2>2, <3>1
      <4>3. Right(low, middle)
        BY <2>3, <3>1, <4>2
      <4>4. PICK m \in low .. middle : IsLast(Fit, low, middle, m) /\ f[<<low, middle>>] = R[m]
        BY <4>3 DEF Right
      <4>5. IsLast(Fit, low, high, m)
        BY <2>7, <3>4, <4>4, HalfIsLast DEF middle
      <4>6. m \in low .. high
        BY <4>5 DEF IsLast
      <4> QED
        BY <2>2, <4>1, <4>4, <4>5, <4>6 DEF Right
    <3> QED
      BY <3>3, <3>4
  <2> QED
    BY <2>4, <2>6, <2>7
<1>2. n - 0 \in Nat /\ n - 0 \notin Wrong /\ 0 \in 0 .. n /\ n \in 0 .. n
  <2>1. n - 0 \in Nat /\ 0 \in 0 .. n /\ n \in 0 .. n
    OBVIOUS
  <2>2. n - 0 \notin Wrong
    BY <1>1, Zenon
  <2> QED
    BY <2>1, <2>2
<1>3. Right(0, n)
  <2>1. ASSUME ~ Right(0, n)
        PROVE  \E low, high \in 0 .. n : high - low = n - 0 /\ ~ Right(low, high)
    <3>1. n - 0 = n - 0 /\ ~ Right(0, n)
      BY <2>1
    <3> QED
      BY <1>2, <3>1, Zenon
  <2>2. ~ Right(0, n) => n - 0 \in Wrong
    BY <1>2, <2>1, Zenon
  <2> QED
    BY <1>2, <2>2
<1> QED
  BY <1>3 DEF Right

-----------------------------------------------------------------------------
(* What a text costs *)

LEMMA CostGrows ==
  ASSUME NEW s \in Seq(STRING), NEW i \in 0 .. Len(s), NEW j \in 0 .. Len(s), i <= j
  PROVE  /\ Slice(s, 0, i) \in Seq(STRING) /\ Len(Slice(s, 0, i)) = i
         /\ TextCost(Slice(s, 0, i)) \in Nat
         /\ TextCost(Slice(s, 0, i)) <= TextCost(Slice(s, 0, j))
<1> DEFINE feeds(k) == {x \in DOMAIN Slice(s, 0, k) : Slice(s, 0, k)[x] = "nl"}
<1>1. ASSUME NEW k \in 0 .. Len(s)
      PROVE  /\ Slice(s, 0, k) \in Seq(STRING) /\ Len(Slice(s, 0, k)) = k
             /\ DOMAIN Slice(s, 0, k) = 1 .. k /\ \A x \in 1 .. k : Slice(s, 0, k)[x] = s[x]
  BY DEF Slice
<1>2. ASSUME NEW k \in 0 .. Len(s)
      PROVE  feeds(k) = {x \in 1 .. k : s[x] = "nl"}
  <2>1. DOMAIN Slice(s, 0, k) = 1 .. k /\ \A x \in 1 .. k : Slice(s, 0, k)[x] = s[x]
    BY <1>1
  <2> QED
    BY <2>1, Zenon
<1>3. ASSUME NEW k \in 0 .. Len(s)
      PROVE  IsFiniteSet(feeds(k)) /\ Cardinality(feeds(k)) \in Nat
  <2>1. 1 \in Int /\ k \in Int
    OBVIOUS
  <2>2. IsFiniteSet(1 .. k)
    BY <2>1, FS_Interval
  <2>3. feeds(k) \in SUBSET (1 .. k)
    BY <1>2
  <2> QED
    BY <2>2, <2>3, FS_Subset, FS_CardinalityType
<1>4. feeds(i) \in SUBSET feeds(j)
  BY <1>2
<1>5. Cardinality(feeds(i)) <= Cardinality(feeds(j))
  BY <1>3, <1>4, FS_Subset
<1>6. ASSUME NEW k \in 0 .. Len(s)
      PROVE  TextCost(Slice(s, 0, k)) = k + Cardinality(feeds(k))
  BY <1>1 DEF TextCost
<1> HIDE DEF feeds
<1> QED
  BY <1>1, <1>3, <1>5, <1>6

(* The binary search finds the longest prefix of whole characters with     *)
(* which the reply fits.                                                   *)
LEMMA LongestFound ==
  ASSUME NEW s \in Seq(STRING), NEW headers \in Nat, NEW ceiling \in Nat
  PROVE  \E i \in 0 .. Len(s) :
           /\ LongestFitting(s, headers, ceiling) = Slice(s, 0, i)
           /\ i # 0 => i \in Ends(s) /\ Fits(Slice(s, 0, i), TRUE, headers, ceiling)
           /\ \A j \in Ends(s) : Fits(Slice(s, 0, j), TRUE, headers, ceiling) => j <= i
<1> DEFINE ends == Boundaries(s)
           n == Len(ends)
           fits(i) == Fits(Slice(s, 0, i), TRUE, headers, ceiling)
           Fit == {k \in 1 .. n : fits(ends[k])}
           R == [m \in 0 .. n |-> IF m = 0 THEN <<>> ELSE Slice(s, 0, ends[m])]
           searched(f) ==
             [range \in (0 .. Len(ends)) \X (0 .. Len(ends)) |->
                LET low == range[1]
                    high == range[2]
                    middle == (low + high) \div 2
                IN IF low >= high THEN IF low = 0 THEN <<>> ELSE Slice(s, 0, ends[low])
                   ELSE IF Fits(Slice(s, 0, ends[middle + 1]), TRUE, headers, ceiling)
                   THEN f[<<middle + 1, high>>] ELSE f[<<low, middle>>]]
           found == CHOOSE f : f = searched(f)
<1>1. LongestFitting(s, headers, ceiling) = found[<<0, n>>]
  BY Zenon DEF LongestFitting
<1>2. /\ n \in Nat
      /\ \A k \in 1 .. n : ends[k] \in Ends(s)
      /\ \A k, l \in 1 .. n : k < l => ends[k] < ends[l]
      /\ \A i \in Ends(s) : \E k \in 1 .. n : ends[k] = i
  BY BoundariesInOrder
<1> HIDE DEF ends, n
<1>3. \A i \in Ends(s) : i \in 1 .. Len(s)
  BY DEF Ends
<1>4. \A k \in 1 .. n : ends[k] \in 1 .. Len(s)
  BY <1>2, <1>3
<1>5. ASSUME NEW i \in 0 .. Len(s), NEW j \in 0 .. Len(s), i <= j, fits(j)
      PROVE  fits(i)
  <2>1. /\ TextCost(Slice(s, 0, i)) \in Nat /\ TextCost(Slice(s, 0, j)) \in Nat
        /\ TextCost(Slice(s, 0, i)) <= TextCost(Slice(s, 0, j))
    BY <1>5, CostGrows
  <2> DEFINE cost(m) == TextCost(Slice(s, 0, m))
             rest == IF TRUE THEN LinkCost ELSE 0
  <2>2. SummaryOverhead \in Nat /\ rest \in Nat
    BY RetainedResultsAssumption
  <2>3. \A m : fits(m) <=> SummaryOverhead + 2 * (headers + cost(m)) + rest <= ceiling
    BY Zenon DEF Fits, DisplacedSize
  <2> HIDE DEF cost, rest, fits
  <2>4. SummaryOverhead + 2 * (headers + cost(j)) + rest <= ceiling
    BY <1>5, <2>3
  <2>5. cost(i) \in Nat /\ cost(j) \in Nat /\ cost(i) <= cost(j)
    BY <2>1 DEF cost
  <2>6. ASSUME NEW a \in Nat, NEW b \in Nat, NEW r \in Nat, NEW overhead \in Nat, a <= b,
               overhead + 2 * (headers + b) + r <= ceiling
        PROVE  overhead + 2 * (headers + a) + r <= ceiling
    BY <2>6
  <2>7. SummaryOverhead + 2 * (headers + cost(i)) + rest <= ceiling
    BY <2>2, <2>4, <2>5, <2>6
  <2> QED
    BY <2>3, <2>7
<1>6. ASSUME NEW i \in Ends(s), NEW j \in Ends(s), i <= j, fits(j)
      PROVE  fits(i)
  <2>1. i \in 0 .. Len(s) /\ j \in 0 .. Len(s)
    BY <1>3
  <2> QED
    BY <1>5, <1>6, <2>1
<1> HIDE DEF fits
<1>7. Initial(Fit, n)
  <2> SUFFICES ASSUME NEW k \in Fit, NEW j \in 1 .. k
               PROVE  j \in Fit
    BY DEF Initial
  <2>1. k \in 1 .. n /\ j \in 1 .. n /\ fits(ends[k])
    BY <1>2
  <2>2. ends[j] \in Ends(s) /\ ends[k] \in Ends(s) /\ ends[j] <= ends[k]
    BY <1>2, <1>3, <2>1
  <2> QED
    BY <1>6, <2>1, <2>2
<1>8. ASSUME NEW f
      PROVE  searched(f) = Halved(Fit, R, n, f)
  <2>1. ASSUME NEW range \in (0 .. n) \X (0 .. n)
        PROVE  searched(f)[range] = Halved(Fit, R, n, f)[range]
    <3> DEFINE low == range[1]
               high == range[2]
               middle == (low + high) \div 2
    <3>1. low \in 0 .. n /\ high \in 0 .. n /\ n \in Nat
      BY <1>2
    <3>2. searched(f)[range] = IF low >= high THEN IF low = 0 THEN <<>> ELSE Slice(s, 0, ends[low])
                               ELSE IF fits(ends[middle + 1])
                               THEN f[<<middle + 1, high>>] ELSE f[<<low, middle>>]
      BY DEF n, fits
    <3>3. Halved(Fit, R, n, f)[range] = IF low >= high THEN R[low]
                                        ELSE IF middle + 1 \in Fit
                                        THEN f[<<middle + 1, high>>] ELSE f[<<low, middle>>]
      BY DEF Halved
    <3>4. R[low] = IF low = 0 THEN <<>> ELSE Slice(s, 0, ends[low])
      BY <3>1
    <3>5. ASSUME low < high
          PROVE  middle + 1 \in Fit <=> fits(ends[middle + 1])
      <4>1. middle + 1 \in 1 .. n
        BY <3>1, <3>5
      <4> QED
        BY <4>1
    <3>6. low >= high \/ low < high
      BY <3>1
    <3> HIDE DEF low, high, middle, Fit, R
    <3> QED
      BY <3>2, <3>3, <3>4, <3>5, <3>6
  <2> QED
    BY <2>1 DEF Halved, n
<1> HIDE DEF Fit, R, searched
<1>9. found = Halved(Fit, R, n, found)
  <2>1. \E f : f = searched(f)
    BY <1>2, <1>7, <1>8, SearchExists
  <2>2. found = searched(found)
    BY <2>1, Zenon
  <2> QED
    BY <1>8, <2>2
<1> HIDE DEF found
<1>10. PICK m \in 0 .. n : IsLast(Fit, 0, n, m) /\ found[<<0, n>>] = R[m]
  BY <1>2, <1>7, <1>9, SearchFindsLast
<1>11. ASSUME NEW j \in Ends(s), fits(j)
       PROVE  \E k \in 1 .. m : ends[k] = j
  <2>1. PICK k \in 1 .. n : ends[k] = j
    BY <1>2
  <2>2. k \in Fit
    BY <1>11, <2>1 DEF Fit
  <2>3. m < k => m + 1 \in Fit
    <3>1. m < k => m + 1 \in 1 .. k
      BY <1>10
    <3> QED
      BY <1>7, <2>2, <3>1 DEF Initial
  <2>4. k <= m
    BY <1>2, <1>10, <2>3 DEF IsLast
  <2>5. k \in 1 .. m
    BY <2>4
  <2> QED
    BY <2>1, <2>5
<1>12. CASE m = 0
  <2>1. R[m] = Slice(s, 0, 0)
    BY <1>2, <1>12 DEF R, Slice
  <2>2. \A j \in Ends(s) : ~ fits(j)
    BY <1>11, <1>12
  <2> QED
    <3>1. LongestFitting(s, headers, ceiling) = Slice(s, 0, 0) /\ 0 \in 0 .. Len(s)
      BY <1>1, <1>10, <2>1
    <3>2. \A j \in Ends(s) : ~ Fits(Slice(s, 0, j), TRUE, headers, ceiling)
      BY <2>2 DEF fits
    <3> QED
      BY <3>1, <3>2, Zenon
<1>13. CASE m # 0
  <2>1. m \in 1 .. n /\ m \in Fit
    BY <1>10, <1>13 DEF IsLast
  <2>2. ends[m] \in Ends(s) /\ fits(ends[m]) /\ ends[m] \in 0 .. Len(s)
    BY <1>2, <1>4, <2>1 DEF Fit
  <2>3. R[m] = Slice(s, 0, ends[m])
    BY <1>13 DEF R
  <2>4. ASSUME NEW j \in Ends(s), fits(j)
        PROVE  j <= ends[m]
    <3>1. PICK k \in 1 .. m : ends[k] = j
      BY <1>11, <2>4
    <3>2. k \in 1 .. n /\ (k < m \/ k = m)
      BY <1>2, <2>1
    <3> QED
      BY <1>2, <1>3, <2>1, <2>2, <3>1, <3>2
  <2> QED
    BY <1>1, <1>10, <2>2, <2>3, <2>4 DEF fits
<1> QED
  BY <1>12, <1>13

-----------------------------------------------------------------------------
(* Boundaries of characters *)

LEMMA GreatestUpTo ==
  ASSUME NEW k \in Nat, NEW S \in SUBSET (0 .. k), S # {}
  PROVE  \E x \in S : \A y \in S : y <= x
<1> DEFINE D == {d \in Nat : k - d \in S}
<1>1. ASSUME NEW x \in S
      PROVE  x \in Nat /\ k - x \in D /\ k - (k - x) = x
  <2>1. x \in Nat /\ k - x \in Nat /\ k - (k - x) = x
    OBVIOUS
  <2> QED
    BY <2>1
<1>2. D \in SUBSET Nat /\ D # {}
  BY <1>1, Zenon
<1>3. PICK d \in D : \A e \in D : d <= e
  BY <1>2, LeastNatural
<1>4. d \in Nat /\ k - d \in S
  BY <1>3
<1> HIDE DEF D
<1>5. ASSUME NEW y \in S
      PROVE  y <= k - d
  BY <1>1, <1>3, <1>4
<1> QED
  BY <1>4, <1>5

(* A character takes at most three bytes.                                  *)
LEMMA BoundaryNear ==
  ASSUME NEW s \in Seq(STRING), IsUtf8(s), NEW k \in 0 .. Len(s)
  PROVE  \E i \in 0 .. k : IsBoundary(s, i) /\ k - 2 <= i
<1>1. CASE IsBoundary(s, k)
  BY <1>1
<1>2. CASE ~ IsBoundary(s, k)
  <2>1. k < Len(s) /\ k + 1 \in DOMAIN s /\ s[k + 1] \in {"w2", "w3"}
    BY <1>2 DEF IsBoundary, Continues
  <2>2. /\ s[k + 1] = "w2" => k + 1 > 1 /\ s[(k + 1) - 1] = "w1"
        /\ s[k + 1] = "w3" => k + 1 > 1 /\ s[(k + 1) - 1] = "w2"
    BY <2>1 DEF IsUtf8
  <2>3. k \in DOMAIN s /\ (k + 1) - 1 = k /\ k >= 1
    BY <2>1, <2>2
  <2>4. CASE s[k + 1] = "w2"
    <3>1. s[k] = "w1" /\ k - 1 \in 0 .. k /\ k - 1 < Len(s) /\ (k - 1) + 1 = k /\ k - 2 <= k - 1
      BY <2>1, <2>2, <2>3, <2>4
    <3>2. IsBoundary(s, k - 1)
      BY <3>1 DEF IsBoundary, Continues
    <3> QED
      BY <3>1, <3>2
  <2>5. CASE s[k + 1] = "w3"
    <3>1. s[k] = "w2"
      BY <2>2, <2>3, <2>5
    <3>2. k > 1 /\ s[k - 1] = "w1"
      BY <2>3, <3>1 DEF IsUtf8
    <3>3. k - 2 \in 0 .. k /\ k - 2 < Len(s) /\ (k - 2) + 1 = k - 1 /\ k - 2 <= k - 2
      BY <2>1, <3>2
    <3>4. IsBoundary(s, k - 2)
      BY <3>2, <3>3 DEF IsBoundary, Continues
    <3> QED
      BY <3>3, <3>4
  <2> QED
    BY <2>1, <2>4, <2>5
<1> QED
  BY <1>1, <1>2

LEMMA Before ==
  ASSUME NEW s \in Seq(STRING), IsUtf8(s), NEW k \in 0 .. Len(s)
  PROVE  /\ BoundaryBefore(s, k) \in 0 .. k
         /\ IsBoundary(s, BoundaryBefore(s, k))
         /\ k - 2 <= BoundaryBefore(s, k)
         /\ \A j \in 0 .. k : IsBoundary(s, j) => j <= BoundaryBefore(s, k)
<1> DEFINE S == {i \in 0 .. k : IsBoundary(s, i)}
           Latest(i) == IsBoundary(s, i) /\ \A j \in (i + 1) .. k : ~ IsBoundary(s, j)
<1>1. PICK near \in 0 .. k : IsBoundary(s, near) /\ k - 2 <= near
  BY BoundaryNear
<1>2. S \in SUBSET (0 .. k) /\ near \in S /\ k \in Nat
  BY <1>1
<1>3. PICK x \in S : \A y \in S : y <= x
  BY <1>2, GreatestUpTo
<1>4. x \in 0 .. k /\ Latest(x)
  <2>1. x \in 0 .. k /\ IsBoundary(s, x)
    BY <1>3
  <2>2. ASSUME NEW j \in (x + 1) .. k, IsBoundary(s, j)
        PROVE  FALSE
    <3>1. j \in 0 .. k /\ ~ (j <= x)
      BY <2>1
    <3>2. j \in S
      BY <2>2, <3>1
    <3> QED
      BY <1>3, <3>1, <3>2
  <2> QED
    BY <2>1, <2>2
<1> DEFINE b == BoundaryBefore(s, k)
<1>5. b \in 0 .. k /\ Latest(b)
  BY <1>4, Zenon DEF BoundaryBefore
<1> HIDE DEF b, S
<1>6. ASSUME NEW j \in 0 .. k, IsBoundary(s, j)
      PROVE  j <= b
  <2>1. j > b => j \in (b + 1) .. k
    BY <1>5
  <2>2. b \in Int /\ j \in Int
    BY <1>5
  <2> QED
    BY <1>5, <1>6, <2>1, <2>2
<1>7. k - 2 <= b
  BY <1>1, <1>5, <1>6
<1> QED
  BY <1>5, <1>6, <1>7 DEF b

-----------------------------------------------------------------------------
(* The excerpt of a displaced reply *)

LEMMA PreviewIsText ==
  ASSUME Made
  PROVE  TextPreview(Data) \in Seq(STRING)
<1> DEFINE type == Effective(Upstream.header, Upstream.declared)
<1>1. WellFormed(Upstream.body, type) /\ Data = Decoded(type, Upstream.body)
  BY RetainedResultsAssumption DEF Made, Data, Upstream
<1> HIDE DEF type
<1>2. Data.is = "string" => Data.bytes \in Seq(STRING) /\ IsUtf8(Data.bytes)
  <2>1. CASE Upstream.body.is # "bytes"
    BY <1>1, <2>1 DEF Decoded, WellFormed
  <2>2. CASE Upstream.body.is = "bytes"
    BY <1>1, <2>2 DEF Decoded, WellFormed, Null, Text, Wrapped
  <2> QED
    BY <2>1, <2>2
<1>3. CASE Data.is = "string"
  <2> DEFINE s == Data.bytes
             k == Smaller(MaxPreview, Len(s))
  <2>1. s \in Seq(STRING) /\ IsUtf8(s) /\ MaxPreview \in Nat
    BY <1>2, <1>3, RetainedResultsAssumption
  <2>2. k \in 0 .. Len(s)
    BY <2>1 DEF Smaller
  <2> HIDE DEF s, k
  <2>3. BoundaryBefore(s, k) \in 0 .. Len(s)
    BY <2>1, <2>2, Before
  <2>4. Slice(s, 0, BoundaryBefore(s, k)) \in Seq(STRING)
    BY <2>1, <2>3 DEF Slice
  <2> QED
    BY <1>3, <2>4 DEF TextPreview, s, k
<1>4. CASE Data.is # "string"
  BY <1>4 DEF TextPreview
<1> QED
  BY <1>3, <1>4

LEMMA MadeExcerpt == Made => ExcerptLongest
<1> SUFFICES ASSUME Made, reply # Absent, ~ reply.inline
             PROVE  ExcerptLongest
  BY DEF ExcerptLongest
<1> DEFINE h == Upstream.headers
           c == answer.ceiling
           kept == answer.kept
           whole == TextPreview(Data)
           preview == IF kept THEN LongestFitting(whole, h, c) ELSE <<>>
           fitting == {i \in 0 .. Len(whole) :
                         IsBoundary(whole, i) /\ DisplacedSize(reply.retained, h, Slice(whole, 0, i)) <= c}
<1>1. whole \in Seq(STRING)
  BY PreviewIsText
<1>2. h \in Nat /\ c \in Nat /\ kept \in BOOLEAN
  BY RetainedResultsAssumption DEF Made, Upstream
<1>3. /\ reply.retained = kept /\ reply.preview = preview
      /\ reply.headersOmitted = ~ Fits(preview, kept, h, c)
  BY DEF Made, Reply
<1> HIDE DEF h, c, kept, whole
<1>4. Slice(whole, 0, 0) = <<>> /\ 0 \in 0 .. Len(whole)
  BY <1>1 DEF Slice
<1>a. Len(whole) \in Nat /\ SummaryOverhead \in Nat /\ LinkCost \in Nat
  BY <1>1, RetainedResultsAssumption
<1>5. CASE kept
  <2>1. PICK i \in 0 .. Len(whole) :
           /\ LongestFitting(whole, h, c) = Slice(whole, 0, i)
           /\ i # 0 => i \in Ends(whole) /\ Fits(Slice(whole, 0, i), TRUE, h, c)
           /\ \A j \in Ends(whole) : Fits(Slice(whole, 0, j), TRUE, h, c) => j <= i
    BY <1>1, <1>2, LongestFound
  <2>2. preview = Slice(whole, 0, i) /\ kept = TRUE
    BY <1>2, <1>5, <2>1
  <2>3. Len(Slice(whole, 0, i)) = i
    BY <1>1 DEF Slice
  <2>4. ASSUME NEW j \in fitting
        PROVE  j \in 0 .. Len(whole) /\ j <= i
    <3>1. j \in 0 .. Len(whole) /\ IsBoundary(whole, j) /\ Fits(Slice(whole, 0, j), TRUE, h, c)
      BY <1>3, <2>2 DEF Fits
    <3>2. j # 0 => j \in Ends(whole)
      BY <3>1 DEF Ends
    <3>3. j # 0 => j <= i
      BY <2>1, <3>1, <3>2
    <3>4. j \in Nat /\ i \in Nat
      BY <1>a, <3>1
    <3> QED
      BY <3>1, <3>3, <3>4
  <2>5. i # 0 => i \in fitting
    <3>1. i # 0 => IsBoundary(whole, i) /\ DisplacedSize(TRUE, h, Slice(whole, 0, i)) <= c
      BY <2>1 DEF Ends, Fits
    <3> QED
      BY <1>3, <2>2, <3>1
  <2>6. fitting # {} => i \in fitting
    BY <2>4, <2>5
  <2>7. fitting # {} => i = CHOOSE k \in fitting : \A j \in fitting : j <= k
    <3> SUFFICES ASSUME i \in fitting
                 PROVE  i = CHOOSE k \in fitting : \A j \in fitting : j <= k
      BY <2>6
    <3> DEFINE last == CHOOSE k \in fitting : \A j \in fitting : j <= k
    <3> HIDE DEF fitting
    <3>1. last \in fitting /\ \A j \in fitting : j <= last
      BY <2>4
    <3> HIDE DEF last
    <3>2. last <= i /\ i <= last /\ last \in 0 .. Len(whole)
      BY <2>4, <3>1
    <3>3. last = i
      BY <3>2
    <3> QED
      BY <3>3 DEF last
  <2>8. fitting = {} => preview = <<>>
    BY <1>4, <2>2, <2>5
  <2>9. ~ Fits(preview, TRUE, h, c) <=> DisplacedSize(TRUE, h, <<>>) > c
    <3> DEFINE none == TextCost(Slice(whole, 0, 0))
               some == TextCost(Slice(whole, 0, i))
               bare == DisplacedSize(TRUE, h, <<>>)
               size == DisplacedSize(TRUE, h, preview)
    <3>1. none \in Nat /\ some \in Nat /\ none <= some
      BY <1>1, <1>4, CostGrows
    <3>2. bare = SummaryOverhead + 2 * (h + none) + LinkCost
      BY <1>4 DEF DisplacedSize
    <3>3. size = SummaryOverhead + 2 * (h + some) + LinkCost
      BY <2>2 DEF DisplacedSize
    <3>4. i # 0 => size <= c
      BY <2>1, <2>2 DEF Fits
    <3>5. i = 0 => size = bare
      BY <1>4, <2>2
    <3> HIDE DEF none, some, bare, size
    <3>6. bare \in Nat /\ size \in Nat /\ bare <= size
      BY <1>2, <1>a, <3>1, <3>2, <3>3
    <3>7. ~ (size <= c) <=> bare > c
      BY <1>2, <3>4, <3>5, <3>6
    <3> QED
      BY <3>7 DEF Fits, size, bare
  <2> HIDE DEF preview, fitting
  <2>10. Len(reply.preview) = i /\ reply.preview = Slice(whole, 0, Len(reply.preview))
    BY <1>3, <2>2, <2>3
  <2>11. reply.headersOmitted <=> DisplacedSize(reply.retained, h, <<>>) > c
    BY <1>3, <2>2, <2>9
  <2> QED
    BY <1>3, <1>5, <2>7, <2>8, <2>10, <2>11, Zenon DEF ExcerptLongest, fitting, whole, h, c
<1>6. CASE ~ kept
  <2>1. preview = <<>> /\ kept = FALSE
    BY <1>2, <1>6
  <2>2. ~ Fits(<<>>, FALSE, h, c) <=> DisplacedSize(FALSE, h, <<>>) > c
    <3> DEFINE bare == DisplacedSize(FALSE, h, <<>>)
    <3>1. TextCost(<<>>) \in Nat
      BY <1>1, <1>4, CostGrows
    <3>2. bare \in Nat
      BY <1>2, <1>a, <3>1 DEF DisplacedSize
    <3> HIDE DEF bare
    <3>3. ~ (bare <= c) <=> bare > c
      BY <1>2, <3>2
    <3> QED
      BY <3>3 DEF Fits, bare
  <2> HIDE DEF preview, fitting
  <2>3. reply.preview = <<>> /\ reply.preview = Slice(whole, 0, Len(reply.preview))
    BY <1>3, <1>4, <2>1
  <2>4. reply.headersOmitted <=> DisplacedSize(reply.retained, h, <<>>) > c
    BY <1>3, <2>1, <2>2
  <2> QED
    BY <1>3, <1>6, <2>3, <2>4, Zenon DEF ExcerptLongest, fitting, whole, h, c
<1> QED
  BY <1>5, <1>6

(* Whatever the answer and the ceiling, the excerpt of a displaced reply   *)
(* is the longest that the ceiling allows (bound_response).                *)
THEOREM ExcerptIsLongest == Spec => []ExcerptLongest
  BY MadeInit, MadeKept, MadeExcerpt, PTL DEF Spec

-----------------------------------------------------------------------------
(* Halving a limit until what it selects fits *)

(* The limits in Fit are accepted, with results R; none is what is left    *)
(* when one is not.                                                        *)
Halving(w, Fit, R, none, f) ==
  [limit \in 1 .. w |->
     IF limit \in Fit THEN R[limit] ELSE IF limit <= 1 THEN none ELSE f[limit \div 2]]

LEMMA HalvingExists ==
  ASSUME NEW Fit, NEW R, NEW none, NEW w \in Nat
  PROVE  \E f : f = Halving(w, Fit, R, none, f)
<1> DEFINE Bad == {n \in Nat : ~ \E f : f = Halving(n, Fit, R, none, f)}
<1>1. ASSUME Bad # {}
      PROVE  FALSE
  <2>1. PICK m \in Bad : \A n \in Bad : m <= n
    BY <1>1, LeastNatural
  <2>2. m \in Nat /\ ~ \E f : f = Halving(m, Fit, R, none, f)
    BY <2>1
  <2>3. m # 0
    <3>1. [limit \in 1 .. 0 |-> none] = Halving(0, Fit, R, none, [limit \in 1 .. 0 |-> none])
      BY DEF Halving
    <3> QED
      BY <2>2, <3>1
  <2>4. m - 1 \in Nat /\ ~ (m <= m - 1)
    BY <2>2, <2>3
  <2>5. m - 1 \notin Bad
    BY <2>1, <2>4
  <2>6. PICK f : f = Halving(m - 1, Fit, R, none, f)
    BY <2>4, <2>5, Zenon
  <2> DEFINE g == [limit \in 1 .. m |->
                     IF limit = m THEN IF m \in Fit THEN R[m] ELSE IF m <= 1 THEN none ELSE f[m \div 2]
                     ELSE f[limit]]
  <2>7. ASSUME NEW limit \in 1 .. m
        PROVE  g[limit] = Halving(m, Fit, R, none, g)[limit]
    <3>1. limit > 1 => limit \div 2 \in 1 .. (m - 1) /\ limit \div 2 # m
      BY <2>4
    <3>2. limit > 1 => g[limit \div 2] = f[limit \div 2]
      BY <2>4, <3>1
    <3>3. Halving(m, Fit, R, none, g)[limit] =
            IF limit \in Fit THEN R[limit] ELSE IF limit <= 1 THEN none ELSE g[limit \div 2]
      BY DEF Halving
    <3>4. CASE limit = m
      BY <3>2, <3>3, <3>4
    <3>5. CASE limit # m
      <4>1. limit \in 1 .. (m - 1) /\ g[limit] = f[limit]
        BY <2>2, <3>5
      <4>2. f[limit] = IF limit \in Fit THEN R[limit] ELSE IF limit <= 1 THEN none ELSE f[limit \div 2]
        BY <2>6, <4>1 DEF Halving
      <4> HIDE DEF g
      <4> QED
        BY <3>2, <3>3, <4>1, <4>2
    <3> QED
      BY <3>4, <3>5
  <2>8. g = Halving(m, Fit, R, none, g)
    BY <2>7 DEF Halving
  <2> QED
    BY <2>2, <2>8
<1> QED
  BY <1>1

LEMMA HalvingEnds ==
  ASSUME NEW Fit, NEW R, NEW none, NEW w \in Nat, w >= 1, NEW f, f = Halving(w, Fit, R, none, f)
  PROVE  \E limit \in 1 .. w :
           /\ limit = w \/ \E wider \in 1 .. w : wider \notin Fit /\ wider > 1 /\ limit = wider \div 2
           /\ \/ limit \in Fit /\ f[w] = R[limit]
              \/ limit = 1 /\ limit \notin Fit /\ f[w] = none
<1> DEFINE Ended(from, limit) ==
             /\ limit = from \/ \E wider \in 1 .. w : wider \notin Fit /\ wider > 1 /\ limit = wider \div 2
             /\ \/ limit \in Fit /\ f[from] = R[limit]
                \/ limit = 1 /\ limit \notin Fit /\ f[from] = none
           Ends1(from) == \E limit \in 1 .. w : Ended(from, limit)
           Bad == {from \in 1 .. w : ~ Ends1(from)}
<1>1. ASSUME Bad # {}
      PROVE  FALSE
  <2>0. Bad \in SUBSET Nat
    OBVIOUS
  <2> HIDE DEF Ends1
  <2>1. PICK m \in Bad : \A n \in Bad : m <= n
    <3> HIDE DEF Bad
    <3> QED
      BY <1>1, <2>0, LeastNatural
  <2>2. m \in 1 .. w /\ ~ Ends1(m)
    BY <2>1
  <2>3. f[m] = IF m \in Fit THEN R[m] ELSE IF m <= 1 THEN none ELSE f[m \div 2]
    BY <2>2 DEF Halving
  <2>4. CASE m \in Fit
    <3>1. Ended(m, m)
      BY <2>3, <2>4
    <3> QED
      BY <2>2, <3>1 DEF Ends1
  <2>5. CASE m \notin Fit /\ m = 1
    <3>1. Ended(m, m)
      BY <2>3, <2>5
    <3> QED
      BY <2>2, <3>1 DEF Ends1
  <2>6. CASE m \notin Fit /\ m # 1
    <3> DEFINE half == m \div 2
    <3>1. m > 1 /\ half \in 1 .. w /\ ~ (m <= half)
      BY <2>2, <2>6
    <3>2. f[m] = f[half]
      BY <2>2, <2>3, <2>6, <3>1
    <3>3. half \notin Bad
      BY <2>1, <3>1
    <3>4. PICK limit \in 1 .. w : Ended(half, limit)
      BY <3>1, <3>3 DEF Ends1
    <3>5. Ended(m, limit)
      <4>1. limit = m \/ \E wider \in 1 .. w : wider \notin Fit /\ wider > 1 /\ limit = wider \div 2
        BY <2>2, <2>6, <3>1, <3>4
      <4> QED
        BY <3>2, <3>4, <4>1
    <3> QED
      BY <2>2, <3>5 DEF Ends1
  <2> QED
    BY <2>4, <2>5, <2>6
<1>2. w \in 1 .. w
  OBVIOUS
<1> HIDE DEF Ended
<1>3. Ends1(w)
  BY <1>1, <1>2, Zenon
<1> QED
  BY <1>3 DEF Ended

At(body, args, limit) ==
  IF args.mode # "json" THEN TextSelection(IF body.is = "bytes" THEN body.bytes ELSE <<>>, args, limit)
  ELSE JsonSelection(body, args, limit)

Asked(args) == IF args.limit # Absent THEN args.limit
               ELSE IF args.mode # "json" THEN DefaultWindow ELSE DefaultRows
Widest(body, args) == Smaller(Asked(args), Larger(Length(body), 1))

(* A limit whose selection does not fit in a reply.                        *)
Exceeds(body, args, c, limit) ==
  /\ At(body, args, limit).ok
  /\ ~ (ReplySize(At(body, args, limit), args.mode # "json") <= Smaller(MaxReply, c))

(* A selection is the one at the limit that was asked for, or at half of   *)
(* one that exceeded the reply.                                            *)
LEMMA SelectHalves ==
  ASSUME NEW body, NEW json, NEW args, NEW c, ValidArguments(args),
         args.mode = "json" => json /\ ~ (Length(body) > MaxJson) /\ body.is # "bytes",
         Widest(body, args) \in Nat, Widest(body, args) >= 1
  PROVE  \E limit \in 1 .. Widest(body, args) :
           /\ \/ limit = Widest(body, args)
              \/ \E wider \in 1 .. Widest(body, args) :
                   Exceeds(body, args, c, wider) /\ wider > 1 /\ limit = wider \div 2
           /\ \/ ~ Exceeds(body, args, c, limit) /\ Select(body, json, args, c) = At(body, args, limit)
              \/ /\ limit = 1 /\ Exceeds(body, args, c, limit)
                 /\ Select(body, json, args, c) = Refused("exceeds the reply")
<1> DEFINE w == Widest(body, args)
           Fit == {limit \in 1 .. w : ~ Exceeds(body, args, c, limit)}
           R == [limit \in 1 .. w |-> At(body, args, limit)]
           none == Refused("exceeds the reply")
           halved(f) ==
             [limit \in 1 .. w |->
                IF ~ At(body, args, limit).ok
                   \/ ReplySize(At(body, args, limit), args.mode # "json") <= Smaller(MaxReply, c)
                THEN At(body, args, limit)
                ELSE IF limit <= 1 THEN none ELSE f[limit \div 2]]
           found == CHOOSE f : f = halved(f)
<1>1. Select(body, json, args, c) = found[w]
  BY DEF Select, At, Asked, Widest
<1> HIDE DEF w
<1>2. ASSUME NEW f
      PROVE  halved(f) = Halving(w, Fit, R, none, f)
  <2>1. ASSUME NEW limit \in 1 .. w
        PROVE  halved(f)[limit] = Halving(w, Fit, R, none, f)[limit]
    <3>1. limit \in Fit <=> (~ At(body, args, limit).ok
                   \/ ReplySize(At(body, args, limit), args.mode # "json") <= Smaller(MaxReply, c))
      BY Zenon DEF Exceeds
    <3>2. R[limit] = At(body, args, limit)
      OBVIOUS
    <3> HIDE DEF Fit, R, none
    <3>3. CASE limit \in Fit
      <4>1. halved(f)[limit] = At(body, args, limit)
        BY <3>1, <3>3, Zenon
      <4>2. Halving(w, Fit, R, none, f)[limit] = R[limit]
        BY <3>3, Zenon DEF Halving
      <4> QED
        BY <3>2, <4>1, <4>2
    <3>4. CASE limit \notin Fit
      <4>1. halved(f)[limit] = IF limit <= 1 THEN none ELSE f[limit \div 2]
        BY <3>1, <3>4, Zenon
      <4>2. Halving(w, Fit, R, none, f)[limit] = IF limit <= 1 THEN none ELSE f[limit \div 2]
        BY <3>4, Zenon DEF Halving
      <4> QED
        BY <4>1, <4>2
    <3> QED
      BY <3>3, <3>4
  <2> HIDE DEF Fit, R, none
  <2> QED
    BY <2>1, Zenon DEF Halving
<1> HIDE DEF halved, Fit, R, none
<1>3. w \in Nat /\ w >= 1
  BY DEF w
<1>4. \E f : f = halved(f)
  <2>1. PICK f : f = Halving(w, Fit, R, none, f)
    BY <1>3, HalvingExists
  <2> QED
    BY <1>2, <2>1
<1>5. found = Halving(w, Fit, R, none, found)
  <2>1. found = halved(found)
    BY <1>4, Zenon
  <2> QED
    BY <1>2, <2>1
<1> HIDE DEF found
<1>6. PICK limit \in 1 .. w :
         /\ limit = w \/ \E wider \in 1 .. w : wider \notin Fit /\ wider > 1 /\ limit = wider \div 2
         /\ \/ limit \in Fit /\ found[w] = R[limit]
            \/ limit = 1 /\ limit \notin Fit /\ found[w] = none
  BY <1>3, <1>5, HalvingEnds
<1>7. \A l \in 1 .. w : (l \in Fit <=> ~ Exceeds(body, args, c, l)) /\ R[l] = At(body, args, l)
  BY Zenon DEF Fit, R
<1> QED
  BY <1>1, <1>6, <1>7 DEF w, none

-----------------------------------------------------------------------------
(* Slices *)

LEMMA SliceOf ==
  ASSUME NEW s \in Seq(STRING), NEW a \in 0 .. Len(s), NEW b \in a .. Len(s)
  PROVE  /\ Slice(s, a, b) \in Seq(STRING) /\ Len(Slice(s, a, b)) = b - a
         /\ \A i \in 1 .. (b - a) : Slice(s, a, b)[i] = s[a + i]
         /\ Slice(s, 0, a) \o Slice(s, a, b) = Slice(s, 0, b)
         /\ Slice(s, a, a) = <<>>
  BY DEF Slice

LEMMA SliceCost ==
  ASSUME NEW s \in Seq(STRING), NEW a \in 0 .. Len(s), NEW b \in a .. Len(s)
  PROVE  /\ TextCost(Slice(s, a, b)) \in Nat /\ TextCost(Slice(s, a, b)) <= 2 * (b - a)
         /\ b - a = 5 /\ s[a + 2] # "nl" /\ s[a + 3] # "nl" => TextCost(Slice(s, a, b)) <= 8
<1> DEFINE t == Slice(s, a, b)
           n == b - a
           feeds == {i \in DOMAIN t : t[i] = "nl"}
<1>1. Len(t) = n /\ DOMAIN t = 1 .. n /\ n \in Nat /\ \A i \in 1 .. n : t[i] = s[a + i]
  <2>1. t \in Seq(STRING) /\ Len(t) = n /\ \A i \in 1 .. n : t[i] = s[a + i]
    BY SliceOf
  <2>2. n \in Nat
    OBVIOUS
  <2> HIDE DEF t, n
  <2> QED
    BY <2>1, <2>2
<1>2. TextCost(t) = Len(t) + Cardinality(feeds)
  BY DEF TextCost
<1> HIDE DEF t, n
<1>3. feeds \in SUBSET (1 .. n)
  BY <1>1
<1>4. IsFiniteSet(1 .. n) /\ Cardinality(1 .. n) = n
  <2>1. 1 \in Int /\ n \in Int
    BY <1>1
  <2>2. IsFiniteSet(1 .. n) /\ Cardinality(1 .. n) = IF 1 > n THEN 0 ELSE n - 1 + 1
    BY <2>1, FS_Interval
  <2> QED
    BY <1>1, <2>2
<1> HIDE DEF feeds
<1>5. IsFiniteSet(feeds) /\ Cardinality(feeds) \in Nat /\ Cardinality(feeds) <= n
  BY <1>3, <1>4, FS_Subset, FS_CardinalityType
<1>6. ASSUME n = 5, s[a + 2] # "nl", s[a + 3] # "nl"
      PROVE  Cardinality(feeds) <= 3
  <2> DEFINE others == (4 .. 5) \cup {1}
  <2>1. 4 \in Int /\ 5 \in Int /\ 1 \notin 4 .. 5
    OBVIOUS
  <2>2. IsFiniteSet(4 .. 5) /\ Cardinality(4 .. 5) = 2
    <3>1. IsFiniteSet(4 .. 5) /\ Cardinality(4 .. 5) = IF 4 > 5 THEN 0 ELSE 5 - 4 + 1
      BY <2>1, FS_Interval
    <3> QED
      BY <3>1
  <2>3. IsFiniteSet(others) /\ Cardinality(others) = 3
    <3>1. IsFiniteSet(others) /\ Cardinality(others) = Cardinality(4 .. 5) + 1
      BY <2>1, <2>2, FS_AddElement
    <3> QED
      BY <2>2, <3>1
  <2>4. feeds \in SUBSET others
    <3>1. 2 \notin feeds /\ 3 \notin feeds
      BY <1>1, <1>6 DEF feeds
    <3>2. \A i \in 1 .. n : i = 1 \/ i = 2 \/ i = 3 \/ i \in 4 .. 5
      BY <1>6
    <3> QED
      BY <1>3, <3>1, <3>2
  <2> HIDE DEF others
  <2>5. Cardinality(feeds) <= Cardinality(others)
    BY <2>3, <2>4, FS_Subset
  <2> QED
    BY <2>3, <2>5
<1>7. TextCost(t) = n + Cardinality(feeds)
  BY <1>1, <1>2
<1>8. TextCost(t) \in Nat /\ TextCost(t) <= 2 * n
  BY <1>1, <1>5, <1>7
<1>9. n = 5 /\ s[a + 2] # "nl" /\ s[a + 3] # "nl" => TextCost(t) <= 8
  BY <1>5, <1>6, <1>7
<1> QED
  BY <1>8, <1>9 DEF t, n

LEMMA After ==
  ASSUME NEW s \in Seq(STRING), IsUtf8(s), NEW k \in 0 .. Len(s)
  PROVE  /\ BoundaryAfter(s, k) \in k .. Len(s)
         /\ IsBoundary(s, BoundaryAfter(s, k))
         /\ BoundaryAfter(s, k) <= k + 2
         /\ \A j \in k .. Len(s) : IsBoundary(s, j) => BoundaryAfter(s, k) <= j
<1> DEFINE S == {i \in k .. Len(s) : IsBoundary(s, i)}
           Earliest(i) == IsBoundary(s, i) /\ \A j \in k .. (i - 1) : ~ IsBoundary(s, j)
<1>1. Len(s) \in Nat /\ S \in SUBSET Nat /\ S # {}
  <2>1. Len(s) \in S
    BY DEF IsBoundary
  <2> QED
    BY <2>1
<1>2. PICK x \in S : \A y \in S : x <= y
  <2> HIDE DEF S
  <2> QED
    BY <1>1, LeastNatural
<1>3. x \in k .. Len(s) /\ Earliest(x)
  <2>1. x \in k .. Len(s) /\ IsBoundary(s, x)
    BY <1>2
  <2>2. ASSUME NEW j \in k .. (x - 1), IsBoundary(s, j)
        PROVE  FALSE
    <3>1. j \in k .. Len(s) /\ ~ (x <= j)
      BY <2>1
    <3>2. j \in S
      BY <2>2, <3>1
    <3> QED
      BY <1>2, <3>1, <3>2
  <2> QED
    BY <2>1, <2>2
<1> DEFINE b == BoundaryAfter(s, k)
<1>4. b \in k .. Len(s) /\ Earliest(b)
  BY <1>3, Zenon DEF BoundaryAfter
<1> HIDE DEF b, S
<1>5. ASSUME NEW j \in k .. Len(s), IsBoundary(s, j)
      PROVE  b <= j
  <2>1. j < b => j \in k .. (b - 1)
    BY <1>4
  <2>2. b \in Int /\ j \in Int
    BY <1>4
  <2> QED
    BY <1>4, <1>5, <2>1, <2>2
<1>6. b <= k + 2
  <2>1. CASE k + 2 > Len(s)
    BY <1>1, <1>4, <2>1
  <2>2. CASE k + 2 <= Len(s)
    <3>1. k + 2 \in 0 .. Len(s)
      BY <1>1, <2>2
    <3>2. PICK i \in 0 .. (k + 2) : IsBoundary(s, i) /\ (k + 2) - 2 <= i
      BY <3>1, BoundaryNear
    <3>3. i \in k .. Len(s) /\ i <= k + 2
      BY <2>2, <3>2
    <3>4. b <= i
      BY <1>5, <3>2, <3>3
    <3> QED
      BY <1>4, <3>3, <3>4
  <2> QED
    BY <1>1, <2>1, <2>2
<1> QED
  BY <1>4, <1>5, <1>6 DEF b

-----------------------------------------------------------------------------
(* A walk through a text *)

LEMMA WindowShows ==
  ASSUME NEW s \in Seq(STRING), IsUtf8(s), NEW args, args.offset \in 0 .. Len(s),
         IsBoundary(s, args.offset), NEW limit \in Nat
  PROVE  LET selection == Window(s, args, limit)
             from == args.offset
         IN \/ \E to \in from .. Len(s) :
                /\ selection.ok /\ selection.data = Slice(s, from, to)
                /\ selection.next = IF to < Len(s) THEN to ELSE Absent
                /\ IsBoundary(s, to) /\ to <= from + limit
            \/ /\ ~ selection.ok /\ from < Len(s)
               /\ from + limit < Len(s) /\ from + limit < BoundaryAfter(s, from + 1)
<1> DEFINE from == args.offset
           reach == Smaller(from + limit, Len(s))
           to == BoundaryBefore(s, reach)
<1>1. from \in 0 .. Len(s) /\ IsBoundary(s, from) /\ Len(s) \in Nat
  OBVIOUS
<1>2. /\ reach \in 0 .. Len(s) /\ from <= reach /\ reach <= from + limit
      /\ reach = Len(s) \/ (reach = from + limit /\ reach < Len(s))
  <2> HIDE DEF from
  <2>1. from + limit \in Nat /\ from <= from + limit
    BY <1>1
  <2>2. reach = IF from + limit < Len(s) THEN from + limit ELSE Len(s)
    BY DEF Smaller
  <2> HIDE DEF reach
  <2>3. from \in Nat /\ from <= Len(s) /\ limit \in Nat /\ Len(s) \in 0 .. Len(s)
    BY <1>1
  <2>4. CASE from + limit < Len(s)
    BY <1>1, <2>1, <2>2, <2>3, <2>4
  <2>5. CASE ~ (from + limit < Len(s))
    <3>1. reach = Len(s)
      BY <2>2, <2>5
    <3>2. Len(s) <= from + limit
      BY <1>1, <2>1, <2>5
    <3> QED
      BY <2>3, <3>1, <3>2
  <2> QED
    BY <2>4, <2>5
<1>3. Window(s, args, limit) =
        IF to <= from /\ from < Len(s) THEN Refused("smaller than a character")
        ELSE [ok |-> TRUE, data |-> Slice(s, from, to), start |-> from, end |-> to,
              next |-> NextWindow(s, from, to, limit), complete |-> NextWindow(s, from, to, limit) = Absent,
              truncated |-> from + limit < Len(s), matched |-> FALSE]
  BY Zenon DEF Window
<1> HIDE DEF reach
<1>4. to \in 0 .. reach /\ IsBoundary(s, to) /\ \A j \in 0 .. reach : IsBoundary(s, j) => j <= to
  BY <1>2, Before
<1> HIDE DEF from, to
<1>5. from <= to
  <2>1. from \in 0 .. reach
    BY <1>1, <1>2
  <2> QED
    BY <1>1, <1>4, <2>1 DEF from
<1>6. CASE to <= from /\ from < Len(s)
  <2>1. ~ Window(s, args, limit).ok
    <3>1. Window(s, args, limit) = Refused("smaller than a character")
      BY <1>3, <1>6, Zenon
    <3>2. Refused("smaller than a character").ok = FALSE
      BY DEF Refused
    <3> QED
      BY <3>1, <3>2, Zenon
  <2>2. reach # Len(s)
    <3>1. IsBoundary(s, Len(s))
      BY DEF IsBoundary
    <3>2. reach = Len(s) => Len(s) <= to
      BY <1>1, <1>4, <3>1
    <3> QED
      BY <1>1, <1>2, <1>4, <1>6, <3>2
  <2>3. reach = from + limit /\ reach < Len(s)
    BY <1>2, <2>2
  <2> DEFINE next == BoundaryAfter(s, from + 1)
  <2>4. next \in (from + 1) .. Len(s) /\ IsBoundary(s, next)
    <3>1. from + 1 \in 0 .. Len(s)
      BY <1>1, <1>6
    <3> QED
      BY <3>1, After
  <2> HIDE DEF next
  <2>5. ~ (next <= reach)
    <3>1. next <= reach => next <= to
      <4>1. next <= reach => next \in 0 .. reach
        BY <1>1, <1>2, <2>4
      <4> QED
        BY <1>4, <2>4, <4>1
    <3> QED
      BY <1>1, <1>2, <1>4, <1>6, <2>4, <3>1
  <2>6. from + limit < next
    BY <1>1, <1>2, <2>3, <2>4, <2>5
  <2> QED
    BY <1>6, <2>1, <2>3, <2>6 DEF from, next
<1>7. CASE ~ (to <= from /\ from < Len(s))
  <2>1. to \in from .. Len(s) /\ to <= from + limit
    BY <1>1, <1>2, <1>4, <1>5
  <2>2. /\ Window(s, args, limit).ok /\ Window(s, args, limit).data = Slice(s, from, to)
        /\ Window(s, args, limit).next = IF to < Len(s) THEN to ELSE Absent
    <3>1. Window(s, args, limit) =
            [ok |-> TRUE, data |-> Slice(s, from, to), start |-> from, end |-> to,
             next |-> NextWindow(s, from, to, limit), complete |-> NextWindow(s, from, to, limit) = Absent,
             truncated |-> from + limit < Len(s), matched |-> FALSE]
      BY <1>3, <1>7, Zenon
    <3> QED
      BY <3>1 DEF NextWindow
  <2> QED
    BY <1>4, <2>1, <2>2 DEF from
<1> QED
  BY <1>6, <1>7

LEMMA WidestIsLimit ==
  ASSUME NEW body, Length(body) \in Nat, NEW args \in Arguments, ValidArguments(args)
  PROVE  /\ Asked(args) \in Nat /\ Asked(args) >= 1
         /\ args.limit = Absent /\ args.mode # "json" => Asked(args) >= 3 /\ Asked(args) >= MaxNeedle
         /\ args.limit # Absent => Asked(args) = args.limit
         /\ Widest(body, args) \in Nat /\ Widest(body, args) >= 1
         /\ Widest(body, args) = Asked(args) \/ Length(body) <= Widest(body, args)
<1> DEFINE asked == Asked(args)
           length == Length(body)
<1>1. args.limit \in Nat \cup {Absent} /\ args.limit # 0
  BY DEF Arguments, ValidArguments
<1>2. /\ DefaultWindow \in Nat /\ DefaultWindow >= 3 /\ DefaultWindow >= MaxNeedle
      /\ DefaultRows \in Nat /\ DefaultRows # 0 /\ MaxNeedle \in Nat
  <2>1. /\ DefaultWindow \in Nat /\ DefaultRows \in Nat /\ DefaultRows # 0 /\ MaxNeedle \in Nat
        /\ DefaultWindow >= Larger(3, MaxNeedle)
    BY RetainedResultsAssumption
  <2>2. Larger(3, MaxNeedle) = IF 3 < MaxNeedle THEN MaxNeedle ELSE 3
    BY DEF Larger
  <2>3. Larger(3, MaxNeedle) \in Nat /\ Larger(3, MaxNeedle) >= 3 /\ Larger(3, MaxNeedle) >= MaxNeedle
    BY <2>1, <2>2
  <2> QED
    BY <2>1, <2>3
<1>3. asked = IF args.limit # Absent THEN args.limit
              ELSE IF args.mode # "json" THEN DefaultWindow ELSE DefaultRows
  BY DEF Asked
<1> HIDE DEF asked
<1>4. asked \in Nat /\ asked >= 1
  BY <1>1, <1>2, <1>3
<1>5. Widest(body, args) = IF asked < (IF length < 1 THEN 1 ELSE length) THEN asked
                           ELSE IF length < 1 THEN 1 ELSE length
  BY DEF Widest, Smaller, Larger, asked
<1> HIDE DEF length
<1>6. length \in Nat
  BY DEF length
<1>7. CASE length < 1
  <2>1. Widest(body, args) = IF asked < 1 THEN asked ELSE 1
    BY <1>5, <1>7
  <2> QED
    BY <1>1, <1>2, <1>3, <1>4, <1>6, <1>7, <2>1 DEF asked, length
<1>8. CASE ~ (length < 1)
  <2>1. Widest(body, args) = IF asked < length THEN asked ELSE length
    BY <1>5, <1>8
  <2> QED
    BY <1>1, <1>2, <1>3, <1>4, <1>6, <1>8, <2>1 DEF asked, length
<1> QED
  BY <1>7, <1>8

(* One selection of a text: a window from the offset to a boundary, or the *)
(* caller's limit is below the character there.                            *)
LEMMA TextSelected ==
  ASSUME NEW s \in Seq(STRING), NEW body, body = [is |-> "bytes", bytes |-> s], NEW json,
         NEW args \in Arguments, ValidArguments(args), args.mode = "text", args.offset \in 0 .. Len(s),
         NEW c \in Ceilings
  PROVE  LET selection == Select(body, json, args, c)
             from == args.offset
         IN /\ selection.ok =>
                 /\ IsUtf8(s)
                 /\ \E to \in from .. Len(s) :
                      /\ selection.data = Slice(s, from, to) /\ IsBoundary(s, to)
                      /\ selection.next = IF to < Len(s) THEN to ELSE Absent
            /\ ~ selection.ok /\ IsUtf8(s) /\ IsBoundary(s, from) =>
                 args.limit # Absent /\ args.limit < BoundaryAfter(s, from + 1) - from
<1> DEFINE selection == Select(body, json, args, c)
           from == args.offset
           w == Widest(body, args)
           bound == Smaller(MaxReply, c)
<1>1. Length(body) = Len(s) /\ Len(s) \in Nat /\ from \in 0 .. Len(s)
  BY DEF Length
<1>2. /\ Asked(args) \in Nat
      /\ args.limit = Absent => Asked(args) >= 3
      /\ args.limit # Absent => Asked(args) = args.limit
      /\ w \in Nat /\ w >= 1
      /\ w = Asked(args) \/ Len(s) <= w
  BY <1>1, WidestIsLimit
<1>3. args.text = Absent
  BY DEF ValidArguments
<1>4. \A limit : At(body, args, limit) =
        IF ~ IsUtf8(s) THEN Refused("not text")
        ELSE IF ~ IsBoundary(s, from) THEN Refused("not a boundary") ELSE Window(s, args, limit)
  BY <1>3 DEF At, TextSelection
<1>5. PICK limit \in 1 .. w :
         /\ limit = w \/ \E wider \in 1 .. w : Exceeds(body, args, c, wider) /\ wider > 1 /\ limit = wider \div 2
         /\ \/ ~ Exceeds(body, args, c, limit) /\ selection = At(body, args, limit)
            \/ limit = 1 /\ Exceeds(body, args, c, limit) /\ selection = Refused("exceeds the reply")
  BY <1>2, SelectHalves
<1>6. \A why : Refused(why).ok = FALSE
  BY DEF Refused
<1> HIDE DEF selection, w, from
<1>7. CASE selection.ok
  <2>1. selection = At(body, args, limit)
    BY <1>5, <1>6, <1>7
  <2>2. IsUtf8(s) /\ IsBoundary(s, from)
    BY <1>4, <1>6, <1>7, <2>1
  <2>3. selection = Window(s, args, limit)
    BY <1>4, <2>1, <2>2
  <2>4. limit \in Nat
    BY <1>2
  <2>5. \E to \in from .. Len(s) :
          /\ selection.data = Slice(s, from, to) /\ IsBoundary(s, to)
          /\ selection.next = IF to < Len(s) THEN to ELSE Absent
    BY <1>1, <1>7, <2>2, <2>3, <2>4, WindowShows DEF from
  <2> QED
    BY <1>7, <2>2, <2>5 DEF selection, from
<1>8. CASE ~ selection.ok /\ IsUtf8(s) /\ IsBoundary(s, from)
  <2> DEFINE next == BoundaryAfter(s, from + 1)
  <2>1. \A l : At(body, args, l) = Window(s, args, l)
    BY <1>4, <1>8
  <2>2. bound \in Nat /\ ReplyOverhead \in Nat /\ ReplyOverhead + 16 <= bound
    <3>1. /\ bound \in Nat /\ ReplyOverhead \in Nat /\ MaxNeedle \in Nat
          /\ bound - ReplyOverhead >= Larger(16, 8 * MaxNeedle - 4)
      BY RetainedResultsAssumption DEF Smaller
    <3>2. Larger(16, 8 * MaxNeedle - 4) >= 16 /\ Larger(16, 8 * MaxNeedle - 4) \in Int
      BY <3>1 DEF Larger
    <3> HIDE DEF bound
    <3> QED
      BY <3>1, <3>2
  <2> HIDE DEF bound
  (* what exceeds the reply is no window of few bytes *)
  <2>3. ASSUME NEW l \in 1 .. w, Exceeds(body, args, c, l)
        PROVE  \E to \in from .. Len(s) :
                 to <= from + l /\ TextCost(Slice(s, from, to)) \in Nat /\ TextCost(Slice(s, from, to)) > 8
    <3>1. l \in Nat /\ Window(s, args, l).ok
      BY <1>2, <2>1, <2>3 DEF Exceeds
    <3>2. PICK to \in from .. Len(s) : Window(s, args, l).data = Slice(s, from, to) /\ to <= from + l
      BY <1>1, <1>8, <3>1, WindowShows DEF from
    <3> DEFINE cost == TextCost(Slice(s, from, to))
    <3>3. cost \in Nat
      BY <1>1, SliceCost
    <3>4. ReplySize(At(body, args, l), args.mode # "json") = ReplyOverhead + 2 * cost
      <4>1. args.mode # "json"
        OBVIOUS
      <4> QED
        BY <2>1, <3>2, <4>1 DEF ReplySize
    <3> HIDE DEF cost
    <3>5. ~ (ReplyOverhead + 2 * cost <= bound)
      BY <2>3, <3>4, Zenon DEF Exceeds, bound
    <3>6. cost > 8
      BY <2>2, <3>3, <3>5
    <3> QED
      BY <3>2, <3>3, <3>6 DEF cost
  <2>4. ~ (limit = 1 /\ Exceeds(body, args, c, limit))
    <3>1. ASSUME limit = 1, NEW to \in from .. Len(s), to <= from + limit
          PROVE  TextCost(Slice(s, from, to)) \in Nat /\ TextCost(Slice(s, from, to)) <= 8
      <4>1. TextCost(Slice(s, from, to)) \in Nat /\ TextCost(Slice(s, from, to)) <= 2 * (to - from)
        BY <1>1, SliceCost
      <4> QED
        BY <1>1, <3>1, <4>1
    <3> QED
      BY <2>3, <3>1
  <2>5. ~ Window(s, args, limit).ok
    BY <1>5, <1>8, <2>1, <2>4
  <2>6. from < Len(s) /\ from + limit < Len(s) /\ from + limit < next
    <3>1. limit \in Nat
      BY <1>2
    <3> QED
      BY <1>1, <1>8, <2>5, <3>1, WindowShows DEF from
  <2>7. next \in (from + 1) .. Len(s) /\ next <= from + 3 /\ \A j \in (from + 1) .. Len(s) : IsBoundary(s, j) => next <= j
    <3>1. from + 1 \in 0 .. Len(s) /\ (from + 1) + 2 = from + 3
      BY <1>1, <2>6
    <3> QED
      BY <1>8, <3>1, After
  <2> HIDE DEF next
  <2>8. limit \in Nat /\ limit >= 1 /\ limit <= 2
    BY <1>1, <1>2, <2>6, <2>7
  <2>9. limit = w
    <3>1. ASSUME NEW wider \in 1 .. w, Exceeds(body, args, c, wider), wider > 1, limit = wider \div 2
          PROVE  FALSE
      <4>1. wider \in Nat /\ wider <= 5 /\ (wider = 5 => limit = 2) /\ wider > 1
        BY <1>2, <2>8, <3>1
      <4>2. PICK to \in from .. Len(s) :
              to <= from + wider /\ TextCost(Slice(s, from, to)) \in Nat /\ TextCost(Slice(s, from, to)) > 8
        BY <2>3, <3>1
      <4> DEFINE cost == TextCost(Slice(s, from, to))
      <4>3. /\ cost \in Nat /\ cost <= 2 * (to - from)
            /\ to - from = 5 /\ s[from + 2] # "nl" /\ s[from + 3] # "nl" => cost <= 8
        BY <1>1, SliceCost
      <4>4. cost > 8 /\ to \in Int /\ from \in Int /\ to <= from + wider
        BY <1>1, <4>2
      <4> HIDE DEF cost
      <4>5. wider = 5 /\ to - from = 5 /\ limit = 2
        BY <4>1, <4>3, <4>4
      <4>6. next = from + 3
        BY <1>1, <2>6, <2>7, <4>5
      <4>7. ~ IsBoundary(s, from + 1) /\ ~ IsBoundary(s, from + 2)
        <5>1. from + 1 \in (from + 1) .. Len(s) /\ from + 2 \in (from + 1) .. Len(s)
          BY <1>1, <2>7, <4>6
        <5>2. ~ (next <= from + 1) /\ ~ (next <= from + 2)
          BY <1>1, <4>6
        <5> QED
          BY <2>7, <5>1, <5>2
      <4>8. s[from + 2] \in Continues /\ s[from + 3] \in Continues
        <5>1. from + 1 < Len(s) /\ from + 2 < Len(s) /\ (from + 1) + 1 = from + 2 /\ (from + 2) + 1 = from + 3
          BY <1>1, <2>7, <4>5, <4>6, <2>6
        <5> QED
          BY <4>7, <5>1 DEF IsBoundary
      <4>9. s[from + 2] # "nl" /\ s[from + 3] # "nl"
        BY <4>8 DEF Continues
      <4> QED
        BY <4>3, <4>4, <4>5, <4>9
    <3> QED
      BY <1>5, <3>1
  <2>10. limit = Asked(args)
    BY <1>1, <1>2, <2>6, <2>9
  <2>11. args.limit # Absent /\ args.limit = limit
    BY <1>2, <2>8, <2>10
  <2>12. args.limit < next - from
    BY <1>1, <2>6, <2>7, <2>8, <2>11
  <2> QED
    BY <1>8, <2>11, <2>12 DEF selection, from, next
<1> QED
  BY <1>7, <1>8 DEF selection, from

-----------------------------------------------------------------------------
(* What a walk has shown *)

Flat(q, n, f) == [i \in 1 .. n |-> IF i = 1 THEN q[i] ELSE f[i - 1] \o q[i]]

LEMMA FlatExists ==
  ASSUME NEW q, NEW n \in Nat
  PROVE  \E f : f = Flat(q, n, f)
<1> DEFINE Bad == {k \in Nat : ~ \E f : f = Flat(q, k, f)}
<1>1. ASSUME Bad # {}
      PROVE  FALSE
  <2>1. PICK m \in Bad : \A k \in Bad : m <= k
    BY <1>1, LeastNatural
  <2>2. m \in Nat /\ ~ \E f : f = Flat(q, m, f)
    BY <2>1
  <2>3. m # 0
    <3>1. [i \in 1 .. 0 |-> q] = Flat(q, 0, [i \in 1 .. 0 |-> q])
      BY DEF Flat
    <3> QED
      BY <2>2, <3>1
  <2>4. m - 1 \in Nat /\ ~ (m <= m - 1)
    BY <2>2, <2>3
  <2>5. m - 1 \notin Bad
    BY <2>1, <2>4
  <2>6. PICK f : f = Flat(q, m - 1, f)
    BY <2>4, <2>5, Zenon
  <2> DEFINE g == [i \in 1 .. m |-> IF i = m THEN IF m = 1 THEN q[m] ELSE f[m - 1] \o q[m] ELSE f[i]]
  <2>7. ASSUME NEW i \in 1 .. m
        PROVE  g[i] = Flat(q, m, g)[i]
    <3>1. i # 1 => g[i - 1] = f[i - 1]
      BY <2>2
    <3>2. Flat(q, m, g)[i] = IF i = 1 THEN q[i] ELSE g[i - 1] \o q[i]
      BY DEF Flat
    <3>3. CASE i = m
      BY <3>1, <3>2, <3>3
    <3>4. CASE i # m
      <4>1. i \in 1 .. (m - 1) /\ g[i] = f[i]
        BY <2>2, <3>4
      <4>2. f[i] = IF i = 1 THEN q[i] ELSE f[i - 1] \o q[i]
        BY <2>6, <4>1 DEF Flat
      <4> HIDE DEF g
      <4> QED
        BY <3>1, <3>2, <4>1, <4>2
    <3> QED
      BY <3>3, <3>4
  <2>8. g = Flat(q, m, g)
    BY <2>7 DEF Flat
  <2> QED
    BY <2>2, <2>8
<1> QED
  BY <1>1

Agree(q, p, n) == \A i \in 1 .. n : p[i] = q[i]
IsFlat(f, q, n) == f = Flat(q, n, f)
Extends(q, p, n) == Len(q) = n /\ Len(p) = n + 1 /\ Agree(q, p, n)

LEMMA FlatAgree ==
  ASSUME NEW q, NEW p, NEW n \in Nat, Agree(q, p, n),
         NEW f, IsFlat(f, q, n), NEW g, IsFlat(g, p, n + 1)
  PROVE  Agree(f, g, n)
<1> DEFINE Bad == {i \in 1 .. n : g[i] # f[i]}
<1>1. ASSUME Bad # {}
      PROVE  FALSE
  <2>0. Bad \in SUBSET Nat
    OBVIOUS
  <2>1. PICK k \in Bad : \A i \in Bad : k <= i
    <3> HIDE DEF Bad
    <3> QED
      BY <1>1, <2>0, LeastNatural
  <2>2. k \in 1 .. n /\ k \in 1 .. (n + 1) /\ g[k] # f[k]
    BY <2>1
  <2>3. /\ f[k] = IF k = 1 THEN q[k] ELSE f[k - 1] \o q[k]
        /\ g[k] = IF k = 1 THEN p[k] ELSE g[k - 1] \o p[k]
    BY <2>2 DEF IsFlat, Flat
  <2>4. p[k] = q[k]
    BY <2>2 DEF Agree
  <2>5. k # 1 => k - 1 \in 1 .. n /\ ~ (k <= k - 1)
    BY <2>2
  <2>6. k # 1 => g[k - 1] = f[k - 1]
    BY <2>1, <2>5
  <2> QED
    BY <2>2, <2>3, <2>6, <2>4
<1> QED
  BY <1>1 DEF Agree

LEMMA FlattenIs ==
  ASSUME NEW n \in Nat, NEW q, Len(q) = n
  PROVE  \E f : IsFlat(f, q, n) /\ (n # 0 => FlattenSeq(q) = f[n])
<1> DEFINE f == CHOOSE h : h = Flat(q, n, h)
<1>1. \E h : h = Flat(q, n, h)
  BY FlatExists
<1>2. f = Flat(q, n, f)
  BY <1>1, Zenon
<1>3. n # 0 => FlattenSeq(q) = f[n]
  BY Zenon DEF FlattenSeq, Flat
<1> HIDE DEF f
<1>4. IsFlat(f, q, n)
  BY <1>2 DEF IsFlat
<1> QED
  BY <1>3, <1>4, Zenon

LEMMA FlattenGrows ==
  ASSUME NEW n \in Nat, NEW q, NEW p, Extends(q, p, n)
  PROVE  FlattenSeq(p) = IF n = 0 THEN p[1] ELSE FlattenSeq(q) \o p[n + 1]
<1>1. Len(q) = n /\ Len(p) = n + 1 /\ Agree(q, p, n)
  BY DEF Extends
<1>2. n + 1 \in Nat /\ n + 1 # 0
  OBVIOUS
<1>3. PICK f : IsFlat(f, q, n) /\ (n # 0 => FlattenSeq(q) = f[n])
  BY <1>1, FlattenIs, Zenon
<1>4. PICK g : IsFlat(g, p, n + 1) /\ FlattenSeq(p) = g[n + 1]
  BY <1>1, <1>2, FlattenIs, Zenon
<1>5. g[n + 1] = IF n = 0 THEN p[1] ELSE g[n] \o p[n + 1]
  <2>1. n + 1 \in 1 .. (n + 1) /\ (n + 1) - 1 = n /\ (n + 1 = 1 <=> n = 0)
    OBVIOUS
  <2>2. Flat(p, n + 1, g)[n + 1] = IF n + 1 = 1 THEN p[n + 1] ELSE g[(n + 1) - 1] \o p[n + 1]
    BY <2>1, Zenon DEF Flat
  <2> QED
    BY <1>4, <2>1, <2>2 DEF IsFlat
<1>6. Agree(f, g, n)
  BY <1>1, <1>3, <1>4, FlatAgree, Zenon
<1>7. n # 0 => g[n] = f[n]
  BY <1>6 DEF Agree
<1> QED
  BY <1>3, <1>4, <1>5, <1>7

Flattened(shown) == FlattenSeq([i \in DOMAIN shown |-> shown[i].data])

LEMMA FlattenedGrows ==
  ASSUME NEW S, NEW shown \in Seq(S), NEW new
  PROVE  /\ Append(shown, new) \in Seq(S \cup {new})
         /\ Flattened(Append(shown, new)) = IF shown = <<>> THEN new.data ELSE Flattened(shown) \o new.data
<1> DEFINE n == Len(shown)
           grown == Append(shown, new)
           q == [i \in DOMAIN shown |-> shown[i].data]
           p == [i \in DOMAIN grown |-> grown[i].data]
<1>1. shown \in Seq(S \cup {new}) /\ n \in Nat /\ DOMAIN shown = 1 .. n
  OBVIOUS
<1>2. /\ grown \in Seq(S \cup {new}) /\ DOMAIN grown = 1 .. (n + 1) /\ grown[n + 1] = new
      /\ \A i \in 1 .. n : grown[i] = shown[i]
  BY <1>1
<1> HIDE DEF n, grown
<1>3. Len(q) = n /\ Len(p) = n + 1
  BY <1>1, <1>2
<1>4. p[n + 1] = new.data /\ \A i \in 1 .. n : p[i] = q[i]
  BY <1>1, <1>2
<1>5. n = 0 <=> shown = <<>>
  BY DEF n
<1> HIDE DEF p, q
<1>6. FlattenSeq(p) = IF n = 0 THEN p[1] ELSE FlattenSeq(q) \o p[n + 1]
  <2>1. n \in Nat /\ Extends(q, p, n)
    BY <1>1, <1>3, <1>4 DEF Extends, Agree
  <2> QED
    BY <2>1, FlattenGrows, Zenon
<1>7. n = 0 => n + 1 = 1
  OBVIOUS
<1>8. FlattenSeq(p) = IF shown = <<>> THEN new.data ELSE FlattenSeq(q) \o new.data
  BY <1>4, <1>5, <1>6, <1>7
<1> QED
  BY <1>2, <1>8 DEF Flattened, grown, p, q

LEMMA NothingFlattened == Flattened(<<>>) = <<>>
<1>1. [i \in DOMAIN <<>> |-> <<>>[i].data] = <<>>
  OBVIOUS
<1> QED
  BY <1>1 DEF Flattened, FlattenSeq

-----------------------------------------------------------------------------
(* The shape of a walk *)

(* A walk goes on from the arguments it began with, but for the offset.    *)
WalkShape ==
  walk # NoWalk =>
    /\ walk = [at |-> walk.at, args |-> walk.args, shown |-> walk.shown]
    /\ walk.at \in {"walking", "done", "refused", "missing"}
    /\ \E first \in Selections : walk.args = [first EXCEPT !.offset = walk.args.offset]
    /\ \E S : walk.shown \in Seq(S)
    /\ Held.body.is # "bytes" => walk.args.mode = "json"

Chosen == Select(Held.body, DeclaresJson(Held.type), walk.args, answer.ceiling)

WalkBegins ==
  /\ walk = NoWalk
  /\ \E args \in Selections :
       /\ Held.body.is # "bytes" => args.mode = "json"
       /\ walk' = [at |-> "walking", args |-> args, shown |-> <<>>]
WalkStops(at) == walk.at = "walking" /\ walk' = [walk EXCEPT !.at = at]
WalkGoesOn ==
  /\ walk.at = "walking" /\ Chosen.ok
  /\ walk' = [at |-> IF Chosen.next = Absent THEN "done" ELSE "walking",
              args |-> [walk.args EXCEPT !.offset = IF Chosen.next = Absent THEN walk.args.offset
                                                    ELSE Chosen.next],
              shown |-> Append(walk.shown, Chosen)]

LEMMA WalkSteps ==
  ASSUME Made, [Next]_vars
  PROVE  /\ Held' = Held /\ answer' = answer
         /\ \/ walk' = walk
            \/ WalkBegins
            \/ WalkStops("missing")
            \/ WalkStops("refused") /\ ~ Chosen.ok
            \/ WalkGoesOn
<1>1. answer' = answer
  BY DEF Next, vars, Respond, Begin, SelectNext, Lose
<1>2. Held' = Held
  BY <1>1 DEF Held, Data, Upstream
<1>3. ASSUME NEW args \in Selections, Begin(args)
      PROVE  WalkBegins
  BY <1>3 DEF Begin, WalkBegins, Made
<1>4. ASSUME SelectNext
      PROVE  WalkStops("missing") \/ (WalkStops("refused") /\ ~ Chosen.ok) \/ WalkGoesOn
  <2>1. walk.at = "walking"
    BY <1>4 DEF SelectNext
  <2>2. CASE retained = Absent
    BY <1>4, <2>2 DEF SelectNext, WalkStops
  <2>3. CASE retained # Absent
    <3>1. retained = Held
      BY <2>3 DEF Made
    <3> DEFINE selection == Select(retained.body, DeclaresJson(retained.type), walk.args, answer.ceiling)
    <3>2. walk' = IF ~ selection.ok THEN [walk EXCEPT !.at = "refused"]
                  ELSE [at |-> IF selection.next = Absent THEN "done" ELSE "walking",
                        args |-> [walk.args EXCEPT !.offset = IF selection.next = Absent THEN walk.args.offset
                                                              ELSE selection.next],
                        shown |-> Append(walk.shown, selection)]
      BY <1>4, <2>3 DEF SelectNext
    <3>3. selection = Chosen
      BY <3>1 DEF Chosen
    <3> HIDE DEF selection
    <3> QED
      BY <2>1, <3>2, <3>3 DEF WalkStops, WalkGoesOn
  <2> QED
    BY <2>2, <2>3
<1>5. walk' = walk \/ SelectNext \/ \E args \in Selections : Begin(args)
  BY DEF Next, vars, Respond, Lose
<1> QED
  BY <1>1, <1>2, <1>3, <1>4, <1>5

LEMMA ShapeInit == Init => WalkShape
  BY DEF Init, WalkShape

LEMMA ShapeKept == Made /\ WalkShape /\ [Next]_vars => WalkShape'
<1> SUFFICES ASSUME Made, WalkShape, [Next]_vars, walk' # NoWalk
             PROVE  WalkShape'
  BY DEF WalkShape, NoWalk
<1>1. Held' = Held
  BY WalkSteps
<1>2. CASE walk' = walk
  BY <1>1, <1>2 DEF WalkShape
<1>3. CASE WalkBegins
  <2>1. PICK args \in Selections :
          /\ Held.body.is # "bytes" => args.mode = "json"
          /\ walk' = [at |-> "walking", args |-> args, shown |-> <<>>]
    BY <1>3 DEF WalkBegins
  <2>2. walk'.at = "walking" /\ walk'.args = args /\ walk'.shown = <<>>
    BY <2>1
  <2>3. args = [args EXCEPT !.offset = args.offset]
    BY RetainedResultsAssumption DEF Arguments
  <2>4. <<>> \in Seq({})
    OBVIOUS
  <2> QED
    BY <1>1, <2>1, <2>2, <2>3, <2>4 DEF WalkShape
<1>4. walk.at = "walking" => walk # NoWalk
  BY DEF NoWalk
<1>5. ASSUME NEW at \in {"missing", "refused"}, WalkStops(at)
      PROVE  WalkShape'
  <2>1. walk # NoWalk /\ walk' = [walk EXCEPT !.at = at]
    BY <1>4, <1>5 DEF WalkStops
  <2>2. walk' = [at |-> at, args |-> walk.args, shown |-> walk.shown]
    BY <2>1 DEF WalkShape
  <2> QED
    BY <1>1, <2>1, <2>2 DEF WalkShape
<1>6. CASE WalkGoesOn
  <2> DEFINE at == IF Chosen.next = Absent THEN "done" ELSE "walking"
             offset == IF Chosen.next = Absent THEN walk.args.offset ELSE Chosen.next
             new == Chosen
  <2>1. walk # NoWalk /\ walk' = [at |-> at, args |-> [walk.args EXCEPT !.offset = offset],
                                  shown |-> Append(walk.shown, new)]
    BY <1>4, <1>6 DEF WalkGoesOn
  <2> HIDE DEF offset, new
  <2>2. PICK first \in Selections : walk.args = [first EXCEPT !.offset = walk.args.offset]
    BY <2>1 DEF WalkShape
  <2>3. walk'.args = [first EXCEPT !.offset = offset] /\ walk'.args.offset = offset
        /\ walk'.args.mode = walk.args.mode
    <3>1. first \in Arguments
      BY RetainedResultsAssumption
    <3>2. walk'.args = [walk.args EXCEPT !.offset = offset]
      BY <2>1
    <3> QED
      BY <2>2, <3>1, <3>2 DEF Arguments
  <2>4. PICK S : walk.shown \in Seq(S)
    BY <2>1 DEF WalkShape
  <2>5. Append(walk.shown, new) \in Seq(S \cup {new})
    BY <2>4, FlattenedGrows
  <2>6. walk'.at \in {"walking", "done"} /\ walk'.shown = Append(walk.shown, new)
        /\ walk' = [at |-> walk'.at, args |-> walk'.args, shown |-> walk'.shown]
    BY <2>1
  <2>7. Held.body.is # "bytes" => walk.args.mode = "json"
    BY <2>1 DEF WalkShape
  <2>8. \E T : walk'.shown \in Seq(T)
    BY <2>5, <2>6
  <2>9. \E f \in Selections : walk'.args = [f EXCEPT !.offset = walk'.args.offset]
    BY <2>3
  <2> QED
    BY <1>1, <2>3, <2>6, <2>7, <2>8, <2>9 DEF WalkShape
<1> QED
  BY <1>2, <1>3, <1>5, <1>6, WalkSteps

LEMMA ShapeArguments ==
  ASSUME WalkShape, walk # NoWalk, walk.args.offset \in Nat
  PROVE  walk.args \in Arguments /\ (walk.args.text # Absent => IsUtf8(walk.args.text))
<1>1. PICK first \in Selections : walk.args = [first EXCEPT !.offset = walk.args.offset]
  BY DEF WalkShape
<1>2. first \in Arguments /\ (first.text # Absent => IsUtf8(first.text))
  BY RetainedResultsAssumption
<1>3. walk.args.text = first.text /\ walk.args \in Arguments
  BY <1>1, <1>2 DEF Arguments
<1> QED
  BY <1>2, <1>3

(* What is retained as bytes is a sequence of them, and what is retained   *)
(* as a document and has rows, has a sequence of them.                     *)
LEMMA HeldBody ==
  ASSUME Made
  PROVE  /\ Held.body.is = "bytes" =>
              Held.body = [is |-> "bytes", bytes |-> Held.body.bytes] /\ Held.body.bytes \in Seq(STRING)
         /\ Held.body.is = "string" => Held.body.bytes \in Seq(STRING)
<1> DEFINE type == Effective(Upstream.header, Upstream.declared)
           body == Upstream.body
<1>1. /\ WellFormed(body, type) /\ Data = Decoded(type, body)
      /\ type = Effective(Upstream.header, Upstream.declared)
  BY RetainedResultsAssumption DEF Made, Data, Upstream
<1> HIDE DEF type, body
<1>2. CASE body.is # "bytes"
  <2>1. Data = body /\ type \in Json
    BY <1>1, <1>2 DEF Decoded, WellFormed
  <2>2. Held = [body |-> body, type |-> "application/json"]
    BY <1>1, <2>1, Types DEF Held, Payload
  <2> QED
    BY <1>1, <1>2, <2>2 DEF WellFormed
<1>3. CASE body.is = "bytes"
  <2> DEFINE s == body.bytes
  <2>1. s \in Seq(STRING)
    BY <1>1, <1>3 DEF WellFormed
  <2> HIDE DEF s
  <2>2. Data = Null \/ Data = Text(s) \/ Data = Wrapped(s)
    BY <1>1, <1>3 DEF Decoded, s
  <2>3. CASE Data = Text(s)
    <3>1. Data.is = "string" /\ Data.bytes = s
      BY <2>3 DEF Text
    <3>2. ~ IsWrapper(Data)
      BY <3>1 DEF IsWrapper
    <3>3. Held.body = [is |-> "bytes", bytes |-> s] \/ Held.body = Data
      BY <3>1, <3>2 DEF Held, Payload
    <3> QED
      BY <2>1, <3>1, <3>3
  <2>4. CASE Data = Wrapped(s)
    <3>1. Data.is = "object" /\ Data.fields["content"].bytes = s
      BY <2>4 DEF Wrapped
    <3>2. Held.body = [is |-> "bytes", bytes |-> s] \/ Held.body = Data
      BY <3>1 DEF Held, Payload
    <3> QED
      BY <2>1, <3>1, <3>2
  <2>5. CASE Data = Null
    <3>1. Data.is = "scalar"
      BY <2>5 DEF Null
    <3>2. ~ IsWrapper(Data)
      BY <3>1 DEF IsWrapper
    <3>3. Held.body = Data
      BY <3>1, <3>2 DEF Held, Payload
    <3> QED
      BY <3>1, <3>3
  <2> QED
    BY <2>2, <2>3, <2>4, <2>5
<1> QED
  BY <1>2, <1>3

LEMMA InvalidRefused ==
  ASSUME NEW body, NEW json, NEW args, NEW c, Select(body, json, args, c).ok
  PROVE  ValidArguments(args)
<1>1. ASSUME ~ ValidArguments(args)
      PROVE  Select(body, json, args, c) = Refused("invalid arguments")
  BY <1>1, Zenon DEF Select
<1>2. Refused("invalid arguments").ok = FALSE
  BY DEF Refused
<1> QED
  BY <1>1, <1>2

-----------------------------------------------------------------------------
(* Walks through texts *)

TextWalk ==
  walk # NoWalk /\ walk.args.mode = "text" =>
    LET s == Held.body.bytes
        from == walk.args.offset
    IN /\ from \in 0 .. Len(s)
       /\ Flattened(walk.shown) = IF walk.at = "done" THEN s ELSE Slice(s, 0, from)
       /\ IsUtf8(s) => IsBoundary(s, from)
       /\ walk.at = "refused" /\ IsUtf8(s) /\ ValidArguments(walk.args) =>
            walk.args.limit # Absent /\ walk.args.limit < BoundaryAfter(s, from + 1) - from

LEMMA TextWalkInit == Init => TextWalk
  BY DEF Init, TextWalk

LEMMA TextWalkKept == Made /\ WalkShape /\ TextWalk /\ [Next]_vars => TextWalk'
<1> SUFFICES ASSUME Made, WalkShape, TextWalk, [Next]_vars, walk' # NoWalk, walk'.args.mode = "text"
             PROVE  TextWalk'
  BY DEF TextWalk, NoWalk
<1> DEFINE s == Held.body.bytes
           from == walk.args.offset
<1>1. Held' = Held /\ answer' = answer
  BY WalkSteps
<1>2. CASE walk' = walk
  BY <1>1, <1>2 DEF TextWalk
<1>3. CASE WalkBegins
  <2>1. PICK args \in Selections :
          /\ Held.body.is # "bytes" => args.mode = "json"
          /\ walk' = [at |-> "walking", args |-> args, shown |-> <<>>]
    BY <1>3 DEF WalkBegins
  <2>2. walk'.at = "walking" /\ walk'.args = args /\ walk'.shown = <<>> /\ args.offset = 0
    BY <2>1, RetainedResultsAssumption
  <2>3. s \in Seq(STRING)
    BY <2>1, <2>2, HeldBody
  <2>4. 0 \in 0 .. Len(s) /\ Slice(s, 0, 0) = <<>>
    BY <2>3, SliceOf
  <2>5. IsUtf8(s) => IsBoundary(s, 0)
    <3>1. IsUtf8(s) => \E i \in 0 .. 0 : IsBoundary(s, i)
      BY <2>3, <2>4, BoundaryNear
    <3>2. \A i \in 0 .. 0 : i = 0
      OBVIOUS
    <3> QED
      BY <3>1, <3>2
  <2> HIDE DEF s
  <2> QED
    BY <1>1, <2>2, <2>4, <2>5, NothingFlattened DEF TextWalk, s
<1>4. ASSUME walk.at = "walking", walk'.args.mode = walk.args.mode
      PROVE  /\ walk # NoWalk /\ s \in Seq(STRING) /\ Held.body = [is |-> "bytes", bytes |-> s]
             /\ walk.args \in Arguments /\ walk.args.mode = "text"
             /\ from \in 0 .. Len(s) /\ (IsUtf8(s) => IsBoundary(s, from))
             /\ Flattened(walk.shown) = Slice(s, 0, from)
  <2>1. walk # NoWalk /\ walk.args.mode = "text"
    BY <1>4 DEF NoWalk
  <2>2. s \in Seq(STRING) /\ Held.body = [is |-> "bytes", bytes |-> s]
    BY <2>1, HeldBody DEF WalkShape
  <2>3. from \in 0 .. Len(s) /\ Flattened(walk.shown) = Slice(s, 0, from) /\ (IsUtf8(s) => IsBoundary(s, from))
    BY <1>4, <2>1 DEF TextWalk
  <2>4. from \in Nat
    BY <2>2, <2>3
  <2>5. walk.args \in Arguments
    BY <2>1, <2>4, ShapeArguments
  <2> QED
    BY <2>1, <2>2, <2>3, <2>5
<1>5. ASSUME NEW at \in {"missing", "refused"}, WalkStops(at), at = "refused" => ~ Chosen.ok
      PROVE  TextWalk'
  <2>1. walk.at = "walking" /\ walk' = [at |-> at, args |-> walk.args, shown |-> walk.shown]
    BY <1>5 DEF WalkStops, WalkShape, NoWalk
  <2>2. walk'.at = at /\ walk'.args = walk.args /\ walk'.shown = walk.shown
    BY <2>1
  <2>3. /\ s \in Seq(STRING) /\ Held.body = [is |-> "bytes", bytes |-> s]
        /\ walk.args \in Arguments /\ walk.args.mode = "text"
        /\ from \in 0 .. Len(s) /\ (IsUtf8(s) => IsBoundary(s, from))
        /\ Flattened(walk.shown) = Slice(s, 0, from)
    BY <1>4, <2>1, <2>2
  <2>4. ASSUME at = "refused", IsUtf8(s), ValidArguments(walk.args)
        PROVE  walk.args.limit # Absent /\ walk.args.limit < BoundaryAfter(s, from + 1) - from
    <3>1. ~ Chosen.ok /\ answer.ceiling \in Ceilings
      BY <1>5, <2>4 DEF Made
    <3> QED
      BY <2>3, <2>4, <3>1, TextSelected DEF Chosen
  <2> HIDE DEF s
  <2> QED
    BY <1>1, <2>2, <2>3, <2>4 DEF TextWalk, s
<1>6. CASE WalkGoesOn
  <2>1. /\ walk.at = "walking" /\ Chosen.ok
        /\ walk'.at = IF Chosen.next = Absent THEN "done" ELSE "walking"
        /\ walk'.args = [walk.args EXCEPT !.offset = IF Chosen.next = Absent THEN walk.args.offset
                                                     ELSE Chosen.next]
        /\ walk'.shown = Append(walk.shown, Chosen)
    BY <1>6 DEF WalkGoesOn
  <2>2. walk # NoWalk /\ from \in Nat
    <3>1. walk # NoWalk /\ walk.args.mode = walk'.args.mode
      <4>1. walk # NoWalk
        BY <2>1 DEF NoWalk
      <4>2. PICK first \in Selections : walk.args = [first EXCEPT !.offset = walk.args.offset]
        BY <4>1 DEF WalkShape
      <4>3. first \in Arguments
        BY RetainedResultsAssumption
      <4> HIDE DEF from
      <4> QED
        BY <2>1, <4>1, <4>2, <4>3 DEF Arguments
    <3>2. s \in Seq(STRING) /\ from \in 0 .. Len(s)
      BY <1>4, <2>1, <3>1
    <3> QED
      BY <3>1, <3>2
  <2>3. walk.args \in Arguments
    BY <2>2, ShapeArguments
  <2>4. /\ walk'.args.mode = walk.args.mode /\ walk'.args.limit = walk.args.limit
        /\ walk'.args.offset = IF Chosen.next = Absent THEN from ELSE Chosen.next
    BY <2>1, <2>3 DEF Arguments
  <2>5. /\ s \in Seq(STRING) /\ Held.body = [is |-> "bytes", bytes |-> s]
        /\ walk.args.mode = "text"
        /\ from \in 0 .. Len(s) /\ (IsUtf8(s) => IsBoundary(s, from))
        /\ Flattened(walk.shown) = Slice(s, 0, from)
    BY <1>4, <2>1, <2>4
  <2>6. ValidArguments(walk.args) /\ answer.ceiling \in Ceilings
    BY <2>1, InvalidRefused DEF Chosen, Made
  <2>7. PICK to \in from .. Len(s) :
           /\ Chosen.data = Slice(s, from, to) /\ IsBoundary(s, to)
           /\ Chosen.next = IF to < Len(s) THEN to ELSE Absent
    BY <2>1, <2>3, <2>5, <2>6, TextSelected DEF Chosen
  <2>8. PICK S : walk.shown \in Seq(S)
    BY <2>2 DEF WalkShape
  <2>9. Flattened(walk'.shown) = IF walk.shown = <<>> THEN Chosen.data ELSE Flattened(walk.shown) \o Chosen.data
    <3>1. ASSUME NEW new
          PROVE  Flattened(Append(walk.shown, new)) =
                   IF walk.shown = <<>> THEN new.data ELSE Flattened(walk.shown) \o new.data
      BY <2>8, FlattenedGrows
    <3> QED
      BY <2>1, <3>1
  <2>10. Slice(s, 0, from) \o Slice(s, from, to) = Slice(s, 0, to) /\ Len(Slice(s, 0, from)) = from
    <3>1. 0 \in 0 .. Len(s) /\ from \in 0 .. Len(s) /\ from - 0 = from
      BY <2>5
    <3> QED
      BY <2>5, <3>1, SliceOf
  <2>11. Flattened(walk'.shown) = Slice(s, 0, to)
    <3>1. CASE walk.shown = <<>>
      <4>1. Slice(s, 0, from) = <<>>
        BY <2>5, <3>1, NothingFlattened
      <4>2. from = 0
        BY <2>10, <4>1
      <4> QED
        BY <2>7, <2>9, <3>1, <4>2
    <3>2. CASE walk.shown # <<>>
      BY <2>5, <2>7, <2>9, <2>10, <3>2
    <3> QED
      BY <3>1, <3>2
  <2>12. to \in Nat /\ Len(s) \in Nat /\ Absent \notin Nat /\ Slice(s, 0, Len(s)) = s
    BY <2>5, RetainedResultsAssumption DEF Slice
  <2> HIDE DEF s, from
  <2>13. CASE to < Len(s)
    <3>1. walk'.at = "walking" /\ walk'.args.offset = to /\ to \in 0 .. Len(s)
      BY <2>1, <2>4, <2>7, <2>12, <2>13
    <3> QED
      BY <1>1, <2>7, <2>11, <3>1 DEF TextWalk, s
  <2>14. CASE ~ (to < Len(s))
    <3>1. to = Len(s)
      BY <2>5, <2>7, <2>12, <2>14
    <3>2. walk'.at = "done" /\ walk'.args.offset = from /\ Flattened(walk'.shown) = s
      BY <2>1, <2>4, <2>7, <2>11, <2>12, <2>14, <3>1
    <3> QED
      BY <1>1, <2>5, <3>2 DEF TextWalk, s
  <2> QED
    BY <2>13, <2>14
<1> QED
  BY <1>2, <1>3, <1>5, <1>6, WalkSteps

LEMMA TextWalkRecovers == Made /\ WalkShape /\ TextWalk => TextRecovered
<1> SUFFICES ASSUME Made, WalkShape, TextWalk, walk.at # "none", walk.args.mode = "text", retained # Absent
             PROVE  TextRecovered
  BY DEF TextRecovered
<1>1. retained = Held /\ walk # NoWalk
  BY DEF Made, NoWalk
<1>2. Shown = Flattened(walk.shown)
  BY DEF Shown, Flattened
<1> QED
  BY <1>1, <1>2 DEF TextRecovered, TextWalk

(* Whatever the text and the limits, following next_offset shows all of it *)
(* once, in order (text_selection).                                        *)
THEOREM TextIsRecovered == Spec => []TextRecovered
  BY MadeInit, MadeKept, ShapeInit, ShapeKept, TextWalkInit, TextWalkKept, TextWalkRecovers, PTL DEF Spec

-----------------------------------------------------------------------------
(* Walks through rows *)

Pointer(args) == IF args.pointer = Absent THEN <<>> ELSE args.pointer
RowsAt(body, args) == Target(body, Pointer(args)).rows
HasRows(body, args) ==
  body.is \in {"array", "object"} /\ Points(body, Pointer(args)) /\ Target(body, Pointer(args)).is = "array"

(* Rows are found only in what Gitea sent as a document.                   *)
LEMMA HeldRows ==
  ASSUME Made, NEW args, HasRows(Held.body, args)
  PROVE  RowsAt(Held.body, args) \in Seq(Range(RowsAt(Held.body, args))) /\ ValueCost(Held.body) \in Nat
<1> DEFINE type == Effective(Upstream.header, Upstream.declared)
           body == Upstream.body
           p == Pointer(args)
<1>1. /\ WellFormed(body, type) /\ Data = Decoded(type, body)
      /\ type = Effective(Upstream.header, Upstream.declared)
  BY RetainedResultsAssumption DEF Made, Data, Upstream
<1>2. /\ Held.body.is \in {"array", "object"} /\ Target(Held.body, p).is = "array"
      /\ p = <<>> \/ (Held.body.is = "object" /\ p[1] \in DOMAIN Held.body.fields)
  BY DEF HasRows, Points
<1> HIDE DEF type, body, p
<1>3. CASE body.is # "bytes"
  <2>1. Data = body /\ type \in Json
    BY <1>1, <1>3 DEF Decoded, WellFormed
  <2>2. Held = [body |-> body, type |-> "application/json"]
    BY <1>1, <2>1, Types DEF Held, Payload
  <2>3. Held.body = body
    BY <2>2
  <2>4. ASSUME NEW q \in {<<>>} \cup {<<f>> : f \in IF body.is = "object" THEN DOMAIN body.fields ELSE {}},
               Target(body, q).is = "array"
        PROVE  Target(body, q).rows \in Seq(Range(Target(body, q).rows))
    BY <1>1, <2>4 DEF WellFormed
  <2>5. PICK q \in {<<>>} \cup {<<f>> : f \in IF body.is = "object" THEN DOMAIN body.fields ELSE {}} :
          Target(body, q) = Target(body, p)
    <3>1. CASE p = <<>>
      BY <3>1
    <3>2. CASE p # <<>>
      <4>1. body.is = "object" /\ p[1] \in DOMAIN body.fields
        BY <1>2, <2>3, <3>2
      <4>2. <<p[1]>> # <<>> /\ <<p[1]>>[1] = p[1]
        OBVIOUS
      <4>3. Target(body, <<p[1]>>) = Target(body, p)
        BY <3>2, <4>2 DEF Target
      <4> QED
        BY <4>1, <4>3
    <3> QED
      BY <3>1, <3>2
  <2> QED
    BY <1>1, <1>2, <1>3, <2>3, <2>4, <2>5 DEF RowsAt, WellFormed, p
<1>4. CASE body.is = "bytes"
  <2> DEFINE s == body.bytes
  <2> HIDE DEF s
  <2>1. Data = Null \/ Data = Text(s) \/ Data = Wrapped(s)
    BY <1>1, <1>4 DEF Decoded, s
  <2>2. Held.body = Data \/ Held.body.is = "bytes"
    BY DEF Held, Payload
  <2>3. Held.body = Wrapped(s)
    BY <1>2, <2>1, <2>2 DEF Null, Text
  <2>4. /\ Held.body.is = "object" /\ DOMAIN Held.body.fields = {"encoding", "content"}
        /\ Held.body.fields["encoding"].is = "scalar" /\ Held.body.fields["content"].is = "base64"
    BY <2>3 DEF Wrapped
  <2>5. Target(Held.body, p) = IF p = <<>> THEN Held.body ELSE Held.body.fields[p[1]]
    BY DEF Target
  <2> QED
    BY <1>2, <2>4, <2>5
<1> QED
  BY <1>3, <1>4

LEMMA RowsShow ==
  ASSUME NEW body, NEW args, HasRows(body, args), NEW T, RowsAt(body, args) \in Seq(T),
         args.offset \in 0 .. Len(RowsAt(body, args)), NEW limit \in Nat
  PROVE  LET selection == JsonSelection(body, args, limit)
             rows == RowsAt(body, args)
             from == args.offset
         IN \E to \in from .. Len(rows) :
              /\ to <= from + limit /\ (to = Len(rows) \/ to = from + limit)
              /\ \/ /\ selection.ok
                    /\ selection.data = [i \in 1 .. (to - from) |-> Project(rows[from + i], args.fields)]
                    /\ selection.next = IF to < Len(rows) THEN to ELSE Absent
                 \/ ~ selection.ok /\ \E i \in DOMAIN rows : ~ Projectable(rows[i], args.fields)
<1> DEFINE rows == RowsAt(body, args)
           from == args.offset
           to == Smaller(from + limit, Len(rows))
           chosen == Slice(rows, from, to)
           next == NextRow(from, to, Len(rows), limit, args)
           picked == [ok |-> TRUE, start |-> from, end |-> to, next |-> next, complete |-> next = Absent,
                      data |-> [i \in DOMAIN chosen |-> Project(chosen[i], args.fields)],
                      truncated |-> next # Absent, matched |-> FALSE]
<1>1. from \in 0 .. Len(rows) /\ rows \in Seq(T) /\ Len(rows) \in Nat
  OBVIOUS
<1>2. JsonSelection(body, args, limit) =
        IF from > Len(rows) THEN Refused("past the rows")
        ELSE IF \E i \in DOMAIN chosen : ~ Projectable(chosen[i], args.fields) THEN Refused("no object")
        ELSE picked
  <2>1. Points(body, Pointer(args)) /\ Target(body, Pointer(args)).is = "array"
    BY DEF HasRows
  <2> QED
    BY <2>1, Zenon DEF JsonSelection, Pointer, RowsAt
<1> HIDE DEF from, rows
<1>3. /\ to \in from .. Len(rows)
      /\ to <= from + limit /\ (to = Len(rows) \/ to = from + limit)
  <2>1. to = IF from + limit < Len(rows) THEN from + limit ELSE Len(rows)
    BY DEF Smaller
  <2> HIDE DEF to
  <2> QED
    BY <1>1, <2>1
<1> HIDE DEF to
<1>4. DOMAIN chosen = 1 .. (to - from) /\ \A i \in 1 .. (to - from) : chosen[i] = rows[from + i] /\ from + i \in DOMAIN rows
  BY <1>1, <1>3 DEF Slice
<1> HIDE DEF chosen
<1>5. ~ (from > Len(rows))
  BY <1>1
<1>6. CASE \E i \in DOMAIN chosen : ~ Projectable(chosen[i], args.fields)
  <2>1. JsonSelection(body, args, limit) = Refused("no object")
    BY <1>2, <1>5, <1>6, Zenon
  <2>2. Refused("no object").ok = FALSE
    BY DEF Refused
  <2>3. \E i \in DOMAIN rows : ~ Projectable(rows[i], args.fields)
    BY <1>4, <1>6
  <2>4. ~ JsonSelection(body, args, limit).ok
    BY <2>1, <2>2
  <2> QED
    BY <1>3, <2>3, <2>4 DEF rows, from
<1>7. CASE ~ \E i \in DOMAIN chosen : ~ Projectable(chosen[i], args.fields)
  <2>1. JsonSelection(body, args, limit) = picked
    BY <1>2, <1>5, <1>7, Zenon
  <2>2. /\ picked.ok /\ picked.next = next
        /\ picked.data = [i \in DOMAIN chosen |-> Project(chosen[i], args.fields)]
    OBVIOUS
  <2>3. [i \in DOMAIN chosen |-> Project(chosen[i], args.fields)] =
          [i \in 1 .. (to - from) |-> Project(rows[from + i], args.fields)]
    BY <1>4
  <2>4. next = IF to < Len(rows) THEN to ELSE Absent
    BY DEF NextRow
  <2> HIDE DEF picked, next
  <2> QED
    BY <1>3, <2>1, <2>2, <2>3, <2>4 DEF rows, from
<1> QED
  BY <1>6, <1>7

LEMMA TogetherOfFew ==
  ASSUME NEW x
  PROVE  Together([i \in 1 .. 1 |-> x]) = x /\ Together([i \in 1 .. 0 |-> x]) = 0
<1> DEFINE costs == [i \in 1 .. 1 |-> x]
           sum == CHOOSE f : f = [n \in 1 .. Len(costs) |-> IF n = 1 THEN costs[1] ELSE f[n - 1] + costs[n]]
<1>1. Len(costs) = 1 /\ costs # <<>> /\ costs[1] = x
  OBVIOUS
<1>2. sum[1] = x
  <2> DEFINE f == [n \in 1 .. 1 |-> x]
  <2>1. \A n \in 1 .. 1 : n = 1
    OBVIOUS
  <2> HIDE DEF costs
  <2>2. f = [n \in 1 .. Len(costs) |-> IF n = 1 THEN costs[1] ELSE f[n - 1] + costs[n]]
    BY <1>1, <2>1
  <2>3. sum = [n \in 1 .. Len(costs) |-> IF n = 1 THEN costs[1] ELSE sum[n - 1] + costs[n]]
    <3> HIDE DEF f
    <3> QED
      BY <2>2, Zenon
  <2>4. 1 \in 1 .. Len(costs)
    BY <1>1
  <2> HIDE DEF sum
  <2> QED
    BY <1>1, <2>3, <2>4
<1>3. Together(costs) = sum[Len(costs)]
  BY <1>1, Zenon DEF Together
<1>4. [i \in 1 .. 0 |-> x] = <<>>
  OBVIOUS
<1> QED
  BY <1>1, <1>2, <1>3, <1>4 DEF Together

(* One selection of rows: from the offset, or one of them is no object or  *)
(* exceeds the reply alone.                                                *)
LEMMA RowsSelected ==
  ASSUME NEW body, body.is # "bytes", ValueCost(body) \in Nat, NEW json,
         NEW args \in Arguments, ValidArguments(args), args.mode = "json",
         HasRows(body, args), NEW T, RowsAt(body, args) \in Seq(T),
         args.offset \in 0 .. Len(RowsAt(body, args)), NEW c \in Ceilings
  PROVE  LET selection == Select(body, json, args, c)
             rows == RowsAt(body, args)
             from == args.offset
         IN /\ selection.ok =>
                 \E to \in from .. Len(rows) :
                   /\ selection.data = [i \in 1 .. (to - from) |-> Project(rows[from + i], args.fields)]
                   /\ selection.next = IF to < Len(rows) THEN to ELSE Absent
            /\ ~ selection.ok /\ json =>
                 \/ ValueCost(body) > MaxJson
                 \/ \E i \in DOMAIN rows :
                      \/ ~ Projectable(rows[i], args.fields)
                      \/ ~ (ReplyOverhead + 2 * ValueCost(Project(rows[i], args.fields)) <= Smaller(MaxReply, c))
<1> DEFINE selection == Select(body, json, args, c)
           rows == RowsAt(body, args)
           from == args.offset
           w == Widest(body, args)
           bound == Smaller(MaxReply, c)
<1>1. Length(body) = ValueCost(body)
  BY DEF Length
<1>2. w \in Nat /\ w >= 1
  BY <1>1, WidestIsLimit
<1>3. \A why : Refused(why).ok = FALSE
  BY DEF Refused
<1>4. ASSUME ~ json \/ ValueCost(body) > MaxJson
      PROVE  ~ selection.ok
  <2>1. selection = Refused("not small JSON")
    <3>1. ~ (args.mode # "json") /\ (~ json \/ Length(body) > MaxJson)
      BY <1>1, <1>4
    <3> QED
      BY <3>1, Zenon DEF Select
  <2> QED
    BY <1>3, <2>1
<1>5. CASE ~ (json /\ ~ (ValueCost(body) > MaxJson))
  BY <1>4, <1>5
<1>6. CASE json /\ ~ (ValueCost(body) > MaxJson)
  <2>1. PICK limit \in 1 .. w :
           \/ ~ Exceeds(body, args, c, limit) /\ selection = At(body, args, limit)
           \/ limit = 1 /\ Exceeds(body, args, c, limit) /\ selection = Refused("exceeds the reply")
    BY <1>1, <1>2, <1>6, SelectHalves
  <2>2. \A l : At(body, args, l) = JsonSelection(body, args, l)
    BY DEF At
  <2>3. limit \in Nat
    BY <1>2
  <2>4. PICK to \in from .. Len(rows) :
           /\ to <= from + limit /\ (to = Len(rows) \/ to = from + limit)
           /\ \/ /\ At(body, args, limit).ok
                 /\ At(body, args, limit).data = [i \in 1 .. (to - from) |-> Project(rows[from + i], args.fields)]
                 /\ At(body, args, limit).next = IF to < Len(rows) THEN to ELSE Absent
              \/ ~ At(body, args, limit).ok /\ \E i \in DOMAIN rows : ~ Projectable(rows[i], args.fields)
    <3> DEFINE shown == JsonSelection(body, args, limit)
    <3> HIDE DEF rows, from, shown
    <3>1. \E to \in from .. Len(rows) :
            /\ to <= from + limit /\ (to = Len(rows) \/ to = from + limit)
            /\ \/ /\ shown.ok
                  /\ shown.data = [i \in 1 .. (to - from) |-> Project(rows[from + i], args.fields)]
                  /\ shown.next = IF to < Len(rows) THEN to ELSE Absent
               \/ ~ shown.ok /\ \E i \in DOMAIN rows : ~ Projectable(rows[i], args.fields)
      BY <2>3, RowsShow DEF rows, from, shown
    <3>2. At(body, args, limit) = shown
      BY <2>2 DEF shown
    <3> QED
      BY <3>1, <3>2, Zenon
  <2> HIDE DEF selection
  <2>5. CASE selection.ok
    <3>1. selection = At(body, args, limit)
      BY <1>3, <2>1, <2>5
    <3>2. /\ selection.data = [i \in 1 .. (to - from) |-> Project(rows[from + i], args.fields)]
          /\ selection.next = IF to < Len(rows) THEN to ELSE Absent
      BY <2>4, <2>5, <3>1
    <3> HIDE DEF rows, from
    <3> QED
      BY <2>5, <3>2 DEF rows, from, selection
  <2>6. CASE ~ selection.ok /\ selection = At(body, args, limit)
    <3>1. \E i \in DOMAIN rows : ~ Projectable(rows[i], args.fields)
      BY <2>4, <2>6
    <3> QED
      BY <2>6, <3>1 DEF selection
  <2>7. CASE limit = 1 /\ Exceeds(body, args, c, limit)
    <3> DEFINE data == At(body, args, limit).data
               size == Together([i \in DOMAIN data |-> ValueCost(data[i])])
    <3>1. At(body, args, limit).ok /\ ~ (ReplySize(At(body, args, limit), args.mode # "json") <= bound)
      BY <2>7 DEF Exceeds
    <3>2. data = [i \in 1 .. (to - from) |-> Project(rows[from + i], args.fields)]
      BY <2>4, <3>1
    <3>3. ReplySize(At(body, args, limit), args.mode # "json") = ReplyOverhead + 2 * size
      <4>1. ~ (args.mode # "json")
        OBVIOUS
      <4> QED
        BY <4>1 DEF ReplySize
    <3>4. bound \in Nat /\ ReplyOverhead \in Nat /\ ReplyOverhead <= bound
      <4>1. /\ bound \in Nat /\ ReplyOverhead \in Nat /\ MaxNeedle \in Nat
            /\ bound - ReplyOverhead >= Larger(16, 8 * MaxNeedle - 4)
        BY RetainedResultsAssumption DEF Smaller
      <4>2. Larger(16, 8 * MaxNeedle - 4) >= 16 /\ Larger(16, 8 * MaxNeedle - 4) \in Int
        BY <4>1 DEF Larger
      <4> HIDE DEF bound
      <4> QED
        BY <4>1, <4>2
    <3> HIDE DEF data
    <3>5. Len(rows) \in Nat /\ from \in 0 .. Len(rows) /\ DOMAIN rows = 1 .. Len(rows)
      OBVIOUS
    <3>6. CASE to = from
      <4>1. [i \in DOMAIN data |-> ValueCost(data[i])] = [i \in 1 .. 0 |-> 0]
        <5>1. DOMAIN data = 1 .. (to - from) /\ to - from = 0
          BY <3>2, <3>5, <3>6
        <5> QED
          BY <5>1
      <4>2. size = 0
        BY <4>1, TogetherOfFew
      <4> HIDE DEF size, bound
      <4> QED
        BY <3>1, <3>3, <3>4, <4>2
    <3>7. CASE to # from
      <4>1. to = from + 1 /\ from + 1 \in DOMAIN rows /\ to - from = 1
        <5>1. to \in from .. Len(rows) /\ to <= from + 1
          BY <2>4, <2>7
        <5> HIDE DEF rows, from
        <5> QED
          BY <3>5, <3>7, <5>1
      <4> DEFINE row == Project(rows[from + 1], args.fields)
      <4>2. DOMAIN data = 1 .. 1 /\ data[1] = row
        BY <3>2, <4>1
      <4>3. [i \in DOMAIN data |-> ValueCost(data[i])] = [i \in 1 .. 1 |-> ValueCost(row)]
        <5>1. \A i \in 1 .. 1 : i = 1
          OBVIOUS
        <5> HIDE DEF row
        <5> QED
          BY <4>2, <5>1
      <4>4. size = ValueCost(row)
        BY <4>3, TogetherOfFew
      <4>5. ~ (ReplyOverhead + 2 * ValueCost(row) <= bound)
        BY <3>1, <3>3, <4>4
      <4> HIDE DEF rows, from, bound
      <4>6. \E i \in DOMAIN rows : ~ (ReplyOverhead + 2 * ValueCost(Project(rows[i], args.fields)) <= bound)
        BY <4>1, <4>5
      <4>7. ~ selection.ok
        BY <1>3, <2>1, <2>7
      <4> QED
        BY <4>6, <4>7, Zenon DEF rows, from, bound, selection
    <3> QED
      BY <3>6, <3>7
  <2> QED
    BY <2>1, <2>5, <2>6, <2>7
<1> QED
  BY <1>5, <1>6

RowsWalk ==
  walk # NoWalk /\ walk.args.mode = "json" /\ HasRows(Held.body, walk.args) =>
    LET body == Held.body
        rows == RowsAt(body, walk.args)
        fields == walk.args.fields
        from == walk.args.offset
    IN /\ from \in 0 .. Len(rows)
       /\ Flattened(walk.shown) =
            [i \in 1 .. (IF walk.at = "done" THEN Len(rows) ELSE from) |-> Project(rows[i], fields)]
       /\ walk.at = "refused" /\ ValidArguments(walk.args) /\ DeclaresJson(Held.type) =>
            \/ ValueCost(body) > MaxJson
            \/ \E i \in DOMAIN rows :
                 \/ ~ Projectable(rows[i], fields)
                 \/ ~ (ReplyOverhead + 2 * ValueCost(Project(rows[i], fields)) <= Smaller(MaxReply, answer.ceiling))

LEMMA RowsWalkInit == Init => RowsWalk
  BY DEF Init, RowsWalk

LEMMA RowsWalkKept == Made /\ WalkShape /\ RowsWalk /\ [Next]_vars => RowsWalk'
<1> SUFFICES ASSUME Made, WalkShape, RowsWalk, [Next]_vars, walk' # NoWalk, walk'.args.mode = "json",
                    HasRows(Held.body, walk'.args)
             PROVE  RowsWalk'
  <2>1. Made /\ [Next]_vars => Held' = Held
    BY WalkSteps
  <2> QED
    BY <2>1 DEF RowsWalk, NoWalk, HasRows, Points, Target, Pointer
<1> DEFINE body == Held.body
           from == walk.args.offset
           rows == RowsAt(body, walk.args)
<1>1. Held' = Held /\ answer' = answer
  BY WalkSteps
<1>2. CASE walk' = walk
  BY <1>1, <1>2 DEF RowsWalk, HasRows, RowsAt, Points, Target, Pointer
<1>3. CASE WalkBegins
  <2>1. PICK args \in Selections : walk' = [at |-> "walking", args |-> args, shown |-> <<>>]
    BY <1>3 DEF WalkBegins
  <2>2. walk'.at = "walking" /\ walk'.args = args /\ walk'.shown = <<>> /\ args.offset = 0
    BY <2>1, RetainedResultsAssumption
  <2>3. RowsAt(body, args) \in Seq(Range(RowsAt(body, args)))
    BY <2>2, HeldRows
  <2>4. 0 \in 0 .. Len(RowsAt(body, args))
    BY <2>3
  <2>5. [i \in 1 .. 0 |-> Project(RowsAt(body, args)[i], args.fields)] = <<>>
    OBVIOUS
  <2> HIDE DEF body
  <2> QED
    BY <1>1, <2>2, <2>4, <2>5, NothingFlattened DEF RowsWalk, body
<1>4. ASSUME walk.at = "walking"
      PROVE  /\ walk # NoWalk
             /\ walk'.args = [walk.args EXCEPT !.offset = walk'.args.offset] =>
                  /\ walk.args.mode = "json" /\ HasRows(body, walk.args)
                  /\ rows \in Seq(Range(rows)) /\ ValueCost(body) \in Nat
                  /\ from \in 0 .. Len(rows) /\ from \in Nat /\ walk.args \in Arguments
                  /\ Flattened(walk.shown) = [i \in 1 .. from |-> Project(rows[i], walk.args.fields)]
                  /\ walk'.args.fields = walk.args.fields /\ RowsAt(body, walk'.args) = rows
                  /\ walk'.args.limit = walk.args.limit
  <2>1. walk # NoWalk
    BY <1>4 DEF NoWalk
  <2>2. PICK first \in Selections : walk.args = [first EXCEPT !.offset = walk.args.offset]
    BY <2>1 DEF WalkShape
  <2>3. first \in Arguments
    BY RetainedResultsAssumption
  <2> SUFFICES ASSUME walk'.args = [walk.args EXCEPT !.offset = walk'.args.offset]
               PROVE  /\ walk.args.mode = "json" /\ HasRows(body, walk.args)
                      /\ rows \in Seq(Range(rows)) /\ ValueCost(body) \in Nat
                      /\ from \in 0 .. Len(rows) /\ from \in Nat /\ walk.args \in Arguments
                      /\ Flattened(walk.shown) = [i \in 1 .. from |-> Project(rows[i], walk.args.fields)]
                      /\ walk'.args.fields = walk.args.fields /\ RowsAt(body, walk'.args) = rows
                      /\ walk'.args.limit = walk.args.limit
    BY <2>1
  <2>4. /\ walk'.args.mode = walk.args.mode /\ walk'.args.pointer = walk.args.pointer
        /\ walk'.args.fields = walk.args.fields /\ walk'.args.limit = walk.args.limit
    <3> HIDE DEF from, rows, body
    <3>1. walk.args = [first EXCEPT !.offset = walk.args.offset]
      BY <2>2
    <3> QED
      BY <2>3, <3>1 DEF Arguments
  <2>5. Pointer(walk'.args) = Pointer(walk.args)
    BY <2>4 DEF Pointer
  <2>6. HasRows(body, walk.args) /\ RowsAt(body, walk'.args) = rows
    BY <2>5 DEF HasRows, RowsAt
  <2>7. rows \in Seq(Range(rows)) /\ ValueCost(body) \in Nat
    BY <2>6, HeldRows
  <2>8. /\ from \in 0 .. Len(rows)
        /\ Flattened(walk.shown) = [i \in 1 .. from |-> Project(rows[i], walk.args.fields)]
    BY <1>4, <2>1, <2>4, <2>6 DEF RowsWalk
  <2>9. from \in Nat
    BY <2>7, <2>8
  <2>10. walk.args \in Arguments
    BY <2>1, <2>9, ShapeArguments
  <2> QED
    BY <2>4, <2>6, <2>7, <2>8, <2>9, <2>10
<1>5. ASSUME NEW at \in {"missing", "refused"}, WalkStops(at), at = "refused" => ~ Chosen.ok
      PROVE  RowsWalk'
  <2>1. walk.at = "walking" /\ walk' = [at |-> at, args |-> walk.args, shown |-> walk.shown]
    BY <1>5 DEF WalkStops, WalkShape, NoWalk
  <2>2. walk'.at = at /\ walk'.args = walk.args /\ walk'.shown = walk.shown
    BY <2>1
  <2>3. walk'.args = [walk.args EXCEPT !.offset = walk'.args.offset]
    <3>1. PICK first \in Selections : walk.args = [first EXCEPT !.offset = walk.args.offset]
      BY <1>4, <2>1 DEF WalkShape
    <3>2. first \in Arguments
      BY RetainedResultsAssumption
    <3> HIDE DEF from
    <3> QED
      BY <2>2, <3>1, <3>2 DEF Arguments
  <2>4. /\ walk.args.mode = "json" /\ HasRows(body, walk.args)
        /\ rows \in Seq(Range(rows)) /\ ValueCost(body) \in Nat
        /\ from \in 0 .. Len(rows) /\ walk.args \in Arguments
        /\ Flattened(walk.shown) = [i \in 1 .. from |-> Project(rows[i], walk.args.fields)]
    BY <1>4, <2>1, <2>3
  <2>5. ASSUME at = "refused", ValidArguments(walk.args), DeclaresJson(Held.type)
        PROVE  \/ ValueCost(body) > MaxJson
               \/ \E i \in DOMAIN rows :
                    \/ ~ Projectable(rows[i], walk.args.fields)
                    \/ ~ (ReplyOverhead + 2 * ValueCost(Project(rows[i], walk.args.fields))
                            <= Smaller(MaxReply, answer.ceiling))
    <3>1. ~ Chosen.ok /\ answer.ceiling \in Ceilings
      BY <1>5, <2>5 DEF Made
    <3>2. body.is # "bytes"
      BY <2>4 DEF HasRows
    <3> DEFINE json == DeclaresJson(Held.type)
    <3>3. json
      BY <2>5
    <3>4. Chosen = Select(body, json, walk.args, answer.ceiling)
      BY DEF Chosen
    <3> HIDE DEF json, body, from
    <3> QED
      BY <2>4, <2>5, <3>1, <3>2, <3>3, <3>4, RowsSelected DEF from
  <2> HIDE DEF body
  <2> QED
    BY <1>1, <2>2, <2>4, <2>5 DEF RowsWalk, body
<1>6. CASE WalkGoesOn
  <2>1. /\ walk.at = "walking" /\ Chosen.ok
        /\ walk'.at = IF Chosen.next = Absent THEN "done" ELSE "walking"
        /\ walk'.args = [walk.args EXCEPT !.offset = IF Chosen.next = Absent THEN walk.args.offset
                                                     ELSE Chosen.next]
        /\ walk'.shown = Append(walk.shown, Chosen)
    BY <1>6 DEF WalkGoesOn
  <2> DEFINE offset == IF Chosen.next = Absent THEN walk.args.offset ELSE Chosen.next
  <2>2. walk # NoWalk
    BY <1>4, <2>1
  <2>3. walk'.args = [walk.args EXCEPT !.offset = walk'.args.offset] /\ walk'.args.offset = offset
    <3>1. PICK first \in Selections : walk.args = [first EXCEPT !.offset = walk.args.offset]
      BY <2>2 DEF WalkShape
    <3>2. first \in Arguments /\ walk'.args = [walk.args EXCEPT !.offset = offset]
      BY <2>1, RetainedResultsAssumption
    <3> HIDE DEF from, offset
    <3> QED
      BY <3>1, <3>2 DEF Arguments
  <2>4. /\ walk.args.mode = "json" /\ HasRows(body, walk.args)
        /\ rows \in Seq(Range(rows)) /\ ValueCost(body) \in Nat
        /\ from \in 0 .. Len(rows) /\ walk.args \in Arguments
        /\ Flattened(walk.shown) = [i \in 1 .. from |-> Project(rows[i], walk.args.fields)]
        /\ walk'.args.fields = walk.args.fields /\ RowsAt(body, walk'.args) = rows
    BY <1>4, <2>1, <2>3
  <2>5. ValidArguments(walk.args) /\ answer.ceiling \in Ceilings
    BY <2>1, InvalidRefused DEF Chosen, Made
  <2>6. PICK to \in from .. Len(rows) :
           /\ Chosen.data = [i \in 1 .. (to - from) |-> Project(rows[from + i], walk.args.fields)]
           /\ Chosen.next = IF to < Len(rows) THEN to ELSE Absent
    <3> DEFINE json == DeclaresJson(Held.type)
    <3>1. Chosen = Select(body, json, walk.args, answer.ceiling)
      BY DEF Chosen
    <3>2. body.is # "bytes"
      BY <2>4 DEF HasRows
    <3> DEFINE chosen == Select(body, json, walk.args, answer.ceiling)
    <3> HIDE DEF json, body
    <3>3. chosen.ok =>
            \E to \in from .. Len(rows) :
              /\ chosen.data = [i \in 1 .. (to - from) |-> Project(rows[from + i], walk.args.fields)]
              /\ chosen.next = IF to < Len(rows) THEN to ELSE Absent
      BY <2>4, <2>5, <3>2, RowsSelected
    <3>4. Chosen = chosen
      BY <3>1
    <3> HIDE DEF chosen, from, rows
    <3> QED
      BY <2>1, <3>3, <3>4, Zenon
  <2>7. PICK S : walk.shown \in Seq(S)
    BY <2>2 DEF WalkShape
  <2>8. Flattened(walk'.shown) = IF walk.shown = <<>> THEN Chosen.data ELSE Flattened(walk.shown) \o Chosen.data
    <3>1. ASSUME NEW new
          PROVE  Flattened(Append(walk.shown, new)) =
                   IF walk.shown = <<>> THEN new.data ELSE Flattened(walk.shown) \o new.data
      BY <2>7, FlattenedGrows
    <3> QED
      BY <2>1, <3>1
  <2> DEFINE fields == walk.args.fields
             rowsTo(n) == [i \in 1 .. n |-> Project(rows[i], fields)]
  <2>9. Len(rows) \in Nat /\ from \in Nat /\ to \in Nat /\ Absent \notin Nat
    BY <2>4, RetainedResultsAssumption
  <2>10. Flattened(walk'.shown) = rowsTo(to)
    <3> HIDE DEF rows, from, fields
    <3>0. /\ Flattened(walk.shown) = rowsTo(from)
          /\ Chosen.data = [i \in 1 .. (to - from) |-> Project(rows[from + i], fields)]
      BY <2>4, <2>6 DEF fields
    <3>1. CASE walk.shown = <<>>
      <4>1. rowsTo(from) = <<>>
        BY <3>0, <3>1, NothingFlattened
      <4>2. from = 0
        <5>1. from # 0 => 1 \in DOMAIN rowsTo(from)
          BY <2>9
        <5>2. DOMAIN <<>> = {}
          OBVIOUS
        <5> QED
          BY <4>1, <5>1, <5>2
      <4>3. to - from = to /\ \A i \in 1 .. to : from + i = i
        BY <2>9, <4>2
      <4>4. Chosen.data = rowsTo(to)
        BY <3>0, <4>3
      <4> QED
        BY <2>8, <3>1, <4>4
    <3>2. CASE walk.shown # <<>>
      <4>1. Flattened(walk'.shown) = rowsTo(from) \o Chosen.data
        BY <2>8, <3>0, <3>2
      <4>2. from <= to
        BY <2>6
      <4>3. rowsTo(from) \o [i \in 1 .. (to - from) |-> Project(rows[from + i], fields)] = rowsTo(to)
        <5> DEFINE x == rowsTo(from)
                   y == [i \in 1 .. (to - from) |-> Project(rows[from + i], fields)]
        <5>1. Len(x) = from /\ Len(y) = to - from /\ from + (to - from) = to /\ to - from \in Nat
          BY <2>9, <4>2
        <5>2. x \o y = [i \in 1 .. to |-> IF i <= from THEN x[i] ELSE y[i - from]]
          BY <2>9, <5>1
        <5>3. ASSUME NEW i \in 1 .. to
              PROVE  (IF i <= from THEN x[i] ELSE y[i - from]) = Project(rows[i], fields)
          <6>1. CASE i <= from
            BY <2>9, <6>1
          <6>2. CASE ~ (i <= from)
            <7>1. i - from \in 1 .. (to - from) /\ from + (i - from) = i
              BY <2>9, <6>2
            <7> QED
              BY <6>2, <7>1
          <6> QED
            BY <6>1, <6>2
        <5> QED
          BY <5>2, <5>3
      <4> QED
        BY <3>0, <4>1, <4>3
    <3> QED
      BY <3>1, <3>2
  <2>11. CASE to < Len(rows)
    <3>1. walk'.at = "walking" /\ walk'.args.offset = to /\ to \in 0 .. Len(rows)
      BY <2>1, <2>3, <2>6, <2>9, <2>11
    <3> HIDE DEF body, rows, from
    <3>2. Flattened(walk'.shown) = [i \in 1 .. to |-> Project(rows[i], walk'.args.fields)]
      BY <2>4, <2>10
    <3> QED
      BY <1>1, <2>4, <3>1, <3>2 DEF RowsWalk, body
  <2>12. CASE ~ (to < Len(rows))
    <3>1. to = Len(rows)
      BY <2>6, <2>9, <2>12
    <3>2. walk'.at = "done" /\ walk'.args.offset = from
      BY <2>1, <2>3, <2>6, <2>9, <2>12
    <3> HIDE DEF body, rows
    <3>3. Flattened(walk'.shown) = [i \in 1 .. Len(rows) |-> Project(rows[i], walk'.args.fields)]
      BY <2>4, <2>10, <3>1
    <3> QED
      BY <1>1, <2>4, <3>2, <3>3 DEF RowsWalk, body
  <2> QED
    BY <2>11, <2>12
<1> QED
  BY <1>2, <1>3, <1>5, <1>6, WalkSteps

LEMMA RowsWalkRecovers == Made /\ RowsWalk => RowsRecovered
<1> SUFFICES ASSUME Made, RowsWalk, walk.at # "none", walk.args.mode = "json", retained # Absent,
                    HasRows(Held.body, walk.args)
             PROVE  RowsRecovered
  BY DEF RowsRecovered, Made, HasRows, Pointer
<1>1. retained = Held /\ walk # NoWalk
  BY DEF Made, NoWalk
<1> DEFINE rows == RowsAt(Held.body, walk.args)
           n == IF walk.at = "done" THEN Len(rows) ELSE walk.args.offset
<1>2. Shown = Flattened(walk.shown)
  BY DEF Shown, Flattened
<1>3. /\ walk.args.offset \in 0 .. Len(rows)
      /\ Shown = [i \in 1 .. n |-> Project(rows[i], walk.args.fields)]
  BY <1>1, <1>2 DEF RowsWalk
<1>4. Len(rows) \in Nat
  BY HeldRows
<1>5. n \in Nat
  BY <1>3, <1>4
<1> HIDE DEF n
<1>6. DOMAIN Shown = 1 .. n /\ Len(Shown) = n /\ \A i \in 1 .. n : Shown[i] = Project(rows[i], walk.args.fields)
  BY <1>3, <1>5
<1>7. walk.at = "refused" /\ ValidArguments(walk.args) /\ DeclaresJson(Held.type) =>
         \/ ValueCost(Held.body) > MaxJson
         \/ \E i \in DOMAIN rows :
              \/ ~ Projectable(rows[i], walk.args.fields)
              \/ ~ (ReplyOverhead + 2 * ValueCost(Project(rows[i], walk.args.fields))
                      <= Smaller(MaxReply, answer.ceiling))
  BY <1>1 DEF RowsWalk
<1> HIDE DEF rows
<1>8. /\ walk.at = "walking" => Len(Shown) = walk.args.offset
      /\ walk.at = "done" => Len(Shown) = Len(rows)
  BY <1>6 DEF n
<1> QED
  BY <1>1, <1>6, <1>7, <1>8, Zenon DEF RowsRecovered, rows, RowsAt, Pointer

(* Whatever the rows, the fields and the limits, following next_offset     *)
(* shows every row once, in order (json_selection).                        *)
THEOREM RowsAreRecovered == Spec => []RowsRecovered
  BY MadeInit, MadeKept, ShapeInit, ShapeKept, RowsWalkInit, RowsWalkKept, RowsWalkRecovers, PTL DEF Spec

-----------------------------------------------------------------------------
(* Matches of a search *)

(* In UTF-8, what occurs begins and ends between characters.               *)
LEMMA OccursBetween ==
  ASSUME NEW s \in Seq(STRING), IsUtf8(s), NEW needle \in Seq(STRING), IsUtf8(needle), needle # <<>>,
         NEW i \in Occurrences(s, needle)
  PROVE  IsBoundary(s, i) /\ IsBoundary(s, i + Len(needle))
<1> DEFINE m == Len(needle)
<1>1. /\ m \in Nat /\ m >= 1 /\ Len(s) \in Nat /\ DOMAIN needle = 1 .. m /\ DOMAIN s = 1 .. Len(s)
      /\ i \in 0 .. (Len(s) - m) /\ Slice(s, i, i + m) = needle
  BY DEF Occurrences
<1> HIDE DEF m
<1>a. i \in Nat /\ m \in Nat /\ Len(s) \in Nat /\ i + m <= Len(s)
  BY <1>1
<1>2. \A k \in 1 .. m : needle[k] = s[i + k]
  <2>1. i \in 0 .. Len(s) /\ i + m \in i .. Len(s) /\ (i + m) - i = m
    BY <1>1
  <2>2. \A k \in 1 .. ((i + m) - i) : Slice(s, i, i + m)[k] = s[i + k]
    BY <2>1, SliceOf
  <2> QED
    BY <1>1, <2>1, <2>2
<1>3. needle[1] \notin Continues
  <2>1. 1 \in DOMAIN needle
    BY <1>1
  <2>2. /\ needle[1] = "w2" => 1 > 1
        /\ needle[1] = "w3" => 1 > 1
    BY <2>1 DEF IsUtf8
  <2> QED
    BY <2>2 DEF Continues
<1>4. IsBoundary(s, i)
  <2>1. 1 \in 1 .. m /\ i < Len(s)
    BY <1>1
  <2> QED
    BY <1>2, <1>3, <2>1 DEF IsBoundary
<1>5. needle[m] \notin {"w1", "w2"}
  <2>1. m \in DOMAIN needle /\ ~ (m + 2 <= m)
    BY <1>1
  <2>2. needle[m] # "w1"
    BY <2>1 DEF IsUtf8, m
  <2>3. ASSUME needle[m] = "w2"
        PROVE  FALSE
    <3>1. m > 1 /\ needle[m - 1] = "w1"
      BY <2>1, <2>3 DEF IsUtf8
    <3>2. m - 1 \in DOMAIN needle /\ ~ ((m - 1) + 2 <= m)
      BY <1>1, <3>1
    <3> QED
      BY <3>1, <3>2 DEF IsUtf8, m
  <2> QED
    BY <2>2, <2>3
<1>6. ASSUME i + m < Len(s)
      PROVE  s[(i + m) + 1] \notin Continues
  <2>1. (i + m) + 1 \in DOMAIN s /\ ((i + m) + 1) - 1 = i + m /\ m \in 1 .. m
    BY <1>1, <1>6
  <2>2. s[i + m] = needle[m]
    BY <1>2, <2>1
  <2>3. /\ s[(i + m) + 1] = "w2" => s[((i + m) + 1) - 1] = "w1"
        /\ s[(i + m) + 1] = "w3" => s[((i + m) + 1) - 1] = "w2"
    BY <2>1 DEF IsUtf8
  <2> QED
    BY <1>5, <2>1, <2>2, <2>3 DEF Continues
<1>7. IsBoundary(s, i + m)
  <2>1. i + m = Len(s) \/ i + m < Len(s)
    BY <1>a
  <2> QED
    BY <1>6, <2>1 DEF IsBoundary
<1> QED
  BY <1>4, <1>7 DEF m

Later(s, needle, from) == {i \in Occurrences(s, needle) : i >= from}
FirstLater(s, needle, from) == FirstFrom(Later(s, needle, from), from)

LEMMA FirstLaterIs ==
  ASSUME NEW s \in Seq(STRING), NEW needle \in Seq(STRING), needle # <<>>, NEW from \in 0 .. Len(s),
         Later(s, needle, from) # {}
  PROVE  LET first == FirstLater(s, needle, from)
         IN /\ first \in Occurrences(s, needle) /\ first \in from .. Len(s)
            /\ Len(needle) \in Nat /\ Len(needle) >= 1 /\ first + Len(needle) \in (from + 1) .. Len(s)
<1> DEFINE later == Later(s, needle, from)
<1>1. Len(needle) \in Nat /\ Len(needle) >= 1 /\ Len(s) \in Nat
  OBVIOUS
<1>2. \A i \in later : i \in Occurrences(s, needle) /\ i \in Nat /\ i >= from /\ i + Len(needle) <= Len(s)
  BY <1>1 DEF Later, Occurrences
<1>3. later \in SUBSET Nat
  BY <1>2
<1> HIDE DEF later
<1>4. PICK x \in later : \A y \in later : x <= y
  BY <1>3, LeastNatural DEF later
<1>5. \E i \in later : i >= from /\ \A j \in later : j >= from => i <= j
  BY <1>2, <1>4
<1>6. FirstFrom(later, from) \in later
  BY <1>5, Zenon DEF FirstFrom
<1> DEFINE first == FirstFrom(later, from)
<1>7. first = FirstLater(s, needle, from)
  BY DEF FirstLater, later
<1> HIDE DEF first
<1>8. first \in Occurrences(s, needle) /\ first \in Nat /\ first >= from /\ first + Len(needle) <= Len(s)
  BY <1>2, <1>6 DEF first
<1>9. first \in from .. Len(s) /\ first + Len(needle) \in (from + 1) .. Len(s)
  BY <1>1, <1>8
<1> QED
  BY <1>1, <1>7, <1>8, <1>9

LEMMA NoneAtTheEnd ==
  ASSUME NEW s \in Seq(STRING), NEW needle \in Seq(STRING), needle # <<>>
  PROVE  Later(s, needle, Len(s)) = {}
<1>1. Len(needle) \in Nat /\ Len(needle) >= 1 /\ Len(s) \in Nat
  OBVIOUS
<1> QED
  BY <1>1 DEF Later, Occurrences

(* The matches from an offset on, each after the end of the one before.    *)
Chain(s, needle, low, f) ==
  [from \in low .. Len(s) |->
     IF Later(s, needle, from) = {} THEN <<>>
     ELSE <<FirstLater(s, needle, from)>> \o f[FirstLater(s, needle, from) + Len(needle)]]

LEMMA ChainExists ==
  ASSUME NEW s \in Seq(STRING), NEW needle \in Seq(STRING), needle # <<>>
  PROVE  \E f : f = Chain(s, needle, 0, f)
<1> DEFINE n == Len(s)
           Bad == {k \in Nat : k <= n + 1 /\ ~ \E f : f = Chain(s, needle, (n + 1) - k, f)}
<1>0. n \in Nat
  OBVIOUS
<1>1. ASSUME Bad # {}
      PROVE  FALSE
  <2>1. PICK k \in Bad : \A l \in Bad : k <= l
    BY <1>1, LeastNatural
  <2> DEFINE low == (n + 1) - k
  <2>2. k \in Nat /\ k <= n + 1 /\ ~ \E f : f = Chain(s, needle, low, f)
    BY <2>1
  <2>3. k # 0
    <3>1. ASSUME k = 0
          PROVE  [i \in {} |-> s] = Chain(s, needle, low, [i \in {} |-> s])
      <4>1. low .. Len(s) = {}
        BY <1>0, <3>1
      <4> QED
        BY <4>1 DEF Chain
    <3> QED
      BY <2>2, <3>1
  <2>4. k - 1 \in Nat /\ k - 1 <= n + 1 /\ ~ (k <= k - 1) /\ (n + 1) - (k - 1) = low + 1
    BY <1>0, <2>2, <2>3
  <2>5. k - 1 \notin Bad
    BY <2>1, <2>4
  <2>6. PICK f : f = Chain(s, needle, low + 1, f)
    <3>1. \E f : f = Chain(s, needle, (n + 1) - (k - 1), f)
      BY <2>4, <2>5, Zenon
    <3> QED
      BY <2>4, <3>1
  <2>7. low \in Nat /\ low <= n
    BY <1>0, <2>2, <2>3
  <2> HIDE DEF low, Bad
  <2> DEFINE value(from) == IF Later(s, needle, from) = {} THEN <<>>
                            ELSE <<FirstLater(s, needle, from)>> \o f[FirstLater(s, needle, from) + Len(needle)]
             g == [from \in low .. n |-> IF from = low THEN value(from) ELSE f[from]]
  <2>8. ASSUME NEW from \in low .. n
        PROVE  g[from] = value(from)
    <3>1. CASE from = low
      BY <3>1
    <3>2. CASE from # low
      <4>1. from \in (low + 1) .. Len(s)
        BY <1>0, <2>7, <3>2
      <4>2. f[from] = value(from)
        BY <2>6, <4>1 DEF Chain
      <4> HIDE DEF value
      <4> QED
        BY <3>2, <4>2
    <3> QED
      BY <3>1, <3>2
  <2>9. ASSUME NEW from \in low .. n, Later(s, needle, from) # {}
        PROVE  g[FirstLater(s, needle, from) + Len(needle)] = f[FirstLater(s, needle, from) + Len(needle)]
    <3> DEFINE to == FirstLater(s, needle, from) + Len(needle)
    <3>1. from \in 0 .. Len(s)
      BY <1>0, <2>7
    <3>2. to \in (from + 1) .. Len(s)
      BY <2>9, <3>1, FirstLaterIs
    <3> HIDE DEF to, value
    <3>3. to \in low .. n /\ to # low
      BY <1>0, <2>7, <3>2
    <3>4. g[to] = f[to]
      BY <3>3
    <3> QED
      BY <3>4 DEF to
  <2>10. ASSUME NEW from \in low .. n
         PROVE  g[from] = Chain(s, needle, low, g)[from]
    <3>1. Chain(s, needle, low, g)[from] =
            IF Later(s, needle, from) = {} THEN <<>>
            ELSE <<FirstLater(s, needle, from)>> \o g[FirstLater(s, needle, from) + Len(needle)]
      BY <2>10, Zenon DEF Chain
    <3> HIDE DEF g
    <3> QED
      BY <2>8, <2>9, <3>1
  <2>11. DOMAIN g = low .. n /\ g = [from \in low .. n |-> g[from]]
    OBVIOUS
  <2>12. Chain(s, needle, low, g) = [from \in low .. n |-> Chain(s, needle, low, g)[from]]
    BY DEF Chain
  <2> HIDE DEF g
  <2>13. g = Chain(s, needle, low, g)
    BY <2>10, <2>11, <2>12
  <2> QED
    BY <2>2, <2>13
<1>2. n + 1 \notin Bad
  BY <1>1
<1>3. n + 1 \in Nat /\ n + 1 <= n + 1 /\ (n + 1) - (n + 1) = 0
  BY <1>0
<1>4. \E f : f = Chain(s, needle, (n + 1) - (n + 1), f)
  BY <1>2, <1>3, Zenon
<1> QED
  BY <1>3, <1>4

MatchesFrom(s, needle) == CHOOSE f : f = Chain(s, needle, 0, f)

LEMMA MatchesChain ==
  ASSUME NEW s \in Seq(STRING), NEW needle \in Seq(STRING), needle # <<>>
  PROVE  LET F == MatchesFrom(s, needle)
         IN /\ Matches(s, needle) = F[0]
            /\ \A from \in 0 .. Len(s) :
                 /\ F[from] \in Seq(Nat)
                 /\ F[from] = IF Later(s, needle, from) = {} THEN <<>>
                              ELSE <<FirstLater(s, needle, from)>>
                                     \o F[FirstLater(s, needle, from) + Len(needle)]
<1> DEFINE F == MatchesFrom(s, needle)
<1>1. F = Chain(s, needle, 0, F)
  BY ChainExists, Zenon DEF MatchesFrom
<1>2. Matches(s, needle) = F[0]
  BY Zenon DEF Matches, MatchesFrom, Chain, Later, FirstLater
<1> HIDE DEF F
<1>3. ASSUME NEW from \in 0 .. Len(s)
      PROVE  F[from] = IF Later(s, needle, from) = {} THEN <<>>
                       ELSE <<FirstLater(s, needle, from)>> \o F[FirstLater(s, needle, from) + Len(needle)]
  <2>1. Chain(s, needle, 0, F)[from] =
          IF Later(s, needle, from) = {} THEN <<>>
          ELSE <<FirstLater(s, needle, from)>> \o F[FirstLater(s, needle, from) + Len(needle)]
    BY Zenon DEF Chain
  <2> QED
    BY <1>1, <2>1
<1> DEFINE Bad == {k \in Nat : k <= Len(s) /\ F[Len(s) - k] \notin Seq(Nat)}
<1>4. ASSUME Bad # {}
      PROVE  FALSE
  <2>1. PICK k \in Bad : \A l \in Bad : k <= l
    BY <1>4, LeastNatural
  <2> DEFINE from == Len(s) - k
             first == FirstLater(s, needle, from)
             to == first + Len(needle)
  <2>2. k \in Nat /\ k <= Len(s) /\ F[from] \notin Seq(Nat) /\ Len(s) \in Nat
    BY <2>1
  <2>3. from \in 0 .. Len(s)
    BY <2>2
  <2>4. Later(s, needle, from) # {} /\ F[from] = <<first>> \o F[to]
    <3>1. F[from] = IF Later(s, needle, from) = {} THEN <<>> ELSE <<first>> \o F[to]
      BY <1>3, <2>3
    <3>2. <<>> \in Seq(Nat)
      OBVIOUS
    <3> HIDE DEF from, first, to
    <3> QED
      BY <2>2, <3>1, <3>2, Zenon
  <2>5. first \in from .. Len(s) /\ to \in (from + 1) .. Len(s)
    BY <2>3, <2>4, FirstLaterIs
  <2> HIDE DEF first, to
  <2>6. Len(s) - to \in Nat /\ Len(s) - to <= Len(s) /\ ~ (k <= Len(s) - to) /\ Len(s) - (Len(s) - to) = to
    BY <2>2, <2>5
  <2>7. Len(s) - to \notin Bad
    BY <2>1, <2>6
  <2>8. F[to] \in Seq(Nat)
    BY <2>6, <2>7
  <2>9. first \in Nat
    BY <2>2, <2>5
  <2>10. F[from] \in Seq(Nat)
    BY <2>4, <2>8, <2>9
  <2> QED
    BY <2>2, <2>10
<1>5. ASSUME NEW from \in 0 .. Len(s)
      PROVE  F[from] \in Seq(Nat)
  <2>1. Len(s) - from \in Nat /\ Len(s) - from <= Len(s) /\ Len(s) - (Len(s) - from) = from
    OBVIOUS
  <2>2. Len(s) - from \notin Bad
    BY <1>4
  <2> QED
    BY <2>1, <2>2
<1> QED
  BY <1>2, <1>3, <1>5 DEF F

-----------------------------------------------------------------------------
(* The lines around a match *)

LEMMA LineStartIn ==
  ASSUME NEW s \in Seq(STRING), NEW offset \in Nat
  PROVE  LineStart(s, offset) \in 0 .. offset
<1> DEFINE before == {i \in Newlines(s) : i < offset}
<1>1. LineStart(s, offset) = IF before = {} THEN 0 ELSE 1 + CHOOSE i \in before : \A j \in before : j <= i
  BY DEF LineStart
<1>2. before \in SUBSET (0 .. offset) /\ \A i \in before : i \in Nat /\ i < offset
  BY DEF Newlines
<1> HIDE DEF before
<1>3. CASE before = {}
  BY <1>1, <1>3
<1>4. CASE before # {}
  <2>1. \E i \in before : \A j \in before : j <= i
    BY <1>2, <1>4, GreatestUpTo
  <2>2. (CHOOSE i \in before : \A j \in before : j <= i) \in before
    BY <2>1, Zenon
  <2> DEFINE last == CHOOSE i \in before : \A j \in before : j <= i
  <2> HIDE DEF last
  <2>3. last \in Nat /\ last < offset
    BY <1>2, <2>2 DEF last
  <2>4. LineStart(s, offset) = 1 + last
    BY <1>1, <1>4 DEF last
  <2> QED
    BY <2>3, <2>4
<1> QED
  BY <1>3, <1>4

LEMMA LineEndIn ==
  ASSUME NEW s \in Seq(STRING), NEW offset \in 0 .. Len(s)
  PROVE  LineEnd(s, offset) \in offset .. Len(s)
<1> DEFINE after == {i \in Newlines(s) : i >= offset}
<1>1. LineEnd(s, offset) = IF after = {} THEN Len(s) ELSE 1 + CHOOSE i \in after : \A j \in after : i <= j
  BY DEF LineEnd
<1>2. after \in SUBSET Nat /\ \A i \in after : i \in Nat /\ i >= offset /\ i <= Len(s) - 1
  BY DEF Newlines
<1> HIDE DEF after
<1>3. CASE after = {}
  BY <1>1, <1>3
<1>4. CASE after # {}
  <2>1. \E i \in after : \A j \in after : i <= j
    BY <1>2, <1>4, LeastNatural
  <2>2. (CHOOSE i \in after : \A j \in after : i <= j) \in after
    BY <2>1, Zenon
  <2> DEFINE next == CHOOSE i \in after : \A j \in after : i <= j
  <2> HIDE DEF next
  <2>3. next \in Nat /\ next >= offset /\ next <= Len(s) - 1
    BY <1>2, <2>2 DEF next
  <2>4. LineEnd(s, offset) = 1 + next
    BY <1>1, <1>4 DEF next
  <2> QED
    BY <2>3, <2>4
<1> QED
  BY <1>3, <1>4

(* A function applied again and again stays where it maps.                 *)
Again(a, G, n, f) == [k \in 0 .. n |-> IF k = 0 THEN a ELSE G[f[k - 1]]]

Repeats(S, a, G, n) == \E f \in [0 .. n -> S] : f = Again(a, G, n, f)

LEMMA AgainExists ==
  ASSUME NEW S, NEW a \in S, NEW G \in [S -> S], NEW n \in Nat PROVE Repeats(S, a, G, n)
<1> DEFINE Bad == {k \in Nat : ~ \E f \in [0 .. k -> S] : f = Again(a, G, k, f)}
<1>1. ASSUME Bad # {}
      PROVE  FALSE
  <2>1. PICK k \in Bad : \A l \in Bad : k <= l
    BY <1>1, LeastNatural
  <2>2. k \in Nat /\ ~ \E f \in [0 .. k -> S] : f = Again(a, G, k, f)
    BY <2>1
  <2>3. k # 0
    <3> DEFINE f == [i \in 0 .. 0 |-> a]
    <3>1. f \in [0 .. 0 -> S]
      OBVIOUS
    <3>2. \A i \in 0 .. 0 : i = 0
      OBVIOUS
    <3>3. f = Again(a, G, 0, f)
      BY <3>2 DEF Again
    <3> HIDE DEF f
    <3> QED
      BY <2>2, <3>1, <3>3
  <2>4. k - 1 \in Nat /\ ~ (k <= k - 1)
    BY <2>2, <2>3
  <2>5. k - 1 \notin Bad
    BY <2>1, <2>4
  <2>6. PICK f \in [0 .. (k - 1) -> S] : f = Again(a, G, k - 1, f)
    BY <2>4, <2>5, Zenon
  <2> DEFINE g == [i \in 0 .. k |-> IF i = k THEN G[f[k - 1]] ELSE f[i]]
  <2>7. g \in [0 .. k -> S]
    <3>1. f[k - 1] \in S
      BY <2>4
    <3>2. G[f[k - 1]] \in S
      BY <3>1
    <3>3. \A i \in 0 .. k : i # k => i \in 0 .. (k - 1)
      BY <2>2
    <3>4. \A i \in 0 .. k : g[i] \in S
      BY <3>2, <3>3
    <3> QED
      BY <3>4
  <2>8. ASSUME NEW i \in 0 .. k
        PROVE  g[i] = IF i = 0 THEN a ELSE G[g[i - 1]]
    <3>1. CASE i = k
      <4>1. k - 1 \in 0 .. k /\ k - 1 # k /\ k \in 0 .. k
        BY <2>4
      <4>2. g[k - 1] = f[k - 1] /\ g[k] = G[f[k - 1]]
        BY <4>1
      <4> HIDE DEF g
      <4> QED
        BY <2>3, <3>1, <4>2
    <3>2. CASE i # k
      <4>1. i \in 0 .. (k - 1) /\ (i # 0 => i - 1 \in 0 .. k /\ i - 1 # k)
        BY <2>2, <3>2
      <4>2. f[i] = IF i = 0 THEN a ELSE G[f[i - 1]]
        BY <2>6, <4>1 DEF Again
      <4>3. g[i] = f[i] /\ (i # 0 => g[i - 1] = f[i - 1])
        BY <3>2, <4>1
      <4> HIDE DEF g
      <4> QED
        BY <4>2, <4>3
    <3> QED
      BY <3>1, <3>2
  <2>9. g = Again(a, G, k, g)
    <3>1. DOMAIN g = 0 .. k /\ g = [i \in 0 .. k |-> g[i]]
      OBVIOUS
    <3> HIDE DEF g
    <3> QED
      BY <2>8, <3>1 DEF Again
  <2> HIDE DEF g
  <2> QED
    BY <2>2, <2>7, <2>9
<1> QED
  BY <1>1 DEF Repeats

LEMMA ContextStartIn ==
  ASSUME NEW s \in Seq(STRING), NEW found \in Nat, NEW lines \in Nat
  PROVE  ContextStart(s, found, lines) \in 0 .. found
<1> DEFINE S == 0 .. found
           Up(f) == [n \in 0 .. lines |-> IF n = 0 THEN LineStart(s, found)
                                          ELSE IF f[n - 1] = 0 THEN 0 ELSE LineStart(s, f[n - 1] - 1)]
           c == CHOOSE f : f = Up(f)
           G == [x \in S |-> IF x = 0 THEN 0 ELSE LineStart(s, x - 1)]
<1>1. ContextStart(s, found, lines) = c[lines]
  BY Zenon DEF ContextStart
<1>2. LineStart(s, found) \in S
  BY LineStartIn
<1>3. ASSUME NEW x \in S
      PROVE  (IF x = 0 THEN 0 ELSE LineStart(s, x - 1)) \in S
  <2>1. x # 0 => x - 1 \in Nat /\ \A y \in 0 .. (x - 1) : y \in S
    OBVIOUS
  <2>2. x # 0 => LineStart(s, x - 1) \in 0 .. (x - 1)
    BY <2>1, LineStartIn
  <2>3. 0 \in S
    OBVIOUS
  <2> HIDE DEF S
  <2> QED
    BY <2>1, <2>2, <2>3
<1>4. G \in [S -> S]
  BY <1>3
<1>5. \E f : f = Up(f)
  <2> HIDE DEF G, S
  <2>1. PICK f \in [0 .. lines -> S] : f = Again(LineStart(s, found), G, lines, f)
    <3>1. lines \in Nat
      OBVIOUS
    <3>2. Repeats(S, LineStart(s, found), G, lines)
      BY <1>2, <1>4, <3>1, AgainExists
    <3> QED
      BY <3>2 DEF Repeats
  <2>2. ASSUME NEW n \in 0 .. lines
        PROVE  Again(LineStart(s, found), G, lines, f)[n] = Up(f)[n]
    <3>1. CASE n = 0
      BY <3>1 DEF Again
    <3>2. CASE n # 0
      <4>1. n - 1 \in 0 .. lines
        BY <3>2
      <4>2. f[n - 1] \in S
        BY <4>1
      <4>3. G[f[n - 1]] = IF f[n - 1] = 0 THEN 0 ELSE LineStart(s, f[n - 1] - 1)
        BY <4>2 DEF G
      <4> QED
        BY <3>2, <4>3 DEF Again
    <3> QED
      BY <3>1, <3>2
  <2>3. Again(LineStart(s, found), G, lines, f) = Up(f)
    <3>1. Again(LineStart(s, found), G, lines, f) =
            [n \in 0 .. lines |-> Again(LineStart(s, found), G, lines, f)[n]]
      BY DEF Again
    <3>2. Up(f) = [n \in 0 .. lines |-> Up(f)[n]]
      OBVIOUS
    <3> HIDE DEF Up
    <3> QED
      BY <2>2, <3>1, <3>2
  <2> QED
    BY <2>1, <2>3
<1>6. c = Up(c)
  BY <1>5, Zenon
<1> HIDE DEF c, G
<1> DEFINE Bad == {n \in Nat : n <= lines /\ c[n] \notin S}
<1>7. ASSUME Bad # {}
      PROVE  FALSE
  <2>1. PICK n \in Bad : \A l \in Bad : n <= l
    BY <1>7, LeastNatural
  <2>2. n \in Nat /\ n \in 0 .. lines /\ c[n] \notin S
    BY <2>1
  <2>3. c[n] = IF n = 0 THEN LineStart(s, found)
               ELSE IF c[n - 1] = 0 THEN 0 ELSE LineStart(s, c[n - 1] - 1)
    BY <1>6, <2>2
  <2>4. n # 0
    BY <1>2, <2>2, <2>3
  <2>5. n - 1 \in Nat /\ n - 1 <= lines /\ ~ (n <= n - 1)
    BY <2>2, <2>4
  <2>6. c[n - 1] \in S
    BY <2>1, <2>5
  <2> HIDE DEF S
  <2> QED
    BY <1>3, <2>2, <2>3, <2>4, <2>6
<1>8. lines \notin Bad
  BY <1>7
<1>9. c[lines] \in S
  <2>1. lines \in Nat /\ lines <= lines
    OBVIOUS
  <2> HIDE DEF S
  <2> QED
    BY <1>8, <2>1
<1> QED
  BY <1>1, <1>9

LEMMA ContextEndIn ==
  ASSUME NEW s \in Seq(STRING), NEW after \in 0 .. Len(s), NEW lines \in Nat
  PROVE  ContextEnd(s, after, lines) \in after .. Len(s)
<1> DEFINE S == after .. Len(s)
           Down(f) == [n \in 0 .. lines |-> IF n = 0 THEN LineEnd(s, after) ELSE LineEnd(s, f[n - 1])]
           c == CHOOSE f : f = Down(f)
           G == [x \in S |-> LineEnd(s, x)]
<1>1. ContextEnd(s, after, lines) = c[lines]
  BY Zenon DEF ContextEnd
<1>2. LineEnd(s, after) \in S
  BY LineEndIn
<1>3. ASSUME NEW x \in S
      PROVE  LineEnd(s, x) \in S
  <2>1. x \in 0 .. Len(s) /\ \A y \in x .. Len(s) : y \in S
    OBVIOUS
  <2> HIDE DEF S
  <2>2. LineEnd(s, x) \in x .. Len(s)
    BY <2>1, LineEndIn
  <2> QED
    BY <2>1, <2>2
<1>4. G \in [S -> S]
  BY <1>3
<1>5. \E f : f = Down(f)
  <2> HIDE DEF G, S
  <2>1. PICK f \in [0 .. lines -> S] : f = Again(LineEnd(s, after), G, lines, f)
    <3>1. lines \in Nat
      OBVIOUS
    <3>2. Repeats(S, LineEnd(s, after), G, lines)
      BY <1>2, <1>4, <3>1, AgainExists
    <3> QED
      BY <3>2 DEF Repeats
  <2>2. ASSUME NEW n \in 0 .. lines
        PROVE  Again(LineEnd(s, after), G, lines, f)[n] = Down(f)[n]
    <3>1. CASE n = 0
      BY <3>1 DEF Again
    <3>2. CASE n # 0
      <4>1. n - 1 \in 0 .. lines
        BY <3>2
      <4>2. f[n - 1] \in S
        BY <4>1
      <4>3. G[f[n - 1]] = LineEnd(s, f[n - 1])
        BY <4>2 DEF G
      <4> QED
        BY <3>2, <4>3 DEF Again
    <3> QED
      BY <3>1, <3>2
  <2>3. Again(LineEnd(s, after), G, lines, f) = Down(f)
    <3>1. Again(LineEnd(s, after), G, lines, f) =
            [n \in 0 .. lines |-> Again(LineEnd(s, after), G, lines, f)[n]]
      BY DEF Again
    <3>2. Down(f) = [n \in 0 .. lines |-> Down(f)[n]]
      OBVIOUS
    <3> HIDE DEF Down
    <3> QED
      BY <2>2, <3>1, <3>2
  <2> QED
    BY <2>1, <2>3
<1>6. c = Down(c)
  BY <1>5, Zenon
<1> HIDE DEF c, G
<1> DEFINE Bad == {n \in Nat : n <= lines /\ c[n] \notin S}
<1>7. ASSUME Bad # {}
      PROVE  FALSE
  <2>1. PICK n \in Bad : \A l \in Bad : n <= l
    BY <1>7, LeastNatural
  <2>2. n \in Nat /\ n \in 0 .. lines /\ c[n] \notin S
    BY <2>1
  <2>3. c[n] = IF n = 0 THEN LineEnd(s, after) ELSE LineEnd(s, c[n - 1])
    BY <1>6, <2>2
  <2>4. n # 0
    BY <1>2, <2>2, <2>3
  <2>5. n - 1 \in Nat /\ n - 1 <= lines /\ ~ (n <= n - 1)
    BY <2>2, <2>4
  <2>6. c[n - 1] \in S
    BY <2>1, <2>5
  <2> HIDE DEF S
  <2> QED
    BY <1>3, <2>2, <2>3, <2>4, <2>6
<1>8. lines \notin Bad
  BY <1>7
<1>9. c[lines] \in S
  <2>1. lines \in Nat /\ lines <= lines
    OBVIOUS
  <2> HIDE DEF S
  <2> QED
    BY <1>8, <2>1
<1> QED
  BY <1>1, <1>9

(* What one reply of a search shows: nothing when nothing is left, or the  *)
(* next match whole, in a window of the limit at most.                     *)
LEMMA MatchShows ==
  ASSUME NEW s \in Seq(STRING), IsUtf8(s), NEW args, args.text \in Seq(STRING), IsUtf8(args.text),
         args.text # <<>>, args.context \in Nat \cup {Absent}, args.offset \in 0 .. Len(s), NEW limit \in Nat
  PROVE  LET selection == Match(s, args, limit)
             later == Later(s, args.text, args.offset)
             found == FirstLater(s, args.text, args.offset)
             after == found + Len(args.text)
         IN /\ later = {} =>
                 selection.ok /\ selection.data = <<>> /\ selection.next = Absent /\ selection.matched = FALSE
            /\ later # {} /\ limit < Len(args.text) => ~ selection.ok
            /\ later # {} /\ ~ (limit < Len(args.text)) =>
                 \E start \in 0 .. found, end \in after .. Len(s) :
                   /\ selection.ok /\ selection.matched = TRUE /\ selection.start = start /\ selection.end = end
                   /\ selection.data = Slice(s, start, end) /\ end <= start + limit
                   /\ selection.next = IF after < Len(s) THEN after ELSE Absent
<1> DEFINE selection == Match(s, args, limit)
           needle == args.text
           m == Len(needle)
           from == args.offset
           later == Later(s, needle, from)
           found == FirstLater(s, needle, from)
           after == found + m
           lines == IF args.context = Absent THEN DefaultContext ELSE args.context
           low == ContextStart(s, found, lines)
           high == ContextEnd(s, after, lines)
           left == Larger(low, Minus(found, (limit - m) \div 2))
           start == BoundaryAfter(s, left)
           end == BoundaryBefore(s, Smaller(high, left + limit))
           nothing == [ok |-> TRUE, data |-> <<>>, start |-> from, end |-> from, next |-> Absent,
                       complete |-> TRUE, truncated |-> FALSE, matched |-> FALSE]
           hit == [ok |-> TRUE, data |-> Slice(s, start, end), start |-> start, end |-> end,
                   next |-> NextSearch(s, after, end), complete |-> NextSearch(s, after, end) = Absent,
                   matched |-> TRUE, truncated |-> left > low \/ high > left + limit]
<1>1. selection = IF later = {} THEN nothing
                  ELSE IF limit < m THEN Refused("smaller than the match") ELSE hit
  BY Zenon DEF Match, Later, FirstLater
<1>2. nothing.ok = TRUE /\ nothing.data = <<>> /\ nothing.next = Absent /\ nothing.matched = FALSE
  OBVIOUS
<1>3. /\ hit.ok = TRUE /\ hit.matched = TRUE /\ hit.start = start /\ hit.end = end
      /\ hit.data = Slice(s, start, end) /\ hit.next = NextSearch(s, after, end)
  OBVIOUS
<1>4. Refused("smaller than the match").ok = FALSE
  BY DEF Refused
<1> HIDE DEF selection, nothing, hit
<1>5. CASE later = {}
  BY <1>1, <1>2, <1>5 DEF selection
<1>6. CASE later # {} /\ limit < m
  BY <1>1, <1>4, <1>6 DEF selection
<1>7. CASE later # {} /\ ~ (limit < m)
  <2>1. /\ found \in Occurrences(s, needle) /\ found \in from .. Len(s)
        /\ m \in Nat /\ m >= 1 /\ after \in (from + 1) .. Len(s)
    BY <1>7, FirstLaterIs
  <2>2. IsBoundary(s, found) /\ IsBoundary(s, after)
    BY <2>1, OccursBetween
  <2>3. lines \in Nat
    BY RetainedResultsAssumption
  <2> HIDE DEF needle, m, from, later, found, lines
  <2>4. found \in Nat /\ m \in Nat /\ after \in Nat /\ found <= Len(s) /\ after <= Len(s) /\ Len(s) \in Nat
        /\ found \in 0 .. Len(s) /\ after \in 0 .. Len(s)
    <3>1. from \in 0 .. Len(s)
      BY DEF from
    <3> QED
      BY <2>1, <3>1
  <2>5. low \in 0 .. found
    BY <2>3, <2>4, ContextStartIn
  <2>6. high \in after .. Len(s)
    <3> HIDE DEF after
    <3> QED
      BY <2>3, <2>4, ContextEndIn
  <2> HIDE DEF low, high
  <2> DEFINE half == (limit - m) \div 2
  <2>7. half \in Nat /\ half <= limit - m
    BY <1>7, <2>1
  <2> HIDE DEF half
  <2>8. left \in 0 .. found /\ left + limit >= after
    <3>1. Minus(found, half) = IF found - half < 0 THEN 0 ELSE found - half
      BY DEF Minus, Larger
    <3>2. Minus(found, half) \in 0 .. found /\ Minus(found, half) >= found - half
      BY <2>4, <2>7, <3>1
    <3>3. left = IF low < Minus(found, half) THEN Minus(found, half) ELSE low
      BY DEF Larger, half
    <3>4. left \in 0 .. found /\ left >= found - half
      BY <2>4, <2>5, <2>7, <3>2, <3>3
    <3> HIDE DEF left
    <3> QED
      BY <1>7, <2>4, <2>7, <3>4
  <2> HIDE DEF left
  <2> DEFINE reach == Smaller(high, left + limit)
  <2>9. reach \in after .. Len(s) /\ reach <= left + limit
    <3>1. reach = IF high < left + limit THEN high ELSE left + limit
      BY DEF Smaller
    <3> QED
      BY <2>4, <2>6, <2>8, <3>1
  <2>10. start \in left .. found
    <3>1. left \in 0 .. Len(s) /\ found \in left .. Len(s)
      BY <2>4, <2>8
    <3>2. start \in left .. Len(s) /\ start <= found
      BY <2>2, <3>1, After
    <3> QED
      BY <2>4, <2>8, <3>2
  <2>11. end \in after .. reach
    <3> HIDE DEF reach
    <3>1. reach \in 0 .. Len(s) /\ after \in 0 .. reach
      BY <2>4, <2>9
    <3> HIDE DEF after
    <3>2. BoundaryBefore(s, reach) \in 0 .. reach /\ after <= BoundaryBefore(s, reach)
      BY <2>2, <3>1, Before
    <3>3. end = BoundaryBefore(s, reach)
      BY DEF reach
    <3> QED
      BY <2>4, <2>9, <3>2, <3>3
  <2> HIDE DEF start, end, reach
  <2>12. start \in 0 .. found /\ end \in after .. Len(s) /\ end <= start + limit
    BY <2>4, <2>8, <2>9, <2>10, <2>11
  <2>13. NextSearch(s, after, end) = IF after < Len(s) THEN after ELSE Absent
    BY DEF NextSearch
  <2>14. selection = hit
    BY <1>1, <1>7 DEF needle, m, from, later, found
  <2> HIDE DEF after
  <2>15. /\ selection.ok = TRUE /\ selection.matched = TRUE /\ selection.start = start /\ selection.end = end
         /\ selection.data = Slice(s, start, end) /\ end <= start + limit
         /\ selection.next = IF after < Len(s) THEN after ELSE Absent
    BY <1>3, <2>12, <2>13, <2>14
  <2>16. \E a \in 0 .. found, b \in after .. Len(s) :
           /\ selection.ok /\ selection.matched = TRUE /\ selection.start = a /\ selection.end = b
           /\ selection.data = Slice(s, a, b) /\ b <= a + limit
           /\ selection.next = IF after < Len(s) THEN after ELSE Absent
    BY <2>12, <2>15
  <2> QED
    BY <1>7, <2>16 DEF selection, needle, m, from, later, found, after
<1> QED
  BY <1>5, <1>6, <1>7

(* One reply of a search, after the halving: what MatchShows says, or the  *)
(* caller's limit is below the text searched for.                          *)
LEMMA SearchSelected ==
  ASSUME NEW s \in Seq(STRING), NEW body, body = [is |-> "bytes", bytes |-> s], NEW json,
         NEW args \in Arguments, ValidArguments(args), args.mode = "search", IsUtf8(args.text),
         args.offset \in 0 .. Len(s), NEW c \in Ceilings
  PROVE  LET selection == Select(body, json, args, c)
             later == Later(s, args.text, args.offset)
             found == FirstLater(s, args.text, args.offset)
             after == found + Len(args.text)
         IN /\ selection.ok =>
                 /\ IsUtf8(s)
                 /\ later = {} => selection.next = Absent /\ selection.matched = FALSE
                 /\ later # {} =>
                      \E start \in 0 .. found, end \in after .. Len(s) :
                        /\ selection.matched = TRUE /\ selection.start = start /\ selection.end = end
                        /\ selection.data = Slice(s, start, end)
                        /\ selection.next = IF after < Len(s) THEN after ELSE Absent
            /\ ~ selection.ok /\ IsUtf8(s) /\ IsBoundary(s, args.offset) =>
                 args.limit # Absent /\ args.limit < Len(args.text)
<1> DEFINE selection == Select(body, json, args, c)
           needle == args.text
           m == Len(needle)
           from == args.offset
           later == Later(s, needle, from)
           found == FirstLater(s, needle, from)
           after == found + m
           w == Widest(body, args)
           bound == Smaller(MaxReply, c)
<1>1. Length(body) = Len(s) /\ Len(s) \in Nat /\ from \in 0 .. Len(s)
  BY DEF Length
<1>2. /\ args.text # Absent /\ needle \in Seq(STRING) /\ m \in Nat /\ m >= 1 /\ m <= MaxNeedle
      /\ needle # <<>> /\ args.context \in Nat \cup {Absent}
  <2>1. args.text # Absent /\ m \in 1 .. MaxNeedle
    BY DEF ValidArguments
  <2>2. needle \in Seq(STRING) /\ args.context \in Nat \cup {Absent}
    BY <2>1 DEF Arguments
  <2>3. MaxNeedle \in Nat
    BY RetainedResultsAssumption
  <2> QED
    BY <2>1, <2>2, <2>3
<1>3. /\ Asked(args) \in Nat
      /\ args.limit = Absent => Asked(args) >= MaxNeedle
      /\ args.limit # Absent => Asked(args) = args.limit
      /\ w \in Nat /\ w >= 1
      /\ w = Asked(args) \/ Len(s) <= w
  BY <1>1, WidestIsLimit
<1>4. \A limit : At(body, args, limit) =
        IF ~ IsUtf8(s) THEN Refused("not text")
        ELSE IF ~ IsBoundary(s, from) THEN Refused("not a boundary") ELSE Match(s, args, limit)
  BY <1>2 DEF At, TextSelection
<1>5. PICK limit \in 1 .. w :
         /\ limit = w \/ \E wider \in 1 .. w : Exceeds(body, args, c, wider) /\ wider > 1 /\ limit = wider \div 2
         /\ \/ ~ Exceeds(body, args, c, limit) /\ selection = At(body, args, limit)
            \/ limit = 1 /\ Exceeds(body, args, c, limit) /\ selection = Refused("exceeds the reply")
  BY <1>3, SelectHalves
<1>6. \A why : Refused(why).ok = FALSE
  BY DEF Refused
<1>7. ASSUME IsUtf8(s), NEW l \in Nat
      PROVE  LET shown == Match(s, args, l)
             IN /\ later = {} => shown.ok /\ shown.data = <<>> /\ shown.next = Absent /\ shown.matched = FALSE
                /\ later # {} /\ l < m => ~ shown.ok
                /\ later # {} /\ ~ (l < m) =>
                     \E start \in 0 .. found, end \in after .. Len(s) :
                       /\ shown.ok /\ shown.matched = TRUE /\ shown.start = start /\ shown.end = end
                       /\ shown.data = Slice(s, start, end) /\ end <= start + l
                       /\ shown.next = IF after < Len(s) THEN after ELSE Absent
  BY <1>1, <1>2, <1>7, MatchShows
<1>8. later # {} => m <= Len(s) /\ found \in Nat /\ after \in Nat /\ found <= after
  <2>1. ASSUME later # {}
        PROVE  found \in from .. Len(s) /\ after \in (from + 1) .. Len(s)
    BY <1>1, <1>2, <2>1, FirstLaterIs
  <2>2. found \in from .. Len(s) /\ found + m \in (from + 1) .. Len(s) =>
          m <= Len(s) /\ found \in Nat /\ found + m \in Nat /\ found <= found + m
    <3> HIDE DEF found, m, from
    <3> QED
      BY <1>1, <1>2
  <2> QED
    BY <2>1, <2>2
<1> HIDE DEF selection, w, from, later, found, after, m, needle
<1>9. limit \in Nat
  BY <1>3
<1>10. CASE selection.ok
  <2>1. selection = At(body, args, limit)
    BY <1>5, <1>6, <1>10
  <2>2. IsUtf8(s) /\ selection = Match(s, args, limit)
    BY <1>4, <1>6, <1>10, <2>1
  <2>3. later = {} => selection.next = Absent /\ selection.matched = FALSE
    BY <1>7, <1>9, <2>2
  <2>4. ASSUME later # {}
        PROVE  \E start \in 0 .. found, end \in after .. Len(s) :
                 /\ selection.matched = TRUE /\ selection.start = start /\ selection.end = end
                 /\ selection.data = Slice(s, start, end)
                 /\ selection.next = IF after < Len(s) THEN after ELSE Absent
    <3>1. ~ (limit < m)
      BY <1>7, <1>9, <1>10, <2>2, <2>4
    <3> QED
      BY <1>7, <1>9, <2>2, <2>4, <3>1
  <2> QED
    BY <1>10, <2>2, <2>3, <2>4, Zenon DEF selection, later, from, needle, found, after, m
<1>11. CASE ~ selection.ok /\ IsUtf8(s) /\ IsBoundary(s, from)
  <2>1. \A l : At(body, args, l) = Match(s, args, l)
    BY <1>4, <1>11
  <2>2. /\ bound \in Nat /\ ReplyOverhead \in Nat /\ MaxNeedle \in Nat /\ MaxNeedle >= 1
        /\ ReplyOverhead + 16 <= bound /\ ReplyOverhead + (8 * MaxNeedle - 4) <= bound
    <3>1. /\ bound \in Nat /\ ReplyOverhead \in Nat /\ MaxNeedle \in Nat
          /\ bound - ReplyOverhead >= Larger(16, 8 * MaxNeedle - 4)
      BY RetainedResultsAssumption DEF Smaller
    <3>2. /\ Larger(16, 8 * MaxNeedle - 4) >= 16 /\ Larger(16, 8 * MaxNeedle - 4) \in Int
          /\ Larger(16, 8 * MaxNeedle - 4) >= 8 * MaxNeedle - 4
      BY <3>1 DEF Larger
    <3> HIDE DEF bound
    <3> QED
      BY <1>2, <3>1, <3>2
  <2> HIDE DEF bound
  (* what exceeds the reply is more than a few bytes *)
  <2>3. ASSUME NEW l \in 1 .. w, Exceeds(body, args, c, l)
        PROVE  \E cost \in Nat : cost <= 2 * l /\ ~ (ReplyOverhead + 2 * cost <= bound)
    <3> DEFINE shown == Match(s, args, l)
               cost == TextCost(shown.data)
    <3>1. l \in Nat /\ shown.ok
      BY <1>3, <2>1, <2>3 DEF Exceeds
    <3>2. cost \in Nat /\ cost <= 2 * l
      <4>1. CASE later = {}
        <5>1. shown.data = <<>>
          BY <1>7, <1>11, <3>1, <4>1
        <5>2. 0 \in 0 .. Len(s) /\ 0 \in 0 .. Len(s) /\ 0 - 0 = 0
          BY <1>1
        <5>3. Slice(s, 0, 0) = <<>> /\ TextCost(Slice(s, 0, 0)) \in Nat /\ TextCost(Slice(s, 0, 0)) <= 2 * (0 - 0)
          BY <5>2, SliceOf, SliceCost
        <5> QED
          BY <3>1, <5>1, <5>3
      <4>2. CASE later # {}
        <5>1. ~ (l < m)
          BY <1>7, <1>11, <3>1, <4>2
        <5>2. PICK start \in 0 .. found, end \in after .. Len(s) :
                shown.data = Slice(s, start, end) /\ end <= start + l
          BY <1>7, <1>11, <3>1, <4>2, <5>1
        <5>3. start \in 0 .. Len(s) /\ end \in start .. Len(s) /\ end - start <= l
          BY <1>1, <1>8, <3>1, <4>2, <5>2
        <5>4. TextCost(Slice(s, start, end)) \in Nat /\ TextCost(Slice(s, start, end)) <= 2 * (end - start)
          BY <5>3, SliceCost
        <5> HIDE DEF shown
        <5> QED
          BY <1>1, <3>1, <5>2, <5>3, <5>4
      <4> QED
        BY <4>1, <4>2
    <3>3. ReplySize(At(body, args, l), args.mode # "json") = ReplyOverhead + 2 * cost
      <4>1. args.mode # "json"
        OBVIOUS
      <4> QED
        BY <2>1, <4>1 DEF ReplySize
    <3> HIDE DEF cost
    <3>4. ~ (ReplyOverhead + 2 * cost <= bound)
      BY <2>3, <3>3, Zenon DEF Exceeds, bound
    <3> QED
      BY <3>2, <3>4
  <2>4. ~ (limit = 1 /\ Exceeds(body, args, c, limit))
    <3>1. ASSUME limit = 1, Exceeds(body, args, c, limit)
          PROVE  FALSE
      <4>1. PICK cost \in Nat : cost <= 2 * limit /\ ~ (ReplyOverhead + 2 * cost <= bound)
        BY <2>3, <3>1
      <4> QED
        BY <2>2, <3>1, <4>1
    <3> QED
      BY <3>1
  <2>5. ~ Match(s, args, limit).ok
    BY <1>5, <1>11, <2>1, <2>4
  <2>6. later # {} /\ limit < m
    BY <1>7, <1>9, <1>11, <2>5
  <2>7. limit = w
    <3>1. ASSUME NEW wider \in 1 .. w, Exceeds(body, args, c, wider), wider > 1, limit = wider \div 2
          PROVE  FALSE
      <4>1. PICK cost \in Nat : cost <= 2 * wider /\ ~ (ReplyOverhead + 2 * cost <= bound)
        BY <2>3, <3>1
      <4>2. wider \in Nat
        BY <1>3
      <4>3. wider >= 2 * MaxNeedle
        BY <2>2, <4>1, <4>2
      <4>4. limit >= MaxNeedle
        BY <2>2, <3>1, <4>2, <4>3
      <4> QED
        BY <1>2, <1>9, <2>2, <2>6, <4>4
    <3> QED
      BY <1>5, <3>1
  <2>8. w = Asked(args)
    BY <1>1, <1>2, <1>3, <1>8, <2>6, <2>7
  <2>9. args.limit # Absent /\ args.limit < m
    BY <1>2, <1>3, <2>2, <2>6, <2>7, <2>8
  <2> QED
    BY <1>11, <2>9 DEF selection, from, m, needle
<1> QED
  BY <1>10, <1>11 DEF selection, from

-----------------------------------------------------------------------------
(* Walks of a search *)

Ceased(shown) == shown # <<>> /\ ~ Last(shown).matched
Hits(shown) == IF Ceased(shown) THEN Front(shown) ELSE shown

ShowsMatch(r, s, found, length) ==
  r.matched /\ r.start <= found /\ found + length <= r.end /\ r.data = Slice(s, r.start, r.end)

Grows(shown, new) ==
  /\ new.matched = TRUE => ~ Ceased(Append(shown, new)) /\ Hits(Append(shown, new)) = Append(shown, new)
  /\ new.matched = FALSE => Ceased(Append(shown, new)) /\ Hits(Append(shown, new)) = shown
  /\ DOMAIN shown = 1 .. Len(shown) /\ Len(shown) \in Nat
  /\ Len(Append(shown, new)) = Len(shown) + 1 /\ Append(shown, new)[Len(shown) + 1] = new
  /\ \A i \in 1 .. Len(shown) : Append(shown, new)[i] = shown[i]
  /\ DOMAIN Append(shown, new) = 1 .. (Len(shown) + 1)

LEMMA HitsGrow ==
  ASSUME NEW S, NEW shown \in Seq(S), NEW new PROVE Grows(shown, new)
<1> DEFINE n == Len(shown)
           grown == Append(shown, new)
<1>1. /\ n \in Nat /\ DOMAIN shown = 1 .. n /\ grown \in Seq(S \cup {new})
      /\ Len(grown) = n + 1 /\ DOMAIN grown = 1 .. (n + 1) /\ grown[n + 1] = new
      /\ \A i \in 1 .. n : grown[i] = shown[i]
  OBVIOUS
<1>2. Last(grown) = new /\ grown # <<>>
  BY <1>1 DEF Last
<1>3. Front(grown) = shown
  <2>1. Front(grown) = SubSeq(grown, 1, n)
    <3>1. Len(grown) - 1 = n
      BY <1>1
    <3> QED
      BY <3>1 DEF Front
  <2> QED
    BY <1>1, <2>1
<1>4. /\ new.matched = TRUE => ~ Ceased(grown)
      /\ new.matched = FALSE => Ceased(grown)
  <2> HIDE DEF grown
  <2>1. Last(grown).matched = new.matched
    BY <1>2
  <2> QED
    BY <1>2, <2>1, Zenon DEF Ceased
<1> HIDE DEF grown
<1>5. Hits(grown) = IF Ceased(grown) THEN shown ELSE grown
  BY <1>3 DEF Hits
<1> QED
  BY <1>1, <1>4, <1>5 DEF grown, Grows

(* What the replies of a search showed are the matches up to the offset.   *)
SearchWalk ==
  walk # NoWalk /\ walk.args.mode = "search" /\ ValidArguments(walk.args) =>
    LET s == Held.body.bytes
        needle == walk.args.text
        from == walk.args.offset
        hits == Hits(walk.shown)
    IN /\ from \in 0 .. Len(s)
       /\ IsUtf8(s) => IsBoundary(s, from)
       /\ Ceased(walk.shown) => walk.at = "done"
       /\ \E seen \in Seq(Nat) :
            /\ MatchesFrom(s, needle)[0] =
                 IF walk.at = "done" THEN seen ELSE seen \o MatchesFrom(s, needle)[from]
            /\ Len(seen) = Len(hits)
            /\ \A i \in DOMAIN hits : ShowsMatch(hits[i], s, seen[i], Len(needle))
       /\ walk.at = "refused" /\ IsUtf8(s) => walk.args.limit # Absent /\ walk.args.limit < Len(needle)

LEMMA SearchWalkInit == Init => SearchWalk
  BY DEF Init, SearchWalk

LEMMA ArgumentsKept ==
  ASSUME NEW args \in Arguments, NEW next, NEW offset, next = [args EXCEPT !.offset = offset]
  PROVE  /\ next.mode = args.mode /\ next.text = args.text /\ next.limit = args.limit
         /\ next.offset = offset /\ (ValidArguments(next) <=> ValidArguments(args))
<1>1. /\ next.mode = args.mode /\ next.text = args.text /\ next.limit = args.limit
      /\ next.context = args.context /\ next.pointer = args.pointer /\ next.fields = args.fields
      /\ next.offset = offset
  BY DEF Arguments
<1>2. ValidArguments(next) <=> ValidArguments(args)
  BY <1>1, Zenon DEF ValidArguments
<1> QED
  BY <1>1, <1>2

(* What is held fast while a search walks on.                              *)
LEMMA Searching ==
  ASSUME Made, WalkShape, SearchWalk, walk.at = "walking", walk.args.mode = "search",
         ValidArguments(walk.args)
  PROVE  LET s == Held.body.bytes
             needle == walk.args.text
             from == walk.args.offset
         IN /\ walk # NoWalk /\ s \in Seq(STRING) /\ Held.body = [is |-> "bytes", bytes |-> s]
            /\ walk.args \in Arguments /\ needle \in Seq(STRING) /\ needle # <<>> /\ IsUtf8(needle)
            /\ from \in 0 .. Len(s) /\ (IsUtf8(s) => IsBoundary(s, from))
            /\ ~ Ceased(walk.shown) /\ Hits(walk.shown) = walk.shown
            /\ \E seen \in Seq(Nat) :
                 /\ MatchesFrom(s, needle)[0] = seen \o MatchesFrom(s, needle)[from]
                 /\ Len(seen) = Len(walk.shown)
                 /\ \A i \in DOMAIN walk.shown : ShowsMatch(walk.shown[i], s, seen[i], Len(needle))
<1> DEFINE s == Held.body.bytes
           needle == walk.args.text
           from == walk.args.offset
<1>1. walk # NoWalk
  BY DEF NoWalk
<1>2. s \in Seq(STRING) /\ Held.body = [is |-> "bytes", bytes |-> s]
  BY <1>1, HeldBody DEF WalkShape
<1>3. /\ from \in 0 .. Len(s) /\ (IsUtf8(s) => IsBoundary(s, from)) /\ ~ Ceased(walk.shown)
      /\ \E seen \in Seq(Nat) :
           /\ MatchesFrom(s, needle)[0] = seen \o MatchesFrom(s, needle)[from]
           /\ Len(seen) = Len(Hits(walk.shown))
           /\ \A i \in DOMAIN Hits(walk.shown) : ShowsMatch(Hits(walk.shown)[i], s, seen[i], Len(needle))
  BY <1>1 DEF SearchWalk
<1>4. from \in Nat
  BY <1>2, <1>3
<1>5. walk.args \in Arguments /\ (walk.args.text # Absent => IsUtf8(walk.args.text))
  BY <1>1, <1>4, ShapeArguments
<1>6. needle # Absent /\ Len(needle) \in 1 .. MaxNeedle
  BY DEF ValidArguments
<1>7. needle \in Seq(STRING) /\ needle # <<>> /\ IsUtf8(needle)
  <2>1. needle \in Seq(STRING)
    BY <1>5, <1>6 DEF Arguments
  <2>2. Len(needle) # 0
    BY <1>6
  <2> QED
    BY <1>5, <1>6, <2>1, <2>2
<1>8. Hits(walk.shown) = walk.shown
  BY <1>3, Zenon DEF Hits
<1> QED
  BY <1>1, <1>2, <1>3, <1>5, <1>7, <1>8

(* One more match, seen before the rest or after those seen. *)
LEMMA AppendThenRest ==
  ASSUME NEW p \in Seq(Nat), NEW q \in Seq(Nat), NEW x \in Nat
  PROVE  p \o (<<x>> \o q) = Append(p, x) \o q
<1>1. <<x>> \o q \in Seq(Nat) /\ Len(<<x>> \o q) = 1 + Len(q)
  OBVIOUS
<1>2. /\ p \o (<<x>> \o q) \in Seq(Nat) /\ Append(p, x) \o q \in Seq(Nat)
      /\ Len(p \o (<<x>> \o q)) = Len(Append(p, x) \o q)
  BY <1>1
<1>3. ASSUME NEW i \in 1 .. Len(Append(p, x) \o q)
      PROVE  (p \o (<<x>> \o q))[i] = (Append(p, x) \o q)[i]
  <2>1. CASE i <= Len(p)
    BY <1>1, <2>1
  <2>2. CASE i > Len(p)
    BY <1>1, <2>2
  <2> QED
    BY <2>1, <2>2
<1> QED
  BY <1>2, <1>3

LEMMA SearchWalkKept == Made /\ WalkShape /\ SearchWalk /\ [Next]_vars => SearchWalk'
<1> SUFFICES ASSUME Made, WalkShape, SearchWalk, [Next]_vars, walk' # NoWalk, walk'.args.mode = "search",
                    ValidArguments(walk'.args)
             PROVE  SearchWalk'
  BY DEF SearchWalk, NoWalk, ValidArguments
<1> DEFINE s == Held.body.bytes
           needle == walk.args.text
           from == walk.args.offset
           F == MatchesFrom(s, needle)
           length == Len(needle)
<1>1. Held' = Held /\ answer' = answer
  BY WalkSteps
<1>2. CASE walk' = walk
  BY <1>1, <1>2 DEF SearchWalk, Hits, Ceased, ValidArguments
<1>3. CASE WalkBegins
  <2>1. PICK args \in Selections :
          /\ Held.body.is # "bytes" => args.mode = "json"
          /\ walk' = [at |-> "walking", args |-> args, shown |-> <<>>]
    BY <1>3 DEF WalkBegins
  <2>2. /\ walk'.at = "walking" /\ walk'.args = args /\ walk'.shown = <<>> /\ args.offset = 0
        /\ args \in Arguments
    BY <2>1, RetainedResultsAssumption
  <2>3. s \in Seq(STRING)
    BY <2>1, <2>2, HeldBody
  <2>4. 0 \in 0 .. Len(s)
    BY <2>3
  <2>5. IsUtf8(s) => IsBoundary(s, 0)
    <3>1. IsUtf8(s) => \E i \in 0 .. 0 : IsBoundary(s, i)
      BY <2>3, <2>4, BoundaryNear
    <3>2. \A i \in 0 .. 0 : i = 0
      OBVIOUS
    <3> QED
      BY <3>1, <3>2
  <2>6. args.text \in Seq(STRING) /\ args.text # <<>>
    <3>1. args.text # Absent /\ Len(args.text) \in 1 .. MaxNeedle
      BY <2>2 DEF ValidArguments
    <3>2. Len(args.text) # 0
      BY <3>1
    <3> QED
      BY <2>2, <3>1, <3>2 DEF Arguments
  <2>7. MatchesFrom(s, args.text)[0] \in Seq(Nat)
    BY <2>3, <2>4, <2>6, MatchesChain
  <2>8. <<>> \in Seq(Nat) /\ MatchesFrom(s, args.text)[0] = <<>> \o MatchesFrom(s, args.text)[0]
    BY <2>7
  <2>9. ~ Ceased(<<>>) /\ Hits(<<>>) = <<>>
    BY DEF Ceased, Hits
  <2>10. Len(<<>>) = Len(Hits(<<>>)) /\ \A i \in DOMAIN Hits(<<>>) : FALSE
    BY <2>9
  <2>11. \E seen \in Seq(Nat) :
           /\ MatchesFrom(s, args.text)[0] = seen \o MatchesFrom(s, args.text)[0]
           /\ Len(seen) = Len(Hits(<<>>))
           /\ \A i \in DOMAIN Hits(<<>>) : ShowsMatch(Hits(<<>>)[i], s, seen[i], Len(args.text))
    BY <2>8, <2>10
  <2> HIDE DEF s
  <2> QED
    BY <1>1, <2>2, <2>4, <2>5, <2>9, <2>11 DEF SearchWalk, s
<1>4. ASSUME walk.at = "walking", NEW offset, walk'.args = [walk.args EXCEPT !.offset = offset]
      PROVE  /\ walk # NoWalk /\ walk.args \in Arguments /\ walk.args.mode = "search"
             /\ ValidArguments(walk.args) /\ walk'.args.text = needle /\ walk'.args.limit = walk.args.limit
             /\ walk'.args.offset = offset
  <2>1. walk # NoWalk
    BY <1>4 DEF NoWalk
  <2>2. PICK first \in Selections : walk.args = [first EXCEPT !.offset = walk.args.offset]
    BY <2>1 DEF WalkShape
  <2>3. first \in Arguments
    BY RetainedResultsAssumption
  <2>4. walk'.args = [first EXCEPT !.offset = offset]
    <3> HIDE DEF from, needle
    <3> QED
      BY <1>4, <2>2, <2>3 DEF Arguments
  <2>5. first.mode = "search" /\ ValidArguments(first)
    BY <2>3, <2>4, ArgumentsKept
  <2>6. walk.args.mode = "search" /\ ValidArguments(walk.args) /\ walk.args.text = first.text
        /\ walk.args.limit = first.limit
    BY <2>2, <2>3, <2>5, ArgumentsKept
  <2>7. walk'.args.text = first.text /\ walk'.args.limit = first.limit /\ walk'.args.offset = offset
    BY <2>3, <2>4, ArgumentsKept
  <2>8. walk.args \in Arguments
    BY <1>4, <2>6, Searching
  <2> QED
    BY <2>1, <2>6, <2>7, <2>8
<1>5. ASSUME NEW at \in {"missing", "refused"}, WalkStops(at), at = "refused" => ~ Chosen.ok
      PROVE  SearchWalk'
  <2>1. walk.at = "walking" /\ walk' = [at |-> at, args |-> walk.args, shown |-> walk.shown]
    BY <1>5 DEF WalkStops, WalkShape, NoWalk
  <2>2. walk'.at = at /\ walk'.args = walk.args /\ walk'.shown = walk.shown /\ at # "done"
    BY <2>1
  <2>3. walk.args.mode = "search" /\ ValidArguments(walk.args)
    BY <2>2
  <2>4. /\ s \in Seq(STRING) /\ Held.body = [is |-> "bytes", bytes |-> s]
        /\ walk.args \in Arguments /\ IsUtf8(needle) /\ from \in 0 .. Len(s)
        /\ (IsUtf8(s) => IsBoundary(s, from)) /\ ~ Ceased(walk.shown) /\ Hits(walk.shown) = walk.shown
    BY <2>1, <2>3, Searching
  <2>5. \E seen \in Seq(Nat) :
          /\ F[0] = seen \o F[from] /\ Len(seen) = Len(walk.shown)
          /\ \A i \in DOMAIN walk.shown : ShowsMatch(walk.shown[i], s, seen[i], length)
    BY <2>1, <2>3, Searching
  <2>6. ASSUME at = "refused", IsUtf8(s)
        PROVE  walk.args.limit # Absent /\ walk.args.limit < length
    <3>1. ~ Chosen.ok /\ answer.ceiling \in Ceilings
      BY <1>5, <2>6 DEF Made
    <3> QED
      BY <2>3, <2>4, <2>6, <3>1, SearchSelected DEF Chosen
  <2> HIDE DEF F, s, needle, from, length
  <2>7. MatchesFrom(s, needle) = F /\ Len(needle) = length
    BY DEF F, length
  <2> QED
    BY <1>1, <2>2, <2>4, <2>5, <2>6, <2>7 DEF SearchWalk, s, needle, from
<1>6. CASE WalkGoesOn
  <2> DEFINE offset == IF Chosen.next = Absent THEN walk.args.offset ELSE Chosen.next
  <2>1. /\ walk.at = "walking" /\ Chosen.ok
        /\ walk'.at = IF Chosen.next = Absent THEN "done" ELSE "walking"
        /\ walk'.args = [walk.args EXCEPT !.offset = offset]
        /\ walk'.shown = Append(walk.shown, Chosen)
    BY <1>6 DEF WalkGoesOn
  <2>2. /\ walk # NoWalk /\ walk.args.mode = "search" /\ ValidArguments(walk.args)
        /\ walk'.args.text = needle /\ walk'.args.offset = offset
    <3> HIDE DEF offset
    <3> QED
      BY <1>4, <2>1
  <2>3. /\ s \in Seq(STRING) /\ Held.body = [is |-> "bytes", bytes |-> s]
        /\ walk.args \in Arguments /\ needle \in Seq(STRING) /\ needle # <<>> /\ IsUtf8(needle)
        /\ from \in 0 .. Len(s) /\ ~ Ceased(walk.shown) /\ Hits(walk.shown) = walk.shown
    BY <2>1, <2>2, Searching
  <2>4. PICK seen \in Seq(Nat) :
          /\ F[0] = seen \o F[from] /\ Len(seen) = Len(walk.shown)
          /\ \A i \in DOMAIN walk.shown : ShowsMatch(walk.shown[i], s, seen[i], length)
    BY <2>1, <2>2, Searching
  <2> DEFINE later == Later(s, needle, from)
             found == FirstLater(s, needle, from)
             after == found + length
  <2>5. /\ IsUtf8(s)
        /\ later = {} => Chosen.next = Absent /\ Chosen.matched = FALSE
        /\ later # {} =>
             \E start \in 0 .. found, end \in after .. Len(s) :
               /\ Chosen.matched = TRUE /\ Chosen.start = start /\ Chosen.end = end
               /\ Chosen.data = Slice(s, start, end)
               /\ Chosen.next = IF after < Len(s) THEN after ELSE Absent
    <3>1. answer.ceiling \in Ceilings
      BY DEF Made
    <3> QED
      BY <2>1, <2>2, <2>3, <3>1, SearchSelected DEF Chosen
  <2>6. /\ F[from] \in Seq(Nat) /\ Matches(s, needle) = F[0]
        /\ F[from] = IF later = {} THEN <<>> ELSE <<found>> \o F[after]
    BY <2>3, MatchesChain
  <2>7. PICK S : walk.shown \in Seq(S)
    BY <2>2 DEF WalkShape
  <2> DEFINE grown == Append(walk.shown, Chosen)
             n == Len(walk.shown)
  <2>8. /\ Chosen.matched = TRUE => ~ Ceased(grown) /\ Hits(grown) = grown
        /\ Chosen.matched = FALSE => Ceased(grown) /\ Hits(grown) = walk.shown
        /\ n \in Nat /\ DOMAIN walk.shown = 1 .. n /\ DOMAIN grown = 1 .. (n + 1) /\ Len(grown) = n + 1
        /\ grown[n + 1] = Chosen /\ \A i \in 1 .. n : grown[i] = walk.shown[i]
    <3>1. \A new : Grows(walk.shown, new)
      BY <2>7, HitsGrow, Zenon
    <3>2. Grows(walk.shown, Chosen)
      BY <3>1, Zenon
    <3> QED
      BY <3>2, Zenon DEF Grows
  <2>9. Absent \notin Nat
    BY RetainedResultsAssumption
  <2>10. CASE later = {}
    <3>1. walk'.at = "done" /\ walk'.args.offset = from /\ walk'.shown = grown
      BY <2>1, <2>2, <2>5, <2>10
    <3>2. Ceased(grown) /\ Hits(grown) = walk.shown
      BY <2>5, <2>8, <2>10
    <3>3. F[0] = seen
      <4>1. F[from] = <<>>
        BY <2>6, <2>10
      <4> HIDE DEF F
      <4> QED
        BY <2>4, <4>1
    <3>4. IsUtf8(s) => IsBoundary(s, from)
      BY <2>1, <2>2, Searching
    <3> HIDE DEF F, s, needle, from, length, later, found, after, grown, n
    <3>5. MatchesFrom(s, needle) = F /\ Len(needle) = length
      BY DEF F, length
    <3> QED
      BY <1>1, <2>2, <2>3, <2>4, <3>1, <3>2, <3>3, <3>4, <3>5 DEF SearchWalk, s, needle
  <2>11. CASE later # {}
    <3>1. PICK start \in 0 .. found, end \in after .. Len(s) :
            /\ Chosen.matched = TRUE /\ Chosen.start = start /\ Chosen.end = end
            /\ Chosen.data = Slice(s, start, end)
            /\ Chosen.next = IF after < Len(s) THEN after ELSE Absent
      BY <2>5, <2>11
    <3>2. /\ found \in Occurrences(s, needle) /\ found \in from .. Len(s)
          /\ length \in Nat /\ length >= 1 /\ after \in (from + 1) .. Len(s)
      BY <2>3, <2>11, FirstLaterIs
    <3>3. IsBoundary(s, after)
      BY <2>3, <2>5, <3>2, OccursBetween
    <3>4. ~ Ceased(grown) /\ Hits(grown) = grown
      BY <2>8, <3>1
    <3>5. found \in Nat /\ after \in Nat /\ after \in 0 .. Len(s) /\ Len(s) \in Nat
      <4> HIDE DEF found, length
      <4> QED
        BY <2>3, <3>2
    <3>6. F[after] \in Seq(Nat) /\ F[0] = Append(seen, found) \o F[after]
      <4>1. F[after] \in Seq(Nat)
        <5> HIDE DEF after
        <5> QED
          BY <2>3, <3>5, MatchesChain
      <4>2. F[0] = seen \o (<<found>> \o F[after])
        BY <2>4, <2>6, <2>11
      <4> HIDE DEF F, found, after
      <4>3. seen \o (<<found>> \o F[after]) = Append(seen, found) \o F[after]
        BY <2>4, <3>5, <4>1, AppendThenRest
      <4> QED
        BY <4>1, <4>2, <4>3
    <3>7. Append(seen, found) \in Seq(Nat) /\ Len(Append(seen, found)) = Len(grown)
      <4> HIDE DEF found, grown
      <4> QED
        BY <2>4, <2>8, <3>5
    <3>8. ShowsMatch(Chosen, s, found, length)
      <4> HIDE DEF found, s
      <4>1. start <= found /\ found + length <= end
        BY <3>1, <3>5
      <4> QED
        BY <3>1, <4>1 DEF ShowsMatch
    <3>9. ASSUME NEW i \in DOMAIN grown
          PROVE  ShowsMatch(grown[i], s, Append(seen, found)[i], length)
      <4>1. CASE i = n + 1
        <5>1. grown[i] = Chosen
          BY <2>8, <4>1
        <5>2. Append(seen, found)[i] = found
          <6> HIDE DEF found
          <6> QED
            BY <2>4, <4>1
        <5> HIDE DEF grown, found
        <5> QED
          BY <3>8, <5>1, <5>2
      <4>2. CASE i # n + 1
        <5>1. i \in 1 .. n
          BY <2>8, <4>2
        <5>2. grown[i] = walk.shown[i]
          BY <2>8, <5>1
        <5>3. Append(seen, found)[i] = seen[i]
          <6> HIDE DEF found
          <6> QED
            BY <2>4, <2>8, <5>1
        <5>4. ShowsMatch(walk.shown[i], s, seen[i], length)
          BY <2>4, <2>8, <5>1
        <5> HIDE DEF grown, found
        <5> QED
          BY <5>2, <5>3, <5>4
      <4> QED
        BY <4>1, <4>2
    <3>10. CASE after < Len(s)
      <4>1. walk'.at = "walking" /\ walk'.args.offset = after /\ walk'.shown = grown
        <5> HIDE DEF after
        <5>1. Chosen.next = after /\ after # Absent
          BY <2>9, <3>1, <3>5, <3>10
        <5> QED
          BY <2>1, <2>2, <5>1
      <4> HIDE DEF F, s, needle, from, length, later, found, after, grown, n
      <4>2. MatchesFrom(s, needle) = F /\ Len(needle) = length
        BY DEF F, length
      <4>3. \E known \in Seq(Nat) :
              /\ F[0] = known \o F[after] /\ Len(known) = Len(grown)
              /\ \A i \in DOMAIN grown : ShowsMatch(grown[i], s, known[i], length)
        BY <3>6, <3>7, <3>9
      <4> QED
        BY <1>1, <2>2, <3>3, <3>4, <3>5, <4>1, <4>2, <4>3 DEF SearchWalk, s, needle
    <3>11. CASE ~ (after < Len(s))
      <4>1. walk'.at = "done" /\ walk'.args.offset = from /\ walk'.shown = grown
        <5>1. Chosen.next = Absent
          BY <3>1, <3>11
        <5> QED
          BY <2>1, <2>2, <5>1
      <4>2. F[after] = <<>>
        <5>1. after = Len(s)
          BY <3>5, <3>11
        <5>2. Later(s, needle, Len(s)) = {}
          BY <2>3, NoneAtTheEnd
        <5>3. Len(s) \in 0 .. Len(s)
          BY <3>5
        <5>4. F[Len(s)] = <<>>
          BY <2>3, <5>2, <5>3, MatchesChain
        <5> QED
          BY <5>1, <5>4
      <4>3. F[0] = Append(seen, found)
        <5> HIDE DEF F, found, after
        <5> QED
          BY <3>6, <3>7, <4>2
      <4>4. IsUtf8(s) => IsBoundary(s, from)
        BY <2>1, <2>2, Searching
      <4> HIDE DEF F, s, needle, from, length, later, found, after, grown, n
      <4>5. MatchesFrom(s, needle) = F /\ Len(needle) = length
        BY DEF F, length
      <4>6. \E known \in Seq(Nat) :
              /\ F[0] = known /\ Len(known) = Len(grown)
              /\ \A i \in DOMAIN grown : ShowsMatch(grown[i], s, known[i], length)
        BY <3>7, <3>9, <4>3
      <4> QED
        BY <1>1, <2>2, <2>3, <3>4, <4>1, <4>4, <4>5, <4>6 DEF SearchWalk, s, needle
    <3> QED
      BY <3>10, <3>11
  <2> QED
    BY <2>10, <2>11
<1> QED
  BY <1>2, <1>3, <1>5, <1>6, WalkSteps

LEMMA SearchWalkFinds == Made /\ WalkShape /\ SearchWalk => EveryMatchShown
<1> SUFFICES ASSUME Made, WalkShape, SearchWalk, walk.at # "none", walk.args.mode = "search",
                    retained # Absent, ValidArguments(walk.args)
             PROVE  EveryMatchShown
  BY DEF EveryMatchShown
<1> DEFINE s == Held.body.bytes
           needle == walk.args.text
           from == walk.args.offset
           F == MatchesFrom(s, needle)
           matches == Matches(s, needle)
           hits == Hits(walk.shown)
<1>1. retained = Held /\ walk # NoWalk
  BY DEF Made, NoWalk
<1>2. /\ from \in 0 .. Len(s)
      /\ Ceased(walk.shown) => walk.at = "done"
      /\ walk.at = "refused" /\ IsUtf8(s) => walk.args.limit # Absent /\ walk.args.limit < Len(needle)
  BY <1>1 DEF SearchWalk
<1>3. PICK seen \in Seq(Nat) :
        /\ F[0] = IF walk.at = "done" THEN seen ELSE seen \o F[from]
        /\ Len(seen) = Len(hits)
        /\ \A i \in DOMAIN hits : ShowsMatch(hits[i], s, seen[i], Len(needle))
  BY <1>1 DEF SearchWalk
<1>4. s \in Seq(STRING)
  BY <1>1, HeldBody DEF WalkShape
<1>5. from \in Nat
  BY <1>2, <1>4
<1>6. needle \in Seq(STRING) /\ needle # <<>>
  <2>1. walk.args \in Arguments
    BY <1>1, <1>5, ShapeArguments
  <2>2. needle # Absent /\ Len(needle) \in 1 .. MaxNeedle
    BY DEF ValidArguments
  <2>3. Len(needle) # 0
    BY <2>2
  <2> QED
    BY <2>1, <2>2, <2>3 DEF Arguments
<1>7. matches = F[0] /\ F[from] \in Seq(Nat)
  BY <1>2, <1>4, <1>6, MatchesChain
<1>8. PICK S : walk.shown \in Seq(S)
  BY <1>1 DEF WalkShape
<1>9. DOMAIN hits = 1 .. Len(seen)
  <2>1. hits \in Seq(S)
    <3>1. CASE Ceased(walk.shown)
      <4>1. walk.shown # <<>> /\ hits = SubSeq(walk.shown, 1, Len(walk.shown) - 1)
        BY <3>1 DEF Ceased, Hits, Front
      <4> QED
        BY <1>8, <4>1
    <3>2. CASE ~ Ceased(walk.shown)
      BY <1>8, <3>2 DEF Hits
    <3> QED
      BY <3>1, <3>2
  <2> HIDE DEF hits
  <2>2. DOMAIN hits = 1 .. Len(hits)
    BY <2>1
  <2> QED
    BY <1>3, <2>2
<1> HIDE DEF s, needle, from, F, matches, hits
<1>10. /\ Len(seen) \in Nat /\ Len(matches) \in Nat /\ Len(seen) <= Len(matches)
       /\ \A i \in 1 .. Len(seen) : matches[i] = seen[i]
       /\ walk.at = "done" => Len(matches) = Len(seen)
  <2>1. CASE walk.at = "done"
    BY <1>3, <1>7, <2>1
  <2>2. CASE walk.at # "done"
    <3>1. matches = seen \o F[from]
      BY <1>3, <1>7, <2>2
    <3> QED
      BY <1>7, <2>2, <3>1
  <2> QED
    BY <2>1, <2>2
<1>11. ASSUME NEW i \in DOMAIN hits
       PROVE  /\ hits[i].matched
              /\ hits[i].start <= matches[i] /\ matches[i] + Len(needle) <= hits[i].end
              /\ hits[i].data = Slice(s, hits[i].start, hits[i].end)
  <2>1. ShowsMatch(hits[i], s, seen[i], Len(needle)) /\ matches[i] = seen[i]
    BY <1>3, <1>9, <1>10
  <2> QED
    BY <2>1 DEF ShowsMatch
<1>12. Len(hits) <= Len(matches) /\ (walk.at = "done" => Len(hits) = Len(matches))
  BY <1>3, <1>10
<1>13. hits = IF walk.shown # <<>> /\ ~ Last(walk.shown).matched THEN Front(walk.shown) ELSE walk.shown
  BY Zenon DEF hits, Hits, Ceased
<1>14. walk.shown # <<>> /\ ~ Last(walk.shown).matched => walk.at = "done"
  BY <1>2, Zenon DEF Ceased
<1>15. retained.body.bytes = s /\ walk.args.text = needle
  BY <1>1 DEF s, needle
<1> QED
  BY <1>2, <1>11, <1>12, <1>13, <1>14, <1>15, Zenon DEF EveryMatchShown, matches

(* Whatever the text, the limits and the context, a search that follows    *)
(* next_offset visits every match once, in order, and shows each whole     *)
(* (text_selection).                                                       *)
THEOREM EveryMatchIsShown == Spec => []EveryMatchShown
  BY MadeInit, MadeKept, ShapeInit, ShapeKept, SearchWalkInit, SearchWalkKept, SearchWalkFinds, PTL DEF Spec
=============================================================================
