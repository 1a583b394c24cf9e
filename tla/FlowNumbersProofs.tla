------------------------- MODULE FlowNumbersProofs -------------------------
(***************************************************************************)
(* Theorems about FlowNumbers for every size of int, every NUM_OF_GUEST    *)
(* and every bound.                                                        *)
(***************************************************************************)
EXTENDS FlowNumbers, TLAPS

-----------------------------------------------------------------------------
(* Remainders.  The prover knows that a division leaves one; that there is *)
(* no other, so that sums may be reduced at any time, is proved here.      *)

LEMMA Division ==
  ASSUME NEW a \in Int, NEW w \in Nat, w > 0
  PROVE  a % w \in 0..(w - 1) /\ a \div w \in Int /\ a = w * (a \div w) + (a % w)
OBVIOUS

LEMMA RemainderUnique ==
  ASSUME NEW w \in Nat, w > 0, NEW q \in Int, NEW p \in Int, NEW r \in 0..(w - 1), NEW s \in 0..(w - 1),
         w * q + r = w * p + s
  PROVE  q = p /\ r = s
<1>1. w * (q - p) = s - r
  OBVIOUS
<1>2. ASSUME q - p >= 1 PROVE FALSE
  <2>1. w * (q - p) >= w
    BY <1>2
  <2> QED  BY <1>1, <2>1
<1>3. ASSUME p - q >= 1 PROVE FALSE
  <2>1. w * (p - q) >= w
    BY <1>3
  <2>2. w * (p - q) = r - s
    BY <1>1
  <2> QED  BY <2>1, <2>2
<1>4. q = p
  BY <1>2, <1>3
<1> QED  BY <1>1, <1>4

\* Numbers that differ by a multiple of w have the same remainder.
LEMMA SameRemainder ==
  ASSUME NEW w \in Nat, w > 0, NEW a \in Int, NEW b \in Int, NEW k \in Int, a = b + w * k
  PROVE  a % w = b % w
<1> DEFINE q == a \div w
           p == b \div w
           r == a % w
           s == b % w
<1>1. /\ r \in 0..(w - 1) /\ q \in Int /\ a = w * q + r
      /\ s \in 0..(w - 1) /\ p \in Int /\ b = w * p + s
  BY Division
<1> HIDE DEF p, q, r, s
<1>2. w * q + r = w * (p + k) + s
  <2>1. w * (p + k) = w * p + w * k
    BY <1>1
  <2>2. w * p \in Int /\ w * k \in Int /\ w * q \in Int
    BY <1>1
  <2>3. w * q + r = (w * p + s) + w * k
    BY <1>1
  <2> QED  BY <1>1, <2>1, <2>2, <2>3
<1>3. p + k \in Int
  BY <1>1
<1> DEFINE pk == p + k
<1>4. pk \in Int /\ w * q + r = w * pk + s
  BY <1>2, <1>3
<1> HIDE DEF pk
<1>5. r = s
  BY <1>1, <1>4, RemainderUnique
<1> QED  BY <1>5 DEF r, s

\* Numbers with the same remainder are equal or w apart.
LEMMA FarApart ==
  ASSUME NEW w \in Nat, w > 0, NEW a \in Int, NEW b \in Int, a < b, a % w = b % w
  PROVE  b - a >= w
<1> DEFINE q == a \div w
           p == b \div w
           r == a % w
<1>1. r \in 0..(w - 1) /\ q \in Int /\ a = w * q + r /\ p \in Int /\ b = w * p + r
  BY Division
<1> HIDE DEF p, q, r
<1>2. w * p > w * q
  <2>1. w * p \in Int /\ w * q \in Int
    BY <1>1
  <2> QED  BY <1>1, <2>1
<1>3. p > q
  BY <1>1, <1>2
<1>4. w * (p - q) >= w
  BY <1>1, <1>3
<1>5. w * (p - q) = b - a
  BY <1>1
<1> QED  BY <1>4, <1>5

-----------------------------------------------------------------------------
(* The number of the n-th packet, as an int.                               *)

Number(n) == ToInt(ToUnsigned(n))

LEMMA WordType == Word \in Nat /\ Word > 0 /\ MaxInt \in Nat /\ MaxInt > 0 /\ Word = 2 * MaxInt + 2
BY IntAssumption DEF Word

\* It is n less a multiple of the word.
LEMMA NumberIs ==
  ASSUME NEW n \in Int
  PROVE  /\ Number(n) \in Ints
         /\ \E k \in Int : Number(n) = n + Word * k
<1>1. n % Word \in 0..(Word - 1) /\ n \div Word \in Int /\ n = Word * (n \div Word) + (n % Word)
  BY WordType, Division
<1> DEFINE r == n % Word
           q == n \div Word
<1>2. r \in 0..(Word - 1) /\ q \in Int /\ n = Word * q + r
  BY <1>1
<1>3. Number(n) = IF r > MaxInt THEN r - Word ELSE r
  BY DEF Number, ToInt, ToUnsigned
<1> HIDE DEF r, q
<1>4. Number(n) \in Ints
  BY <1>2, <1>3, WordType DEF Ints
<1>5. \E k \in Int : Number(n) = n + Word * k
  <2>1. Word * q \in Int
    BY <1>2, WordType
  <2>2. CASE r > MaxInt
    <3>1. Number(n) = n + Word * (-q - 1)
      <4>1. Word * (-q - 1) = -(Word * q) - Word
        BY <1>2, WordType
      <4> QED  BY <1>2, <1>3, <2>1, <2>2, <4>1, WordType
    <3>2. -q - 1 \in Int
      BY <1>2
    <3> QED  BY <3>1, <3>2
  <2>3. CASE ~(r > MaxInt)
    <3>1. Number(n) = n + Word * (-q)
      <4>1. Word * (-q) = -(Word * q)
        BY <1>2, WordType
      <4> QED  BY <1>2, <1>3, <2>1, <2>3, <4>1, WordType
    <3>2. -q \in Int
      BY <1>2
    <3> QED  BY <3>1, <3>2
  <2> QED  BY <2>2, <2>3
<1> QED  BY <1>4, <1>5

\* Counting on from a number that has wrapped wraps to the same.
LEMMA NumberPlus ==
  ASSUME NEW n \in Int, NEW i \in Int
  PROVE  Number(Number(n) + i) = Number(n + i)
<1>1. PICK k \in Int : Number(n) = n + Word * k
  BY NumberIs
<1>2. Word * k \in Int /\ Number(n) \in Int
  BY <1>1, WordType
<1>3. Number(n) + i = (n + i) + Word * k
  BY <1>1, <1>2
<1>4. (Number(n) + i) % Word = (n + i) % Word
  <2> DEFINE a == Number(n) + i
             b == n + i
  <2>1. a \in Int /\ b \in Int /\ a = b + Word * k
    BY <1>2, <1>3
  <2> HIDE DEF a, b
  <2>2. a % Word = b % Word
    BY <2>1, WordType, SameRemainder
  <2> QED  BY <2>2 DEF a, b
<1> QED  BY <1>4 DEF Number, ToUnsigned

\* Up to the largest int nothing wraps.
LEMMA NumberExact ==
  ASSUME NEW n \in Nat, n <= MaxInt
  PROVE  Number(n) = n
<1>1. n % Word = n
  BY WordType
<1> QED  BY <1>1, WordType DEF Number, ToInt, ToUnsigned

\* A number is negative only if so many packets came before it.
LEMMA NegativeLate ==
  ASSUME NEW n \in Nat, Number(n) < 0
  PROVE  n > MaxInt
BY NumberExact, WordType

\* Equal numbers are a word apart.
LEMMA NumbersApart ==
  ASSUME NEW m \in Int, NEW n \in Int, m < n, Number(m) = Number(n)
  PROVE  n - m >= Word
<1> DEFINE r == m % Word
           s == n % Word
<1>1. r \in 0..(Word - 1) /\ s \in 0..(Word - 1)
  BY WordType, Division
<1>2. (IF r > MaxInt THEN r - Word ELSE r) = (IF s > MaxInt THEN s - Word ELSE s)
  BY DEF Number, ToInt, ToUnsigned
<1> HIDE DEF r, s
<1>3. r = s
  BY <1>1, <1>2, WordType
<1> QED  BY <1>3, WordType, FarApart DEF r, s

\* The text of a number tells the number, and whether it has a sign.
LEMMA DigitsInjective ==
  ASSUME NEW m \in Int, NEW n \in Int, Digits(m) = Digits(n)
  PROVE  m = n
BY DEF Digits

LEMMA DigitsParse ==
  ASSUME NEW n \in Int
  PROVE  /\ Parses(Digits(n)) <=> n >= 0
         /\ n >= 0 => Head(Digits(n)) = n
BY DEF Digits, Parses, EmptyField

LEMMA NumberText ==
  ASSUME NEW n \in Int
  PROVE  Digits(Number(n)) \in Uids /\ Number(n) \in Int
BY NumberIs, IntAssumption DEF Uids, Ints

-----------------------------------------------------------------------------
(* The invariant: packet n has number n, wrapped, on both sides.           *)

Numbering ==
  /\ value = Number(Len(published))
  /\ ~present => published = << >>
  /\ \A n \in DOMAIN published : published[n] = Digits(Number(n))

Guessing ==
  /\ guest \subseteq asked
  /\ \A n \in answered, i \in 1..NUM_OF_GUEST : Digits(Number(n + i)) \in asked

NumberInv == TypeOK /\ Numbering /\ Guessing /\ FailsOnlyBeyondInt

LEMMA NumberInit == Init => NumberInv
<1> SUFFICES ASSUME Init PROVE NumberInv
  OBVIOUS
<1>1. Number(0) = 0
  BY WordType DEF Number, ToInt, ToUnsigned
<1>2. TypeOK
  <2>1. 0 \in Ints
    BY IntAssumption DEF Ints
  <2>2. << >> \in Seq(Uids) /\ Len(<< >>) <= MaxPackets
    BY BoundAssumption
  <2> QED  BY <2>1, <2>2 DEF Init, TypeOK
<1> QED  BY <1>1, <1>2 DEF Init, NumberInv, Numbering, Guessing, FailsOnlyBeyondInt

\* Publishing gives the flow its next number.
LEMMA PublishStep ==
  ASSUME NumberInv, Publish(Number(Len(published) + 1)),
         present' = TRUE, value' = Number(Len(published) + 1)
  PROVE  NumberInv'
<1> DEFINE L   == Len(published)
           uid == Digits(Number(L + 1))
<1>1. /\ published \in Seq(Uids) /\ L \in Nat /\ DOMAIN published = 1..L
      /\ onWay \subseteq 1..L /\ answered \subseteq 1..L
  BY DEF NumberInv, TypeOK
<1>2. uid \in Uids
  BY <1>1, NumberText
<1>3. /\ L < MaxPackets /\ published' = Append(published, uid) /\ onWay' = onWay \cup {L + 1}
      /\ UNCHANGED <<guest, ndn, answered, asked>>
  BY DEF Publish
<1>4. value' = Number(L + 1) /\ present' = TRUE
  OBVIOUS
<1> HIDE DEF L, uid
<1>5. /\ published' \in Seq(Uids) /\ Len(published') = L + 1 /\ DOMAIN published' = 1..(L + 1)
      /\ published'[L + 1] = uid
      /\ \A n \in 1..L : published'[n] = published[n]
  BY <1>1, <1>2, <1>3 DEF L
<1>6. TypeOK'
  <2>1. value' \in Ints
    BY <1>1, <1>4, NumberIs
  <2>2. Len(published') <= MaxPackets
    BY <1>1, <1>3, <1>5, BoundAssumption
  <2>3. onWay' \subseteq DOMAIN published' /\ answered' \subseteq DOMAIN published'
    <3>1. 1..L \subseteq 1..(L + 1) /\ L + 1 \in 1..(L + 1)
      BY <1>1
    <3> QED  BY <1>1, <1>3, <1>5, <3>1
  <2> QED  BY <1>3, <1>4, <1>5, <2>1, <2>2, <2>3 DEF NumberInv, TypeOK
<1>7. Numbering'
  <2>1. ASSUME NEW n \in DOMAIN published' PROVE published'[n] = Digits(Number(n))
    <3>1. CASE n \in 1..L
      BY <1>1, <1>5, <3>1 DEF NumberInv, Numbering
    <3>2. CASE n = L + 1
      BY <1>5, <3>2 DEF uid
    <3> QED  BY <1>1, <1>5, <2>1, <3>1, <3>2
  <2> QED  BY <1>4, <1>5, <2>1 DEF Numbering
<1>8. Guessing'
  BY <1>3 DEF NumberInv, Guessing
<1>9. FailsOnlyBeyondInt'
  BY <1>1, <1>3, <1>5, WordType DEF NumberInv, FailsOnlyBeyondInt, L
<1> QED  BY <1>6, <1>7, <1>8, <1>9 DEF NumberInv

LEMMA DealStep ==
  ASSUME NumberInv, DealFirst \/ DealNext
  PROVE  NumberInv'
<1>1. CASE DealFirst
  <2>1. Len(published) + 1 = 1
    BY <1>1 DEF DealFirst, NumberInv, Numbering
  <2>2. Number(1) = 1
    BY WordType DEF Number, ToInt, ToUnsigned
  <2> QED  BY <1>1, <2>1, <2>2, PublishStep DEF DealFirst
<1>2. CASE DealNext
  <2>1. Len(published) \in Int /\ value = Number(Len(published))
    BY DEF NumberInv, TypeOK, Numbering
  <2>2. ToInt(ToUnsigned(value + 1)) = Number(Len(published) + 1)
    BY <2>1, NumberPlus DEF Number
  <2> QED  BY <1>2, <2>2, PublishStep DEF DealNext
<1> QED  BY <1>1, <1>2

LEMMA AnswerStep ==
  ASSUME NumberInv, NEW n \in onWay, DealOnInterest(n)
  PROVE  NumberInv'
<1> DEFINE uid   == published[n]
           kept  == guest \ {uid}
           fresh == Guesses(Head(uid)) \ kept
<1>1. /\ published \in Seq(Uids) /\ n \in DOMAIN published /\ n \in Int
      /\ guest \subseteq Uids /\ asked \subseteq Uids
  BY DEF NumberInv, TypeOK
<1>2. uid = Digits(Number(n)) /\ uid \in Uids /\ Number(n) \in Int
  BY <1>1, NumberText DEF NumberInv, Numbering
<1>3. Parses(uid) /\ onWay' = onWay \ {n} /\ answered' = answered \cup {n}
      /\ guest' = kept \cup fresh /\ asked' = asked \cup {uid} \cup fresh
      /\ UNCHANGED <<present, value, published, ndn>>
  BY DEF DealOnInterest
<1>4. Head(uid) = Number(n)
  BY <1>2, <1>3, DigitsParse
<1>5. Guesses(Head(uid)) = { Digits(Number(n + i)) : i \in 1..NUM_OF_GUEST }
  <2>1. \A i \in 1..NUM_OF_GUEST : ToInt(ToUnsigned(Number(n) + i)) = Number(n + i)
    BY <1>1, NumberPlus DEF Number
  <2> QED  BY <1>4, <2>1 DEF Guesses
<1>6. fresh \subseteq Uids
  <2>1. \A i \in 1..NUM_OF_GUEST : Digits(Number(n + i)) \in Uids
    BY <1>1, NumberText
  <2> QED  BY <1>5, <2>1
<1> HIDE DEF uid, kept
<1>7. guest' \subseteq asked' /\ \A i \in 1..NUM_OF_GUEST : Digits(Number(n + i)) \in asked'
  <2>1. kept \subseteq asked
    BY DEF kept, NumberInv, Guessing
  <2>2. \A i \in 1..NUM_OF_GUEST : Digits(Number(n + i)) \in kept \cup fresh
    BY <1>5
  <2> HIDE DEF fresh
  <2> QED  BY <1>3, <2>1, <2>2
<1> HIDE DEF fresh
<1>8. TypeOK'
  BY <1>1, <1>2, <1>3, <1>6 DEF NumberInv, TypeOK, kept
<1>9. Numbering' /\ FailsOnlyBeyondInt'
  BY <1>3 DEF NumberInv, Numbering, FailsOnlyBeyondInt
<1>10. Guessing'
  BY <1>3, <1>7 DEF NumberInv, Guessing
<1> QED  BY <1>8, <1>9, <1>10 DEF NumberInv

LEMMA OtherSteps ==
  ASSUME NumberInv,
         (\E n \in onWay : DealOnInterestThrows(n) \/ LosePre(n)) \/ UNCHANGED vars
  PROVE  NumberInv'
<1>1. ASSUME NEW n \in onWay, DealOnInterestThrows(n) PROVE NumberInv'
  <2>1. n \in 1..Len(published) /\ Len(published) \in Nat /\ n \in DOMAIN published
    BY DEF NumberInv, TypeOK
  <2>2. published[n] = Digits(Number(n)) /\ Number(n) \in Int
    BY <2>1, NumberText DEF NumberInv, Numbering
  <2>3. Number(n) < 0
    BY <1>1, <2>2, DigitsParse DEF DealOnInterestThrows
  <2>4. Len(published) > MaxInt
    BY <2>1, <2>3, NegativeLate, WordType
  <2> QED
    BY <1>1, <2>4 DEF DealOnInterestThrows, NumberInv, TypeOK, Numbering, Guessing, FailsOnlyBeyondInt
<1>2. ASSUME NEW n \in onWay, LosePre(n) PROVE NumberInv'
  BY <1>2 DEF LosePre, NumberInv, TypeOK, Numbering, Guessing, FailsOnlyBeyondInt
<1>3. CASE UNCHANGED vars
  BY <1>3 DEF vars, NumberInv, TypeOK, Numbering, Guessing, FailsOnlyBeyondInt
<1> QED  BY <1>1, <1>2, <1>3

LEMMA NumberStep == NumberInv /\ [Next]_vars => NumberInv'
BY DealStep, AnswerStep, OtherSteps DEF Next

LEMMA NumberInvariant == Spec => []NumberInv
BY NumberInit, NumberStep, PTL DEF Spec

-----------------------------------------------------------------------------
(* The theorems.                                                           *)

\* The number in the table stays an int, and the texts are those of ints.
THEOREM TypeCorrect == Spec => []TypeOK
<1>1. NumberInv => TypeOK
  BY DEF NumberInv
<1> QED  BY <1>1, NumberInvariant, PTL

\* No number up to the largest int makes the receiver's lexical_cast throw.
THEOREM FailsLate == Spec => []FailsOnlyBeyondInt
<1>1. NumberInv => FailsOnlyBeyondInt
  BY DEF NumberInv
<1> QED  BY <1>1, NumberInvariant, PTL

\* A flow's names come round after a whole word of packets, no sooner: wrapping
\* goes through the negative numbers and zero before it meets one given before.
THEOREM NamesAreApart == Spec => []NamesApart
<1>1. NumberInv => NamesApart
  <2> SUFFICES ASSUME NumberInv, NEW m \in DOMAIN published, NEW n \in DOMAIN published,
                      m < n, published[m] = published[n]
               PROVE  n - m >= Word
    BY DEF NamesApart
  <2>1. m \in Int /\ n \in Int
    BY DEF NumberInv, TypeOK
  <2>2. Digits(Number(m)) = Digits(Number(n))
    BY DEF NumberInv, Numbering
  <2>3. Number(m) = Number(n)
    BY <2>1, <2>2, NumberText, DigitsInjective
  <2> QED  BY <2>1, <2>3, NumbersApart
<1> QED  BY <1>1, NumberInvariant, PTL

\* Sender and receiver wrap alike: what is guessed on packet n is what packets
\* n + 1 to n + NUM_OF_GUEST are called.
THEOREM GuessesFit == Spec => []GuessesAreSuccessors
<1>1. NumberInv => GuessesAreSuccessors
  <2> SUFFICES ASSUME NumberInv, NEW m \in answered, NEW n \in DOMAIN published,
                      m < n, n <= m + NUM_OF_GUEST
               PROVE  published[n] \in asked
    BY DEF GuessesAreSuccessors
  <2>1. m \in Int /\ n \in Int /\ published[n] = Digits(Number(n))
    BY DEF NumberInv, TypeOK, Numbering
  <2>2. n - m \in 1..NUM_OF_GUEST /\ m + (n - m) = n
    BY <2>1, BoundAssumption
  <2>3. Digits(Number(m + (n - m))) \in asked
    BY <2>2 DEF NumberInv, Guessing
  <2> QED  BY <2>1, <2>2, <2>3
<1> QED  BY <1>1, NumberInvariant, PTL

\* What Gateway says of a flow's numbers: each packet has its place in the flow
\* as its number, and the table the number of the last one.
CountsExactly ==
  /\ value = Len(published)
  /\ \A n \in DOMAIN published : published[n] = <<n>>

\* Gateway counts without a limit: int, unsigned and text keep count with it for
\* as many packets as the largest int, and then no receiver has failed.
THEOREM CountsAsGateway == Spec => [](Len(published) <= MaxInt => CountsExactly /\ ndn = "running")
<1>1. NumberInv => (Len(published) <= MaxInt => CountsExactly /\ ndn = "running")
  <2> SUFFICES ASSUME NumberInv, Len(published) <= MaxInt
               PROVE  CountsExactly /\ ndn = "running"
    OBVIOUS
  <2>1. Len(published) \in Nat /\ DOMAIN published = 1..Len(published) /\ ndn \in {"running", "failed"}
    BY DEF NumberInv, TypeOK
  <2>2. value = Len(published)
    BY <2>1, NumberExact DEF NumberInv, Numbering
  <2>3. ASSUME NEW n \in DOMAIN published PROVE published[n] = <<n>>
    <3>1. n \in Nat /\ n <= MaxInt
      BY <2>1, WordType
    <3>2. published[n] = Digits(n)
      BY <3>1, NumberExact DEF NumberInv, Numbering
    <3> QED  BY <3>1, <3>2 DEF Digits
  <2>4. ndn = "running"
    BY <2>1, WordType DEF NumberInv, FailsOnlyBeyondInt
  <2> QED  BY <2>2, <2>3, <2>4 DEF CountsExactly
<1> QED  BY <1>1, NumberInvariant, PTL
=============================================================================
