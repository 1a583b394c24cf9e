----------------------------- MODULE FlowNumbers -----------------------------
(***************************************************************************)
(* The numbers of one flow as the machine keeps them: int in the sequence  *)
(* table, unsigned in tuple->index, int again in buildName and in the      *)
(* receiver's lexical_cast, and text in between.  Gateway counts without a *)
(* limit; this module shows how far that is right, for words of any width. *)
(*                                                                         *)
(* Overflow of int is taken to wrap, as it does in the code compiled here: *)
(* each sum is stored to an int or printed as one at once.                 *)
(***************************************************************************)
EXTENDS Integers, Sequences, FiniteSets

CONSTANTS
  MaxInt,        \* the largest int (2^31 - 1)
  NUM_OF_GUEST,  \* how many numbers are guessed ahead
  MaxPackets,    \* bound: packets of the flow
  MaxOnWay       \* bound: pre-requests on their way at a time

ASSUME IntAssumption   == MaxInt \in Nat /\ MaxInt > 0
ASSUME BoundAssumption == NUM_OF_GUEST \in Nat /\ MaxPackets \in Nat /\ MaxOnWay \in Nat

Word == 2 * (MaxInt + 1)    \* how many values an unsigned has
Ints == -(MaxInt + 1)..MaxInt

VARIABLES
  present,    \* whether the sequence table holds the flow
  value,      \* its number there, an int
  published,  \* history: the uids of the flow's packets in order, as split text
  onWay,      \* packets whose pre-request is on its way
  guest,      \* the receiver's prefixGuestTable
  ndn,        \* the receiver: running, or failed
  answered,   \* history: packets whose pre-request the receiver handled
  asked       \* history: uids the receiver asked for

vars == <<present, value, published, onWay, guest, ndn, answered, asked>>

ToUnsigned(n) == n % Word

\* Mutants: the table holds unsigned numbers; it holds a shorter int.
ToInt_Unsigned(u) == u
ToInt_Short(u) ==
  LET half == Word \div 2
      v    == u % half
  IN  IF 2 * v >= half THEN v - half ELSE v

\* An unsigned, or a sum of ints that overflows, as an int.
ToInt(u) == IF u > MaxInt THEN u - Word ELSE u

\* to_string of a number, split on "-" as the receiver splits the uid: the sign
\* of a negative number leaves an empty field before its digits.
EmptyField == -1
Digits(n)  == IF n < 0 THEN <<EmptyField, -n>> ELSE <<n>>
Uids       == { Digits(n) : n \in Ints }

\* lexical_cast<int> takes the field after the ports; an empty one makes it throw.
Parses(uid) == Head(uid) # EmptyField

\* Mutant: post-increment, so that guessing starts at the announced number.
Guesses_PostIncrement(n) == { Digits(ToInt(ToUnsigned(n + i))) : i \in 0..(NUM_OF_GUEST - 1) }

\* ++num_of_sequence, NUM_OF_GUEST times.
Guesses(n) == { Digits(ToInt(ToUnsigned(n + i))) : i \in 1..NUM_OF_GUEST }

TypeOK ==
  /\ present \in BOOLEAN
  /\ value \in Ints
  /\ published \in Seq(Uids)
  /\ Len(published) <= MaxPackets
  /\ onWay \subseteq DOMAIN published
  /\ guest \subseteq Uids
  /\ ndn \in {"running", "failed"}
  /\ answered \subseteq DOMAIN published
  /\ asked \subseteq Uids

Init ==
  /\ present = FALSE
  /\ value = 0
  /\ published = << >>
  /\ onWay = {}
  /\ guest = {}
  /\ ndn = "running"
  /\ answered = {}
  /\ asked = {}

-----------------------------------------------------------------------------

\* deal names the packet by its number and announces it under the same name.
Publish(n) ==
  /\ Len(published) < MaxPackets
  /\ Cardinality(onWay) < MaxOnWay
  /\ published' = Append(published, Digits(n))
  /\ onWay' = onWay \cup {Len(published) + 1}
  /\ UNCHANGED <<guest, ndn, answered, asked>>

\* The flow is not in the table: save inserts 1.
DealFirst ==
  /\ ~present
  /\ present' = TRUE
  /\ value' = 1
  /\ Publish(1)

\* getAndIncreaseSequence: get, erase, index = value + 1, save(key, index).
DealNext ==
  LET index == ToUnsigned(value + 1)
  IN  /\ present
      /\ value' = ToInt(index)
      /\ Publish(ToInt(index))
      /\ UNCHANGED present

\* dealOnInterest: ask for the announced uid and forget its guess, then parse
\* the number and guess the next ones.
DealOnInterest(i) ==
  LET uid == published[i]
      kept == guest \ {uid}
      fresh == Guesses(Head(uid)) \ kept
  IN  /\ ndn = "running"
      /\ i \in onWay
      /\ Parses(uid)
      /\ onWay' = onWay \ {i}
      /\ answered' = answered \cup {i}
      /\ guest' = kept \cup fresh
      /\ asked' = asked \cup {uid} \cup fresh
      /\ UNCHANGED <<present, value, published, ndn>>

\* The same with a number that does not parse: the request is posted and the
\* guess forgotten when the exception leaves the callback.  Nothing catches it on
\* the thread, so the whole receiving process ends.
DealOnInterestThrows(i) ==
  /\ ndn = "running"
  /\ i \in onWay
  /\ ~Parses(published[i])
  /\ onWay' = onWay \ {i}
  /\ guest' = guest \ {published[i]}
  /\ asked' = asked \cup {published[i]}
  /\ ndn' = "failed"
  /\ UNCHANGED <<present, value, published, answered>>

LosePre(i) ==
  /\ i \in onWay
  /\ onWay' = onWay \ {i}
  /\ UNCHANGED <<present, value, published, guest, ndn, answered, asked>>

Next ==
  \/ DealFirst
  \/ DealNext
  \/ \E i \in onWay : DealOnInterest(i) \/ DealOnInterestThrows(i) \/ LosePre(i)

Spec == Init /\ [][Next]_vars

-----------------------------------------------------------------------------
(* Properties.                                                             *)

\* A receiver fails on a number only after more packets of one flow than int
\* can count: up to then every number it is sent is one it can read.
FailsOnlyBeyondInt == ndn = "failed" => Len(published) > MaxInt

\* A name comes back only after as many packets as the word has values,
\* negative numbers, zero and all.
NamesApart ==
  \A i, j \in DOMAIN published :
    (i < j /\ published[i] = published[j]) => j - i >= Word

\* The guesses made on a packet's announcement are the names its successors
\* get, also where the sender's int and the receiver's pass their limit.
GuessesAreSuccessors ==
  \A i \in answered, j \in DOMAIN published :
    (i < j /\ j <= i + NUM_OF_GUEST) => published[j] \in asked
=============================================================================
