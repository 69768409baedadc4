--------------------------- MODULE ReadingsProofs ---------------------------
(***************************************************************************)
(* What the readers do with every input, not only with those that the run  *)
(* enumerates: the PIN, the host, the peers of a scan and their bytes, the *)
(* contract with the guard, the transcript of a negotiation and the window *)
(* on a growing file.                                                      *)
(***************************************************************************)
EXTENDS MCReadings, Integers, SequenceTheorems, FiniteSetTheorems, NaturalsInduction,
        WellFoundedInduction, TLAPS

-----------------------------------------------------------------------------
(* PairingPin: the checksum digit, and the line that is read *)

(* The checksum digit completes the weighted sum to a multiple of ten. *)
LEMMA ModTen ==
  \A a \in Nat, b \in 0..9 : (10 - (a % 10)) % 10 = b <=> (a + b) % 10 = 0
  OBVIOUS

(* A valid PIN is one whose whole weighted sum is a multiple of ten. *)
LEMMA ValidSum ==
  ASSUME NEW p \in Pin
  PROVE  /\ Weighted(p) \in Nat
         /\ Valid(p) <=> (Weighted(p) + p[8]) % 10 = 0
<1>1. p \in [1..8 -> Nat] /\ p[8] \in 0..9
  BY DEF Pin, Digit
<1>2. Weighted(p) \in Nat
  BY <1>1 DEF Weighted
<1> QED BY <1>1, <1>2, ModTen DEF Valid, Checksum

(* Neither weight, 3 or 1, hides the difference of two digits. *)
LEMMA WeightsShow ==
  ASSUME NEW r \in Nat, NEW s \in Int, NEW a \in Digit, NEW b \in Digit,
         s = (r - a) + b \/ s = (r - 3 * a) + 3 * b, r % 10 = 0, s % 10 = 0
  PROVE  a = b
<1>1. a \in 0..9 /\ b \in 0..9
  BY DEF Digit
<1>2. CASE s = (r - a) + b
  BY <1>1, <1>2
<1>3. CASE s = (r - 3 * a) + 3 * b
  BY <1>1, <1>3
<1> QED BY <1>2, <1>3

(* A PIN's digits are integers. *)
LEMMA PinTypes == Pin \subseteq [1..8 -> Int] /\ Digit \subseteq Int
  BY DEF Pin, Digit

(* The weighted sum follows a change of one digit with weight 1 or 3. *)
LEMMA SumFollows ==
  ASSUME NEW p \in [1..8 -> Int], NEW q \in [1..8 -> Int], NEW i \in 1..8,
         \A j \in 1..8 : j # i => q[j] = p[j]
  PROVE  LET r == Weighted(p) + p[8]
             s == Weighted(q) + q[8]
         IN  /\ i \in {1, 3, 5, 7} => s = (r - 3 * p[i]) + 3 * q[i]
             /\ i \in {2, 4, 6, 8} => s = (r - p[i]) + q[i]
<1>1. CASE i = 1
  <2>1. q[2] = p[2] /\ q[3] = p[3] /\ q[4] = p[4] /\ q[5] = p[5] /\ q[6] = p[6] /\ q[7] = p[7] /\ q[8] = p[8]
    BY <1>1
  <2>2. Weighted(q) + q[8] = ((Weighted(p) + p[8]) - 3 * p[1]) + 3 * q[1]
    BY <2>1 DEF Weighted
  <2> QED BY <1>1, <2>2
<1>2. CASE i = 2
  <2>1. q[1] = p[1] /\ q[3] = p[3] /\ q[4] = p[4] /\ q[5] = p[5] /\ q[6] = p[6] /\ q[7] = p[7] /\ q[8] = p[8]
    BY <1>2
  <2>2. Weighted(q) + q[8] = ((Weighted(p) + p[8]) - p[2]) + q[2]
    BY <2>1 DEF Weighted
  <2> QED BY <1>2, <2>2
<1>3. CASE i = 3
  <2>1. q[1] = p[1] /\ q[2] = p[2] /\ q[4] = p[4] /\ q[5] = p[5] /\ q[6] = p[6] /\ q[7] = p[7] /\ q[8] = p[8]
    BY <1>3
  <2>2. Weighted(q) + q[8] = ((Weighted(p) + p[8]) - 3 * p[3]) + 3 * q[3]
    BY <2>1 DEF Weighted
  <2> QED BY <1>3, <2>2
<1>4. CASE i = 4
  <2>1. q[1] = p[1] /\ q[2] = p[2] /\ q[3] = p[3] /\ q[5] = p[5] /\ q[6] = p[6] /\ q[7] = p[7] /\ q[8] = p[8]
    BY <1>4
  <2>2. Weighted(q) + q[8] = ((Weighted(p) + p[8]) - p[4]) + q[4]
    BY <2>1 DEF Weighted
  <2> QED BY <1>4, <2>2
<1>5. CASE i = 5
  <2>1. q[1] = p[1] /\ q[2] = p[2] /\ q[3] = p[3] /\ q[4] = p[4] /\ q[6] = p[6] /\ q[7] = p[7] /\ q[8] = p[8]
    BY <1>5
  <2>2. Weighted(q) + q[8] = ((Weighted(p) + p[8]) - 3 * p[5]) + 3 * q[5]
    BY <2>1 DEF Weighted
  <2> QED BY <1>5, <2>2
<1>6. CASE i = 6
  <2>1. q[1] = p[1] /\ q[2] = p[2] /\ q[3] = p[3] /\ q[4] = p[4] /\ q[5] = p[5] /\ q[7] = p[7] /\ q[8] = p[8]
    BY <1>6
  <2>2. Weighted(q) + q[8] = ((Weighted(p) + p[8]) - p[6]) + q[6]
    BY <2>1 DEF Weighted
  <2> QED BY <1>6, <2>2
<1>7. CASE i = 7
  <2>1. q[1] = p[1] /\ q[2] = p[2] /\ q[3] = p[3] /\ q[4] = p[4] /\ q[5] = p[5] /\ q[6] = p[6] /\ q[8] = p[8]
    BY <1>7
  <2>2. Weighted(q) + q[8] = ((Weighted(p) + p[8]) - 3 * p[7]) + 3 * q[7]
    BY <2>1 DEF Weighted
  <2> QED BY <1>7, <2>2
<1>8. CASE i = 8
  <2>1. q[1] = p[1] /\ q[2] = p[2] /\ q[3] = p[3] /\ q[4] = p[4] /\ q[5] = p[5] /\ q[6] = p[6] /\ q[7] = p[7]
    BY <1>8
  <2>2. Weighted(q) + q[8] = ((Weighted(p) + p[8]) - p[8]) + q[8]
    BY <2>1 DEF Weighted
  <2> QED BY <1>8, <2>2
<1> QED BY <1>1, <1>2, <1>3, <1>4, <1>5, <1>6, <1>7, <1>8

(* A swap of neighbours, whose weights differ by 2, moves the sum by twice *)
(* their difference.                                                       *)
LEMMA SumFollowsSwap ==
  ASSUME NEW p \in Pin, NEW i \in 1..7
  PROVE  LET q == Swapped(p, i)
             r == Weighted(p) + p[8]
             s == Weighted(q) + q[8]
         IN  s = r + 2 * (p[i] - p[i + 1]) \/ s = r - 2 * (p[i] - p[i + 1])
<1> DEFINE h == [p EXCEPT ![i] = p[i + 1]]
           q == Swapped(p, i)
           r == Weighted(p) + p[8]
           t == Weighted(h) + h[8]
           s == Weighted(q) + q[8]
<1>1. /\ h \in Pin /\ h[i] = p[i + 1] /\ h[i + 1] = p[i + 1]
      /\ q \in Pin /\ q[i + 1] = p[i]
      /\ \A j \in 1..8 : (j # i => h[j] = p[j]) /\ (j # i + 1 => q[j] = h[j])
  BY DEF Pin, Swapped
<1>2. r \in Nat /\ p[i] \in 0..9 /\ p[i + 1] \in 0..9
  <2>1. p[8] \in Nat /\ Weighted(p) \in Nat
    BY ValidSum DEF Pin, Digit
  <2> QED BY <2>1 DEF Pin, Digit
<1> HIDE DEF h, q
<1>3. /\ i \in {1, 3, 5, 7} => t = (r - 3 * p[i]) + 3 * p[i + 1]
      /\ i \in {2, 4, 6, 8} => t = (r - p[i]) + p[i + 1]
  BY <1>1, PinTypes, SumFollows
<1>4. /\ i + 1 \in {1, 3, 5, 7} => s = (t - 3 * p[i + 1]) + 3 * p[i]
      /\ i + 1 \in {2, 4, 6, 8} => s = (t - p[i + 1]) + p[i]
  BY <1>1, PinTypes, SumFollows
<1> HIDE DEF r, s, t
<1>5. s = r + 2 * (p[i] - p[i + 1]) \/ s = r - 2 * (p[i] - p[i + 1])
  <2>1. CASE i \in {1, 3, 5, 7}  BY <1>2, <1>3, <1>4, <2>1
  <2>2. CASE i \in {2, 4, 6}     BY <1>2, <1>3, <1>4, <2>2
  <2> QED BY <2>1, <2>2
<1> QED BY <1>5 DEF q, r, s

(* One digit of a valid PIN replaced makes it invalid. *)
LEMMA OneSlip == \A p \in Pin : SlipRefused(p)
<1> SUFFICES ASSUME NEW p \in Pin, Valid(p), NEW i \in 1..8, NEW d \in Digit, d # p[i],
                    Valid([p EXCEPT ![i] = d])
             PROVE  FALSE
  BY DEF SlipRefused
<1> DEFINE q == [p EXCEPT ![i] = d]
           r == Weighted(p) + p[8]
           s == Weighted(q) + q[8]
<1>1. q \in Pin /\ q[i] = d /\ p[i] \in Digit /\ \A j \in 1..8 : j # i => q[j] = p[j]
  BY DEF Pin
<1>2. r % 10 = 0 /\ s % 10 = 0 /\ r \in Nat /\ s \in Nat
  <2>1. p[8] \in Nat /\ q[8] \in Nat
    BY <1>1 DEF Pin, Digit
  <2>2. Weighted(p) \in Nat /\ Weighted(q) \in Nat /\ (Weighted(p) + p[8]) % 10 = 0 /\ (Weighted(q) + q[8]) % 10 = 0
    BY <1>1, ValidSum
  <2> QED BY <2>1, <2>2
<1>3. s = (r - p[i]) + d \/ s = (r - 3 * p[i]) + 3 * d
  <2> HIDE DEF q
  <2> QED BY <1>1, PinTypes, SumFollows
<1> HIDE DEF q, r, s
<1>4. s \in Int
  BY <1>2
<1> QED BY <1>1, <1>2, <1>3, <1>4, WeightsShow

(* A PIN with one wrong digit is refused, for every PIN and every slip:     *)
(* what _checksum is for (pairing.py:22).                                   *)
THEOREM SlipsAreDetected == SlipDetected
<1>1. CASE entry \in Pin
  BY <1>1, OneSlip DEF SlipDetected
<1>2. CASE entry \notin Pin
  BY <1>2 DEF SlipDetected, SlipRefused, Valid
<1> QED BY <1>1, <1>2

(* Two neighbours of a valid PIN swapped make it invalid, unless they       *)
(* differ by five.                                                          *)
LEMMA OneSwap == \A p \in Pin : SwapRefused(p)
<1> SUFFICES ASSUME NEW p \in Pin, Valid(p), NEW i \in 1..7, Valid(Swapped(p, i))
             PROVE  p[i] = p[i + 1] \/ p[i] = p[i + 1] + 5 \/ p[i + 1] = p[i] + 5
  BY DEF SwapRefused
<1> DEFINE q == Swapped(p, i)
           r == Weighted(p) + p[8]
           s == Weighted(q) + q[8]
<1>1. q \in Pin
  BY DEF Pin, Swapped
<1>2. r % 10 = 0 /\ s % 10 = 0 /\ r \in Nat /\ s \in Nat
  <2>1. p[8] \in Nat /\ q[8] \in Nat
    BY <1>1 DEF Pin, Digit
  <2>2. Weighted(p) \in Nat /\ Weighted(q) \in Nat /\ (Weighted(p) + p[8]) % 10 = 0 /\ (Weighted(q) + q[8]) % 10 = 0
    BY <1>1, ValidSum
  <2> QED BY <2>1, <2>2
<1>3. s = r + 2 * (p[i] - p[i + 1]) \/ s = r - 2 * (p[i] - p[i + 1])
  BY SumFollowsSwap
<1>4. p[i] \in 0..9 /\ p[i + 1] \in 0..9
  BY DEF Pin, Digit
<1> HIDE DEF r, s
<1> QED BY <1>2, <1>3, <1>4

(* Two neighbours typed in the wrong order are detected unless they differ  *)
(* by five.                                                                 *)
THEOREM SwapsAreDetected == SwapDetected
<1>1. CASE entry \in Pin
  BY <1>1, OneSwap DEF SwapDetected
<1>2. CASE entry \notin Pin
  BY <1>2 DEF SwapDetected, SwapRefused, Valid
<1> QED BY <1>1, <1>2

(* readline takes an input without an inner newline as a whole. *)
LEMMA LineIsAll ==
  ASSUME NEW s \in Seq(Nat), NEW n \in 1..10, Len(s) = n, \A i \in 1..9 : i < n => s[i] # Newline
  PROVE  Line(s) = s
<1> DEFINE ends == {i \in 1..Len(s) : i = 10 \/ i = Len(s) \/ s[i] = Newline}
<1>1. ends = {n}
  <2>1. ASSUME NEW i \in 1..n PROVE (i = 10 \/ i = n \/ s[i] = Newline) <=> i = n
    <3>1. i = n \/ (i \in 1..9 /\ i < n /\ i # 10)
      OBVIOUS
    <3> QED BY <3>1
  <2>2. n \in 1..n
    OBVIOUS
  <2> QED BY <2>1, <2>2
<1>2. (CHOOSE i \in ends : \A j \in ends : i <= j) = n
  <2> HIDE DEF ends
  <2> QED BY <1>1
<1>3. SubSeq(s, 1, n) = s
  BY SubSeqFull
<1> QED BY <1>2, <1>3 DEF Line

(* A valid entry is a sequence of eight digits. *)
LEMMA EntrySeq ==
  ASSUME Valid(entry)
  PROVE entry \in Seq(Nat) /\ Len(entry) = 8 /\ \A i \in 1..8 : entry[i] \in Digit
<1>1. entry \in [1..8 -> Digit]
  BY DEF Valid, Pin
<1>2. entry \in [1..8 -> Nat]
  BY <1>1 DEF Digit
<1>3. entry \in Seq(Nat)
  BY <1>2, SeqDef
<1>4. DOMAIN entry = 1..8 /\ DOMAIN entry = 1..Len(entry) /\ Len(entry) \in Nat
  BY <1>2, <1>3, LenProperties
<1>5. Len(entry) = 8
  BY <1>4
<1> QED BY <1>1, <1>3, <1>5

(* What a short input is after one more symbol. *)
LEMMA AppendKnown ==
  ASSUME NEW s \in Seq(Nat), NEW d \in Nat, NEW n \in 0..9, Len(s) = n
  PROVE  /\ Append(s, d) \in Seq(Nat) /\ Len(Append(s, d)) = n + 1
         /\ Append(s, d)[n + 1] = d
         /\ \A i \in 1..n : Append(s, d)[i] = s[i]
<1> QED BY AppendProperties

(* What is accepted on the standard input is the PIN and its newline, for   *)
(* every PIN: with a digit left out or typed twice there is no PIN          *)
(* (read_pairing_pin_stdin, pairing.py:45).                                 *)
THEOREM LinesAreWhole == WholeLine
<1> SUFFICES ASSUME Valid(entry)
             PROVE  /\ Accepted(Append(entry, Newline))
                    /\ ~Accepted(entry)
                    /\ \A d \in Digit : ~Accepted(Append(Append(entry, d), Newline))
                    /\ ~Accepted(Append(SubSeq(entry, 1, 7), Newline))
  BY DEF WholeLine
<1>1. entry \in Seq(Nat) /\ Len(entry) = 8 /\ \A i \in 1..8 : entry[i] \in Digit
  BY EntrySeq
<1>2. Newline \in Nat /\ Newline \notin Digit
  BY DEF Newline, Digit
<1>3. Accepted(Append(entry, Newline))
  <2> DEFINE s == Append(entry, Newline)
  <2>1. s \in Seq(Nat) /\ Len(s) = 9 /\ s[9] = Newline /\ \A i \in 1..8 : s[i] = entry[i]
    BY <1>1, <1>2, AppendKnown
  <2> HIDE DEF s
  <2>2. Line(s) = s
    <3>1. 9 \in 1..10 /\ \A i \in 1..9 : i < 9 => s[i] # Newline
      BY <2>1, <1>1, <1>2
    <3> QED BY <3>1, <2>1, LineIsAll
  <2>3. SubSeq(s, 1, 8) = entry
    <3>1. \A i \in 1..8 : s[i] \in Nat
      BY <2>1, <1>1 DEF Digit
    <3>2. SubSeq(s, 1, 8) \in Seq(Nat) /\ Len(SubSeq(s, 1, 8)) = 8
            /\ \A i \in 1..8 : SubSeq(s, 1, 8)[i] = s[i]
      BY <3>1, SubSeqProperties
    <3> QED BY <3>2, <2>1, <1>1, SeqEqual
  <2>4. Accepted(s)
    <3>1. Len(s) - 1 = 8 /\ Len(s) \in 1..9
      BY <2>1
    <3> QED BY <3>1, <2>1, <2>2, <2>3 DEF Accepted
  <2> QED BY <2>4 DEF s
<1>4. ~Accepted(entry)
  <2>1. Line(entry) = entry
    <3>1. 8 \in 1..10 /\ \A i \in 1..9 : i < 8 => entry[i] # Newline
      BY <1>1, <1>2
    <3> QED BY <3>1, <1>1, LineIsAll
  <2>2. entry[Len(entry)] # Newline
    BY <1>1, <1>2
  <2> QED BY <2>1, <2>2 DEF Accepted
<1>5. ASSUME NEW d \in Digit PROVE ~Accepted(Append(Append(entry, d), Newline))
  <2> DEFINE e == Append(entry, d)
             s == Append(e, Newline)
  <2>1. e \in Seq(Nat) /\ Len(e) = 9 /\ \A i \in 1..9 : e[i] \in Digit
    <3>1. d \in Nat
      BY DEF Digit
    <3>2. Len(e) = 9 /\ e \in Seq(Nat) /\ e[9] = d /\ \A i \in 1..8 : e[i] = entry[i]
      BY <3>1, <1>1, AppendKnown
    <3> QED BY <3>2, <1>1
  <2> HIDE DEF e
  <2>2. s \in Seq(Nat) /\ Len(s) = 10 /\ \A i \in 1..9 : s[i] \in Digit
    BY <2>1, <1>2, AppendKnown
  <2> HIDE DEF s
  <2>3. Line(s) = s
    <3>1. 10 \in 1..10 /\ \A i \in 1..9 : i < 10 => s[i] # Newline
      BY <2>2, <1>2
    <3> QED BY <3>1, <2>2, LineIsAll
  <2>4. ~Accepted(s)
    <3>1. Len(s) \notin 1..9
      BY <2>2
    <3> QED BY <3>1, <2>3 DEF Accepted
  <2> QED BY <2>4 DEF s, e
<1>6. ~Accepted(Append(SubSeq(entry, 1, 7), Newline))
  <2> DEFINE e == SubSeq(entry, 1, 7)
             s == Append(e, Newline)
  <2>1. e \in Seq(Nat) /\ Len(e) = 7 /\ \A i \in 1..7 : e[i] \in Digit
    <3>1. \A i \in 1..7 : entry[i] \in Nat
      BY <1>1 DEF Digit
    <3>2. e \in Seq(Nat) /\ Len(e) = 7 /\ \A i \in 1..7 : e[i] = entry[i]
      BY <3>1, SubSeqProperties
    <3> QED BY <3>2, <1>1
  <2> HIDE DEF e
  <2>2. s \in Seq(Nat) /\ Len(s) = 8 /\ \A i \in 1..7 : s[i] \in Digit
    BY <2>1, <1>2, AppendKnown
  <2> HIDE DEF s
  <2>3. Line(s) = s
    <3>1. 8 \in 1..10 /\ \A i \in 1..9 : i < 8 => s[i] # Newline
      BY <2>2, <1>2
    <3> QED BY <3>1, <2>2, LineIsAll
  <2>4. SubSeq(s, 1, 7) \notin Pin
    <3>1. \A i \in 1..7 : s[i] \in Nat
      BY <2>2 DEF Digit
    <3>2. SubSeq(s, 1, 7) \in Seq(Nat) /\ Len(SubSeq(s, 1, 7)) = 7
      BY <3>1, SubSeqProperties
    <3>3. DOMAIN SubSeq(s, 1, 7) = 1..7
      BY <3>2, LenProperties
    <3>4. 1..7 # 1..8
      <4>1. 8 \in 1..8 /\ 8 \notin 1..7
        OBVIOUS
      <4> QED BY <4>1
    <3> QED BY <3>3, <3>4 DEF Pin
  <2>5. ~Accepted(s)
    <3>1. Len(s) - 1 = 7
      BY <2>2
    <3> QED BY <3>1, <2>3, <2>4 DEF Accepted, Valid
  <2> QED BY <2>5 DEF s, e
<1> QED BY <1>3, <1>4, <1>5, <1>6

(* Every usual slip of a user is told, for every PIN. *)
THEOREM TyposAreDetected == TyposDetected
<1> QED BY SlipsAreDetected, SwapsAreDetected, LinesAreWhole DEF TyposDetected

-----------------------------------------------------------------------------
(* The inputs of the readings *)

(* What a reader is given is of its kind. *)
Typed == /\ Read("request") => input \in MCRequests
         /\ Read("host") => input \in MCHosts
         /\ Read("peers") => input \in MCPeers
         /\ Read("bytes") => input \in MCBytes
         /\ Read("status") => input \in MCStatuses
         /\ Read("progress") => \E n \in Nat : input = <<n>>
         /\ reader = "wfd" => input \in Seq(Messages)

LEMMA InputsTyped == Spec => []Typed
<1>1. Init => Typed
  BY DEF Init, Read, Typed
<1>2. Typed /\ [Next]_<<reader, input, entry>> => Typed'
  <2> SUFFICES ASSUME Typed, [Next]_<<reader, input, entry>> PROVE Typed'
    OBVIOUS
  <2>1. CASE ReadWfd
    BY <2>1 DEF ReadWfd, Typed, Read
  <2>2. CASE ReadProgress
    <3>1. {<<n>> : n \in 1..40} \subseteq {<<n>> : n \in Nat}
      OBVIOUS
    <3> QED BY <2>2, <3>1 DEF ReadProgress, Reading, Typed, Read
  <2>3. CASE ReadRequest \/ ReadStatus
    BY <2>3 DEF ReadRequest, ReadStatus, Reading, Typed, Read
  <2>4. CASE ReadHost \/ ReadPeers \/ ReadBytes
    BY <2>4 DEF ReadHost, ReadPeers, ReadBytes, Reading, Typed, Read
  <2>5. CASE TypePin \/ UNCHANGED <<reader, input, entry>>
    BY <2>5 DEF TypePin, Typed, Read
  <2> QED BY <2>1, <2>2, <2>3, <2>4, <2>5 DEF Next
<1> QED BY <1>1, <1>2, PTL DEF Spec

-----------------------------------------------------------------------------
(* Numbers: the least, and how many *)

(* A set of naturals that is not empty has a least element. *)
LEMMA LeastOf ==
  ASSUME NEW S, S \subseteq Nat, S # {}
  PROVE  \E i \in S : \A j \in S : i <= j
<1>1. PICK i \in S : \A j \in S : <<j, i>> \notin OpToRel(<, Nat)
  BY NatLessThanWellFounded, WFMin, Zenon
<1>2. \A j \in S : ~(j < i)
  BY <1>1 DEF OpToRel
<1> QED BY <1>2

(* A set of d numbers at most. *)
LEMMA Cardinals ==
  ASSUME NEW d \in Nat, NEW R, R \in SUBSET (1..d)
  PROVE  /\ IsFiniteSet(R) /\ Cardinality(R) \in Nat /\ Cardinality(R) <= d
         /\ R = 1..d => Cardinality(R) = d
<1>1. 1 \in Int /\ d \in Int
  OBVIOUS
<1>2. IsFiniteSet(1..d) /\ Cardinality(1..d) = IF 1 > d THEN 0 ELSE d - 1 + 1
  BY <1>1, FS_Interval, Zenon
<1>3. Cardinality(1..d) = d
  BY <1>2
<1>4. IsFiniteSet(R) /\ Cardinality(R) <= Cardinality(1..d)
  BY <1>2, FS_Subset, Zenon
<1>5. Cardinality(R) \in Nat
  BY <1>4, FS_CardinalityType, Zenon
<1> QED BY <1>3, <1>4, <1>5

-----------------------------------------------------------------------------
(* HostReadiness: what readiness, plan and recovery make of a snapshot *)

(* What a snapshot is taken of: any number of devices with names of their   *)
(* own, any of the three queries failing, any other answer.                 *)
IsHost(h) ==
  /\ Len(h.devices) \in Nat /\ h.down \subseteq {"nmcli", "hyprctl", "pactl"}
  /\ \A i, j \in 1..Len(h.devices) : h.devices[i].name = h.devices[j].name => i = j

(* The links of a snapshot belong to rows of the list, one each; a complete *)
(* list has the link of every printable adapter.                            *)
LEMMA SnapshotFacts ==
  ASSUME NEW h, IsHost(h)
  PROVE  LET s    == Snapshot(h)
             d    == h.devices
             rows == DOMAIN s.links
         IN  /\ s.missing = h.missing /\ s.render = h.render
             /\ rows \subseteq 1..Len(d)
             /\ \A k \in rows : s.links[k] = Link(d[k])
             /\ "nmcli" \in h.down => rows = {}
             /\ "hyprctl" \in h.down => s.monitors = {}
             /\ "pactl" \in h.down => s.sink = None
             /\ s.complete => \A i \in 1..Len(d) :
                  d[i].type = "wifi" /\ d[i].printable => i \in rows
             /\ \A k \in rows : d[k].link = Failed => d[k].name \in s.diagnostics
<1> DEFINE s     == Snapshot(h)
           rows0 == IF "nmcli" \in h.down THEN <<>> ELSE h.devices
           wifi  == {k \in Devices(rows0) : rows0[k].type = "wifi"}
           failures == LinkFailures({rows0[k] : k \in wifi})
<1>1. /\ s.missing = h.missing /\ s.render = h.render
      /\ s.complete = ("nmcli" \notin h.down /\ Complete(rows0))
      /\ s.links = [k \in wifi |-> Link(rows0[k])]
      /\ "hyprctl" \in h.down => s.monitors = {}
      /\ "pactl" \in h.down => s.sink = None
      /\ s.diagnostics = failures \cup Noted(failures, h.down)
  BY DEF Snapshot
<1>2. "nmcli" \in h.down => wifi = {}
  BY DEF Devices, WifiRows
<1>3. "nmcli" \notin h.down => rows0 = h.devices
  OBVIOUS
<1>4. wifi \subseteq 1..Len(rows0) /\ \A k \in wifi : rows0[k].type = "wifi"
  BY DEF Devices, WifiRows
<1>5. ASSUME Complete(rows0), NEW i \in 1..Len(rows0), rows0[i].type = "wifi", rows0[i].printable
      PROVE  i \in wifi
  BY <1>5 DEF Complete, Devices, WifiRows
<1>6. ASSUME NEW k \in wifi, rows0[k].link = Failed PROVE rows0[k].name \in failures
  BY <1>6 DEF LinkFailures
<1> HIDE DEF s, rows0, wifi, failures
<1>7. DOMAIN s.links = wifi /\ \A k \in wifi : s.links[k] = Link(rows0[k])
  BY <1>1
<1>8. CASE "nmcli" \in h.down
  BY <1>1, <1>2, <1>7, <1>8 DEF s
<1>9. CASE "nmcli" \notin h.down
  BY <1>1, <1>3, <1>4, <1>5, <1>6, <1>7, <1>9 DEF s
<1> QED BY <1>8, <1>9

(* For every host. *)
LEMMA HostsAlwaysTold ==
  ASSUME NEW h, IsHost(h)
  PROVE  ReadyCanPlan(h) /\ FailureShows(h) /\ RecoverySeesAll(h)
<1> DEFINE s    == Snapshot(h)
           d    == h.devices
           rows == DOMAIN s.links
<1>1. /\ s.missing = h.missing /\ s.render = h.render
      /\ rows \subseteq 1..Len(d)
      /\ \A k \in rows : s.links[k] = Link(d[k])
      /\ "nmcli" \in h.down => rows = {}
      /\ "hyprctl" \in h.down => s.monitors = {}
      /\ "pactl" \in h.down => s.sink = None
      /\ s.complete => \A i \in 1..Len(d) :
           d[i].type = "wifi" /\ d[i].printable => i \in rows
      /\ \A k \in rows : d[k].link = Failed => d[k].name \in s.diagnostics
  BY SnapshotFacts, Zenon
<1> HIDE DEF s
<1>2. \A k \in rows : s.links[k].interface = d[k].name /\ (s.links[k].connected => d[k].link # Failed)
  <2> SUFFICES ASSUME NEW k \in rows
               PROVE  s.links[k].interface = d[k].name /\ (s.links[k].connected => d[k].link # Failed)
    OBVIOUS
  <2>1. s.links[k] = Link(d[k])
    BY <1>1
  <2>2. Link(d[k]).interface = d[k].name /\ Link(d[k]).connected = (d[k].link \in {"2 GHz", "5 GHz"})
    BY DEF Link
  <2> QED BY <2>1, <2>2 DEF Failed
<1>3. ASSUME Ready(s)
      PROVE  /\ s.missing \cap Companion = {} /\ s.monitors # {} /\ s.sink # None
             /\ \E k \in rows : s.links[k].connected
  BY <1>3 DEF Ready, HostIssues, SetupIssues
<1>4. ASSUME Ready(s)
      PROVE  \E k \in rows : s.links[k].connected /\ s.links[k].interface = Plan(s).interface
  <2>1. Candidates(s) \subseteq Nat /\ Candidates(s) # {}
    BY <1>1, <1>3, <1>4 DEF Candidates
  <2>2. \E k \in Candidates(s) : \A j \in Candidates(s) : k <= j
    BY <2>1, LeastOf, Zenon
  <2>3. First(Candidates(s)) \in Candidates(s)
    BY <2>2, Zenon DEF First
  <2>4. Plan(s).interface = s.links[First(Candidates(s))].interface
    BY DEF Plan
  <2> QED BY <2>3, <2>4 DEF Candidates
<1>5. ReadyCanPlan(h)
  <2> SUFFICES ASSUME Ready(s)
               PROVE  /\ CanPlan(s) /\ Probe(s) = Plan(s).encoder
                      /\ \E k \in rows : s.links[k].connected /\ s.links[k].interface = Plan(s).interface
    BY Zenon DEF ReadyCanPlan, s
  <2>1. Planned \subseteq Companion /\ "ffmpeg" \in Planned
    BY DEF Planned, Companion, Commands
  <2>2. CanPlan(s)
    BY <1>3, <2>1 DEF CanPlan, Candidates
  <2>3. Probe(s) = Plan(s).encoder
    BY <1>3, <2>1 DEF Probe, Plan
  <2> QED BY <1>4, <2>2, <2>3
<1>6. FailureShows(h)
  <2> SUFFICES ASSUME Ready(s)
               PROVE  /\ h.down = {}
                      /\ \A i \in 1..Len(d) :
                           d[i].type = "wifi" /\ d[i].link = Failed /\ d[i].printable
                             => ~s.complete \/ (d[i].name \in s.diagnostics /\ d[i].name # Plan(s).interface)
    BY Zenon DEF FailureShows, s
  <2>1. h.down = {}
    BY <1>1, <1>3 DEF IsHost
  <2>2. ASSUME NEW i \in 1..Len(d), d[i].type = "wifi", d[i].link = Failed, d[i].printable, s.complete
        PROVE  d[i].name \in s.diagnostics /\ d[i].name # Plan(s).interface
    <3>1. i \in rows
      BY <1>1, <2>2
    <3>2. PICK k \in rows : s.links[k].connected /\ s.links[k].interface = Plan(s).interface
      BY <1>4
    <3>3. k # i /\ Plan(s).interface = d[k].name
      BY <1>2, <2>2, <3>2
    <3>4. k \in 1..Len(d)
      BY <1>1
    <3> QED BY <1>1, <2>2, <3>1, <3>3, <3>4 DEF IsHost
  <2> QED BY <2>1, <2>2
<1>7. RecoverySeesAll(h)
  <2> SUFFICES ASSUME s.complete, NEW i \in 1..Len(d), d[i].type = "wifi", d[i].printable
               PROVE  d[i].name \in Recoverable(s)
    BY Zenon DEF RecoverySeesAll, s
  <2>1. i \in rows /\ s.links[i].interface = d[i].name
    BY <1>1, <1>2
  <2> QED BY <2>1, Zenon DEF Recoverable
<1> QED BY <1>5, <1>6, <1>7

(* The hosts of the run are such hosts. *)
LEMMA HostsTyped == \A h \in MCHosts : IsHost(h)
<1>1. ASSUME NEW h \in Hosts0, NEW d
      PROVE  /\ h.down \subseteq {"nmcli", "hyprctl", "pactl"}
             /\ [h EXCEPT !.devices = d].devices = d /\ [h EXCEPT !.devices = d].down = h.down
  <2> DEFINE fields == {"missing", "engine", "helper", "devices", "down", "monitors", "sink", "render"}
             Is(g) == g = [x \in fields |-> g[x]]
  <2>1. GoodHost.down = {} /\ Is(GoodHost)
    BY DEF GoodHost
  <2>2. CASE h = GoodHost
    BY <2>1, <2>2
  <2>3. CASE h \in {[GoodHost EXCEPT !.missing = {c}, !.down = {c} \ {"fluxcast", "ffmpeg"}] : c \in Commands}
    <3>1. PICK c \in Commands : h = [GoodHost EXCEPT !.missing = {c}, !.down = {c} \ {"fluxcast", "ffmpeg"}]
      BY <2>3
    <3>2. h.down = {c} \ {"fluxcast", "ffmpeg"} /\ Is(h)
      BY <2>1, <3>1
    <3>3. c \in {"fluxcast", "nmcli", "ffmpeg", "pactl", "hyprctl"}
      BY DEF Commands
    <3> HIDE DEF fields
    <3> QED BY <3>2, <3>3 DEF fields
  <2>4. CASE h \in {[GoodHost EXCEPT !.down = {q}] : q \in {"nmcli", "hyprctl", "pactl"}}
    BY <2>1, <2>4
  <2>5. CASE h \in {[GoodHost EXCEPT !.engine = "other"], [GoodHost EXCEPT !.helper = "bad"],
                    [GoodHost EXCEPT !.render = FALSE], [GoodHost EXCEPT !.sink = None]}
    BY <2>1, <2>5
  <2>6. CASE h \in {[GoodHost EXCEPT !.monitors = m] : m \in {{}, {[name |-> "m2", focused |-> FALSE]}}}
    BY <2>1, <2>6
  <2> QED BY <2>2, <2>3, <2>4, <2>5, <2>6, Zenon DEF Hosts0
<1>2. ASSUME NEW d \in DeviceLists
      PROVE  /\ Len(d) \in Nat
             /\ \A i, j \in 1..Len(d) : d[i].name = d[j].name => i = j
  <2>1. \A n : \A r \in Row(n) : r.name = n
    BY DEF Row
  <2>2. CASE d = <<>>
    BY <2>2
  <2>3. CASE d \in {<<a>> : a \in Row("w1")}
    BY <2>3
  <2>4. CASE d \in {<<a, b>> : a \in Row("w1"), b \in Row("w2")}
    <3>1. Len(d) = 2 /\ d[1].name = "w1" /\ d[2].name = "w2"
      BY <2>1, <2>4
    <3>2. 1..Len(d) = {1, 2} /\ "w1" # "w2"
      BY <3>1
    <3> QED BY <3>1, <3>2
  <2>5. CASE d \in {<<a, b, c>> : a \in Row("w1"), b \in Row("w2"), c \in Row("w3")}
    <3>1. Len(d) = 3 /\ d[1].name = "w1" /\ d[2].name = "w2" /\ d[3].name = "w3"
      BY <2>1, <2>5
    <3>2. 1..Len(d) = {1, 2, 3} /\ "w1" # "w2" /\ "w1" # "w3" /\ "w2" # "w3"
      BY <3>1
    <3> QED BY <3>1, <3>2
  <2>6. \/ d = <<>> \/ d \in {<<a>> : a \in Row("w1")}
        \/ d \in {<<a, b>> : a \in Row("w1"), b \in Row("w2")}
        \/ d \in {<<a, b, c>> : a \in Row("w1"), b \in Row("w2"), c \in Row("w3")}
    BY DEF DeviceLists
  <2> QED BY <2>2, <2>3, <2>4, <2>5, <2>6
<1>3. ASSUME NEW h \in Hosts0, NEW d \in DeviceLists PROVE IsHost([h EXCEPT !.devices = d])
  <2> DEFINE g == [h EXCEPT !.devices = d]
  <2>1. g.devices = d /\ g.down \subseteq {"nmcli", "hyprctl", "pactl"}
    BY <1>1
  <2> HIDE DEF g
  <2>2. IsHost(g)
    BY <1>2, <2>1 DEF IsHost
  <2> QED BY <2>2 DEF g
<1> QED BY <1>3 DEF MCHosts

(* Whatever the devices and answers of the host, and whatever the limits of *)
(* the lists: what is ready can be planned, a failed query shows, and a     *)
(* complete list leaves recovery no adapter out (discover_host, _readiness, *)
(* build_launch_plan and the adapters of recover).                          *)
THEOREM HostsAreTold ==
  /\ \A h : IsHost(h) => ReadyCanPlan(h) /\ FailureShows(h) /\ RecoverySeesAll(h)
  /\ Spec => []HostTold
<1>1. \A h : IsHost(h) => ReadyCanPlan(h) /\ FailureShows(h) /\ RecoverySeesAll(h)
  BY HostsAlwaysTold, Zenon
<1>2. Typed => HostTold
  BY <1>1, HostsTyped, Zenon DEF Typed, HostTold
<1>3. Spec => []HostTold
  BY <1>2, InputsTyped, PTL
<1> QED BY <1>1, <1>3

-----------------------------------------------------------------------------
(* ReceiverList: the listing of a scan *)

(* What a scan reports: any number of peers with any bytes. *)
Advertised(names) == [text : Seq(Nat), ies : Seq(Nat), address : Nat, name : names]
IsScan(peers) == \E names : peers \in Seq(Advertised(names))

(* Exchanging two peers of a scan leaves a scan. *)
Exchanged(peers, i, j) == [peers EXCEPT ![i] = peers[j], ![j] = peers[i]]

LEMMA StaysScan ==
  ASSUME NEW peers, IsScan(peers), NEW i \in 1..Len(peers), NEW j \in 1..Len(peers)
  PROVE  /\ Len(peers) \in Nat /\ IsScan(Exchanged(peers, i, j))
         /\ Len(Exchanged(peers, i, j)) = Len(peers)
         /\ \A k \in 1..Len(peers) :
              Exchanged(peers, i, j)[k] = IF k = j THEN peers[i] ELSE IF k = i THEN peers[j] ELSE peers[k]
<1> DEFINE one == [peers EXCEPT ![i] = peers[j]]
<1>0. PICK names : peers \in Seq(Advertised(names))
  BY Zenon DEF IsScan
<1>1. peers \in Seq(Advertised(names)) /\ Len(peers) \in Nat
  BY <1>0
<1>2. \A k \in 1..Len(peers) : peers[k] \in Advertised(names)
  BY <1>1
<1>3. /\ one \in Seq(Advertised(names)) /\ Len(one) = Len(peers)
      /\ \A k \in 1..Len(peers) : one[k] = IF k = i THEN peers[j] ELSE peers[k]
  BY <1>1, <1>2, ExceptSeq
<1> DEFINE two == [one EXCEPT ![j] = peers[i]]
<1>4. Exchanged(peers, i, j) = two
  BY DEF Exchanged
<1> HIDE DEF one
<1>5. /\ two \in Seq(Advertised(names)) /\ Len(two) = Len(peers)
      /\ \A k \in 1..Len(peers) : two[k] = IF k = j THEN peers[i] ELSE one[k]
  BY <1>2, <1>3, ExceptSeq
<1> HIDE DEF two
<1> QED BY <1>1, <1>3, <1>4, <1>5 DEF IsScan

(* The sort key puts peers with different addresses in a strict order. *)
LEMMA KeyOrders ==
  ASSUME NEW p, NEW q, NEW r, p.address \in Nat, q.address \in Nat, r.address \in Nat
  PROVE  /\ ~SortKey(p, p)
         /\ p.address # q.address => (SortKey(p, q) <=> ~SortKey(q, p))
         /\ SortKey(p, q) /\ SortKey(q, r) => SortKey(p, r)
<1>1. \A x : Rank(x) \in Nat
  BY DEF Rank
<1> QED BY <1>1 DEF SortKey

(* A listing that is not refused has each address once. *)
LEMMA AddressesDiffer ==
  ASSUME NEW peers, IsScan(peers), Distinct(peers)
  PROVE  /\ IsFiniteSet(Records(peers)) /\ Cardinality(Records(peers)) \in Nat
         /\ \A j, k \in Records(peers) : peers[j].address = peers[k].address => j = k
         /\ \A k \in Records(peers) : k \in 1..Len(peers) /\ peers[k].address \in Nat
<1> DEFINE R == Records(peers)
           T == {peers[k].address : k \in R}
           f == [k \in R |-> peers[k].address]
<1>1. Len(peers) \in Nat /\ R \in SUBSET (1..Len(peers))
  BY DEF IsScan, Records
<1>2. IsFiniteSet(R) /\ Cardinality(R) \in Nat
  BY <1>1, Cardinals, Zenon
<1>3. f \in Surjection(R, T)
  BY DEF Surjection
<1>4. Cardinality(T) = Cardinality(R)
  BY DEF Distinct
<1> HIDE DEF R, T
<1>5. f \in Injection(R, T)
  BY <1>2, <1>3, <1>4, FS_Surjection, Zenon
<1>6. \A j, k \in R : peers[j].address = peers[k].address => j = k
  BY <1>5 DEF Injection, IsInjective
<1>7. \A k \in R : peers[k].address \in Nat
  <2>1. PICK names : peers \in Seq(Advertised(names))
    BY Zenon DEF IsScan
  <2>2. \A k \in 1..Len(peers) : peers[k] \in Advertised(names)
    BY <2>1
  <2> QED BY <1>1, <2>2 DEF Advertised
<1> QED BY <1>1, <1>2, <1>6, <1>7 DEF R

(* Then the records take the places 1 to n, one each. *)
NoLater(peers, k) == {j \in Records(peers) : SortKey(peers[j], peers[k]) \/ j = k}

LEMMA PlacesTaken ==
  ASSUME NEW peers, IsScan(peers), Distinct(peers)
  PROVE  LET R == Records(peers)
             n == Cardinality(R)
         IN  /\ \A k \in R : Place(peers, k) = Cardinality(NoLater(peers, k)) /\ Place(peers, k) \in 1..n
             /\ \A j, k \in R : Place(peers, j) = Place(peers, k) => j = k
             /\ \A m \in 1..n : \E k \in R : Place(peers, k) = m
<1> DEFINE R == Records(peers)
           n == Cardinality(R)
           U(k) == NoLater(peers, k)
           Less(j, k) == SortKey(peers[j], peers[k])
<1>1. /\ IsFiniteSet(R) /\ n \in Nat
      /\ \A j, k \in R : peers[j].address = peers[k].address => j = k
      /\ \A k \in R : k \in 1..Len(peers) /\ peers[k].address \in Nat
  BY AddressesDiffer, Zenon
<1>2. /\ \A k \in R : ~Less(k, k)
      /\ \A j, k \in R : j # k => (Less(j, k) <=> ~Less(k, j))
      /\ \A i, j, k \in R : Less(i, j) /\ Less(j, k) => Less(i, k)
  BY <1>1, KeyOrders, Zenon
<1>3. ASSUME NEW k \in R
      PROVE  /\ Place(peers, k) = Cardinality(U(k)) /\ U(k) \in SUBSET R /\ k \in U(k)
             /\ IsFiniteSet(U(k)) /\ Cardinality(U(k)) \in 1..n
  <2>1. {j \in R : Less(j, k) \/ (~Less(k, j) /\ j <= k)} = U(k)
    <3>1. \A j \in R : (Less(j, k) \/ (~Less(k, j) /\ j <= k)) <=> (Less(j, k) \/ j = k)
      BY <1>1, <1>2
    <3> HIDE DEF Less
    <3> QED BY <3>1 DEF NoLater, Less
  <2>2. U(k) \in SUBSET R /\ k \in U(k)
    BY DEF NoLater
  <2>3. Place(peers, k) = Cardinality(U(k))
    BY <2>1 DEF Place
  <2> HIDE DEF U, R
  <2>4. IsFiniteSet(U(k)) /\ Cardinality(U(k)) <= n
    BY <1>1, <2>2, FS_Subset
  <2>5. Cardinality(U(k)) \in Nat /\ Cardinality(U(k)) # 0
    BY <2>2, <2>4, FS_CardinalityType, FS_EmptySet
  <2> QED BY <1>1, <2>2, <2>3, <2>4, <2>5
<1>4. ASSUME NEW j \in R, NEW k \in R, Less(j, k) PROVE Cardinality(U(j)) < Cardinality(U(k))
  <2>1. U(j) \subseteq U(k)
    BY <1>2, <1>4 DEF NoLater
  <2>2. k \notin U(j)
    BY <1>2, <1>4 DEF NoLater
  <2> HIDE DEF U, R
  <2>3. /\ Cardinality(U(j)) <= Cardinality(U(k))
        /\ Cardinality(U(k)) = Cardinality(U(j)) => U(k) = U(j)
    BY <1>3, <2>1, FS_Subset
  <2>4. Cardinality(U(j)) \in Nat /\ Cardinality(U(k)) \in Nat /\ k \in U(k)
    BY <1>3
  <2> QED BY <2>2, <2>3, <2>4
<1> HIDE DEF U, Less, R, n
<1>5. \A j, k \in R : Place(peers, j) = Place(peers, k) => j = k
  <2> SUFFICES ASSUME NEW j \in R, NEW k \in R, Place(peers, j) = Place(peers, k), j # k PROVE FALSE
    OBVIOUS
  <2>1. Less(j, k) \/ Less(k, j)
    BY <1>2
  <2>2. Cardinality(U(j)) \in Int /\ Cardinality(U(k)) \in Int /\ Cardinality(U(j)) = Cardinality(U(k))
    BY <1>3
  <2> QED BY <1>4, <2>1, <2>2
<1>6. \A m \in 1..n : \E k \in R : Place(peers, k) = m
  <2> DEFINE f == [k \in R |-> Place(peers, k)]
  <2>1. f \in [R -> 1..n]
    BY <1>3
  <2>2. f \in Injection(R, 1..n)
    BY <1>5, <2>1 DEF Injection, IsInjective
  <2>3. 1..n \in SUBSET (1..n)
    OBVIOUS
  <2>4. IsFiniteSet(1..n) /\ Cardinality(1..n) = n
    BY <1>1, <2>3, Cardinals, Zenon
  <2> HIDE DEF f
  <2>5. f \in Surjection(R, 1..n)
    BY <2>2, <2>4, FS_Injection DEF n
  <2> QED BY <2>5 DEF Surjection, f
<1> QED BY <1>3, <1>5, <1>6 DEF U, R, n

(* The record at each place of the listing. *)
LEMMA SortedAt ==
  ASSUME NEW peers, IsScan(peers), Distinct(peers)
  PROVE  /\ Len(Sorted(peers)) = Cardinality(Records(peers))
         /\ Cardinality(Records(peers)) \in Nat
         /\ Sorted(peers) = [m \in 1..Cardinality(Records(peers)) |-> Sorted(peers)[m]]
         /\ \A k \in Records(peers) : Sorted(peers)[Place(peers, k)] = peers[k]
<1> DEFINE R == Records(peers)
           n == Cardinality(R)
<1>1. n \in Nat
  BY AddressesDiffer, Zenon
<1>2. Sorted(peers) = [m \in 1..n |-> peers[CHOOSE k \in R : Place(peers, k) = m]]
  BY DEF Sorted
<1>3. /\ \A k \in R : Place(peers, k) \in 1..n
      /\ \A j, k \in R : Place(peers, j) = Place(peers, k) => j = k
  BY PlacesTaken, Zenon
<1> HIDE DEF R, n
<1>4. Len(Sorted(peers)) = n
  BY <1>1, <1>2
<1>5. ASSUME NEW k \in R PROVE Sorted(peers)[Place(peers, k)] = peers[k]
  <2>1. (CHOOSE j \in R : Place(peers, j) = Place(peers, k)) = k
    BY <1>3
  <2> QED BY <1>2, <1>3, <2>1
<1>6. Sorted(peers) = [m \in 1..n |-> Sorted(peers)[m]]
  BY <1>2
<1> QED BY <1>1, <1>4, <1>5, <1>6 DEF R, n

(* For every scan: every sink is listed, once, and nothing else. *)
LEMMA AlwaysListed ==
  ASSUME NEW peers, IsScan(peers)
  PROVE  ListingComplete(peers)
<1> SUFFICES ASSUME Distinct(peers)
             PROVE  LET shown == [m \in 1..Len(Sorted(peers)) |-> Sorted(peers)[m].address]
                    IN  /\ IsInjective(shown)
                        /\ Range(shown) = {peers[k].address : k \in Records(peers)}
  BY DEF ListingComplete, Refused, Records
<1> DEFINE R == Records(peers)
           n == Cardinality(R)
           shown == [m \in 1..Len(Sorted(peers)) |-> Sorted(peers)[m].address]
<1>1. /\ Len(Sorted(peers)) = n
      /\ \A k \in R : Sorted(peers)[Place(peers, k)] = peers[k]
  BY SortedAt, Zenon
<1>2. /\ \A k \in R : Place(peers, k) \in 1..n
      /\ \A m \in 1..n : \E k \in R : Place(peers, k) = m
  BY PlacesTaken, Zenon
<1>3. \A j, k \in R : peers[j].address = peers[k].address => j = k
  BY AddressesDiffer, Zenon
<1> HIDE DEF R, n
<1>4. DOMAIN shown = 1..n /\ \A k \in R : shown[Place(peers, k)] = peers[k].address
  BY <1>1, <1>2
<1> HIDE DEF shown
<1>5. IsInjective(shown)
  BY <1>2, <1>3, <1>4 DEF IsInjective
<1>6. Range(shown) = {peers[k].address : k \in R}
  BY <1>2, <1>4 DEF Range
<1> QED BY <1>5, <1>6 DEF shown, R

(* A renaming that is its own inverse keeps the size of a set. *)
Renames(S, to, A, B) ==
  /\ \A x \in S : to[x] \in S /\ to[to[x]] = x
  /\ A \subseteq S /\ B \subseteq S /\ \A x \in S : x \in A <=> to[x] \in B

LEMMA Renamed ==
  ASSUME NEW S, NEW to, NEW A, NEW B, IsFiniteSet(A), Renames(S, to, A, B)
  PROVE  Cardinality(B) = Cardinality(A)
<1> DEFINE g == [x \in A |-> to[x]]
<1>0. /\ \A x \in S : to[x] \in S /\ to[to[x]] = x
      /\ A \subseteq S /\ B \subseteq S /\ \A x \in S : x \in A <=> to[x] \in B
  BY DEF Renames
<1>1. \A x \in A : g[x] = to[x] /\ g[x] \in B
  BY <1>0
<1>2. g \in [A -> B]
  BY <1>1
<1> HIDE DEF g
<1>3. \A x, y \in A : g[x] = g[y] => x = y
  BY <1>0, <1>1
<1>4. ASSUME NEW y \in B PROVE \E x \in A : g[x] = y
  <2>1. to[y] \in S /\ to[to[y]] = y
    BY <1>0
  <2>2. to[y] \in A
    BY <1>0, <2>1
  <2> QED BY <1>1, <2>1, <2>2
<1>5. DOMAIN g = A
  BY <1>2
<1>6. g \in Bijection(A, B)
  BY <1>2, <1>3, <1>4, <1>5, Zenon DEF Bijection, Injection, Surjection, IsInjective
<1>7. ExistsBijection(A, B)
  BY <1>6, Zenon DEF ExistsBijection
<1> QED BY <1>7, FS_Bijection, Zenon

(* Exchanging two peers moves the records and keeps their places. *)
KeepsPlaces(peers, other) ==
  /\ Cardinality(Records(other)) = Cardinality(Records(peers))
  /\ \A k \in Records(other) : \E l \in Records(peers) :
       other[k] = peers[l] /\ Place(other, k) = Place(peers, l)

LEMMA PlacesKept ==
  ASSUME NEW peers, IsScan(peers), NEW i \in 1..Len(peers), NEW j \in 1..Len(peers),
         Distinct(peers), Distinct(Exchanged(peers, i, j))
  PROVE  KeepsPlaces(peers, Exchanged(peers, i, j))
<1> DEFINE other == Exchanged(peers, i, j)
           to == [k \in 1..Len(peers) |-> IF k = i THEN j ELSE IF k = j THEN i ELSE k]
           R == Records(peers)
           Q == Records(other)
<1>1. /\ IsScan(other) /\ Len(other) = Len(peers) /\ Len(peers) \in Nat
      /\ Distinct(other)
  BY StaysScan, Zenon
<1>2. \A k \in 1..Len(peers) : to[k] \in 1..Len(peers) /\ to[to[k]] = k /\ other[k] = peers[to[k]]
  <2>1. \A k \in 1..Len(peers) :
          other[k] = IF k = j THEN peers[i] ELSE IF k = i THEN peers[j] ELSE peers[k]
    BY StaysScan, ZenonT(60)
  <2> HIDE DEF other
  <2> QED BY <2>1
<1> HIDE DEF to, other
<1>3. Q \subseteq 1..Len(peers) /\ R \subseteq 1..Len(peers)
  BY <1>1 DEF Records
<1>4. \A k \in 1..Len(peers) : (k \in Q <=> to[k] \in R) /\ (k \in R <=> to[k] \in Q)
  BY <1>1, <1>2 DEF Records
<1>5. IsFiniteSet(Q) /\ IsFiniteSet(R)
  BY <1>1, AddressesDiffer, Zenon
<1>6. Cardinality(Q) = Cardinality(R)
  <2> HIDE DEF Q, R
  <2> DEFINE S == 1..Len(peers)
  <2>1. Renames(S, to, Q, R)
    BY <1>2, <1>3, <1>4 DEF Renames
  <2> HIDE DEF S
  <2> QED BY <1>5, <2>1, Renamed, ZenonT(30)
<1>7. ASSUME NEW k \in Q PROVE to[k] \in R /\ other[k] = peers[to[k]] /\ Place(other, k) = Place(peers, to[k])
  <2>1. to[k] \in R /\ other[k] = peers[to[k]] /\ k \in 1..Len(peers)
    BY <1>2, <1>3, <1>4
  <2>2. Place(other, k) = Cardinality(NoLater(other, k)) /\ Place(peers, to[k]) = Cardinality(NoLater(peers, to[k]))
    BY <1>1, <2>1, PlacesTaken, Zenon
  <2>3. NoLater(other, k) \in SUBSET Q /\ NoLater(peers, to[k]) \in SUBSET R
    BY DEF NoLater
  <2>4. \A l \in 1..Len(peers) : (l \in NoLater(other, k) <=> to[l] \in NoLater(peers, to[k]))
    BY <1>2, <1>3, <1>4, <2>1 DEF NoLater
  <2> DEFINE A == NoLater(other, k)
             B == NoLater(peers, to[k])
  <2>8. /\ A \subseteq 1..Len(peers) /\ B \subseteq 1..Len(peers)
        /\ \A l \in 1..Len(peers) : l \in A <=> to[l] \in B
    BY <1>3, <2>3, <2>4
  <2> HIDE DEF A, B, Q, R
  <2> DEFINE S == 1..Len(peers)
  <2>5. Renames(S, to, A, B)
    BY <1>2, <2>8 DEF Renames
  <2>6. IsFiniteSet(A)
    BY <1>5, <2>3, FS_Subset DEF A
  <2> HIDE DEF S
  <2>7. Cardinality(A) = Cardinality(B)
    BY <2>5, <2>6, Renamed, Zenon
  <2> QED BY <2>1, <2>2, <2>7 DEF A, B
<1> QED BY <1>6, <1>7 DEF KeepsPlaces, other

(* For every scan and every two of its peers. *)
LEMMA OrderNeverShows ==
  ASSUME NEW peers, IsScan(peers)
  PROVE  OrderIrrelevant(peers)
<1> SUFFICES ASSUME NEW i \in 1..Len(peers), NEW j \in 1..Len(peers),
                    Distinct(peers), Distinct(Exchanged(peers, i, j))
             PROVE  Sorted(peers) = Sorted(Exchanged(peers, i, j))
  BY DEF OrderIrrelevant, Refused, Exchanged
<1> DEFINE other == Exchanged(peers, i, j)
<1> DEFINE n == Cardinality(Records(peers))
<1>1. IsScan(other) /\ Distinct(other)
  BY StaysScan, Zenon
<1>2. /\ Cardinality(Records(other)) = n
      /\ \A k \in Records(other) : \E l \in Records(peers) :
           other[k] = peers[l] /\ Place(other, k) = Place(peers, l)
  <2>1. KeepsPlaces(peers, other)
    BY PlacesKept, Zenon
  <2> QED BY <2>1, Zenon DEF KeepsPlaces
<1> HIDE DEF other
<1>3. /\ Sorted(peers) = [m \in 1..n |-> Sorted(peers)[m]]
      /\ Sorted(other) = [m \in 1..n |-> Sorted(other)[m]]
  BY <1>1, <1>2, SortedAt
<1>4. ASSUME NEW m \in 1..n PROVE Sorted(peers)[m] = Sorted(other)[m]
  <2>1. PICK k \in Records(other) : Place(other, k) = m
    BY <1>1, <1>2, PlacesTaken
  <2>2. PICK l \in Records(peers) : other[k] = peers[l] /\ Place(other, k) = Place(peers, l)
    BY <1>2
  <2>3. Sorted(other)[m] = other[k] /\ Sorted(peers)[m] = peers[l]
    BY <1>1, <2>1, <2>2, SortedAt
  <2> QED BY <2>2, <2>3
<1> HIDE DEF n
<1> QED BY <1>3, <1>4 DEF other

-----------------------------------------------------------------------------
(* ReceiverList: the bytes of a peer *)

(* One turn of the loop over the elements: rest is what comes of the next. *)
InfoAt(ies, engine, o, rest) ==
  IF ~Fits(ies, o) THEN NoInfo
  ELSE IF Passed(ies, o, engine) THEN rest
  ELSE IF ~engine /\ ElementLength(ies, o) # 6 THEN NoInfo
  ELSE [i \in 1..3 |-> 256 * ies[o + 1 + 2 * i] + ies[o + 2 + 2 * i]]

(* The loop goes forward, so its recursion has a solution: one that is right *)
(* on the last m offsets can be made right on one more.                      *)
LEMMA OffsetsGrow ==
  ASSUME NEW ies \in Seq(Nat), NEW o \in Nat, Fits(ies, o)
  PROVE  /\ ElementLength(ies, o) \in Nat /\ NextElement(ies, o) \in Nat
         /\ NextElement(ies, o) > o /\ o < Len(ies)
<1>1. o + 2 <= Len(ies) /\ Len(ies) \in Nat
  BY DEF Fits
<1>2. o + 1 \in 1..Len(ies) /\ o + 2 \in 1..Len(ies)
  BY <1>1
<1>3. ies[o + 1] \in Nat /\ ies[o + 2] \in Nat
  BY <1>2, ElementOfSeq
<1>4. ElementLength(ies, o) \in Nat
  BY <1>3 DEF ElementLength
<1> QED BY <1>1, <1>4 DEF NextElement

LEMMA InfoExists ==
  ASSUME NEW ies \in Seq(Nat), NEW engine \in BOOLEAN
  PROVE  \E f : f = [o \in Nat |-> InfoAt(ies, engine, o, f[NextElement(ies, o)])]
<1> DEFINE l == Len(ies)
           P(m, f) == \A o \in Nat : o + m > l => f[o] = InfoAt(ies, engine, o, f[NextElement(ies, o)])
           Bad == {m \in Nat : ~\E f : DOMAIN f = Nat /\ P(m, f)}
<1>0. l \in Nat
  OBVIOUS
<1>1. \E f : DOMAIN f = Nat /\ P(0, f)
  <2> DEFINE f == [o \in Nat |-> NoInfo]
  <2>1. ASSUME NEW o \in Nat, o + 0 > l PROVE f[o] = InfoAt(ies, engine, o, f[NextElement(ies, o)])
    <3>1. ~Fits(ies, o)
      BY <1>0, <2>1, OffsetsGrow
    <3> QED BY <3>1 DEF InfoAt
  <2> QED BY <2>1
<1>2. ASSUME NEW m \in Nat, NEW f, DOMAIN f = Nat, P(m, f)
      PROVE  \E g : DOMAIN g = Nat /\ P(m + 1, g)
  <2> DEFINE last == InfoAt(ies, engine, l - m, f[NextElement(ies, l - m)])
             g == [o \in Nat |-> IF o = l - m THEN last ELSE f[o]]
  <2>1. ASSUME NEW o \in Nat, o + (m + 1) > l
        PROVE  g[o] = InfoAt(ies, engine, o, g[NextElement(ies, o)])
    <3>1. g[o] = InfoAt(ies, engine, o, f[NextElement(ies, o)])
      <4>1. CASE o = l - m
        BY <4>1
      <4>2. CASE o # l - m
        <5>1. o + m > l
          BY <1>0, <2>1, <4>2
        <5> QED BY <1>2, <4>2, <5>1
      <4> QED BY <4>1, <4>2
    <3>2. CASE Fits(ies, o)
      <4>1. NextElement(ies, o) \in Nat /\ NextElement(ies, o) # l - m
        <5>1. NextElement(ies, o) \in Nat /\ NextElement(ies, o) > o
          BY <3>2, OffsetsGrow
        <5> QED BY <1>0, <2>1, <5>1
      <4>2. g[NextElement(ies, o)] = f[NextElement(ies, o)]
        BY <4>1
      <4> HIDE DEF g
      <4> QED BY <3>1, <4>2
    <3>3. CASE ~Fits(ies, o)
      <4> HIDE DEF g
      <4> QED BY <3>1, <3>3 DEF InfoAt
    <3> QED BY <3>2, <3>3
  <2>2. DOMAIN g = Nat
    OBVIOUS
  <2> HIDE DEF g
  <2> QED BY <2>1, <2>2
<1>3. Bad = {}
  <2> SUFFICES ASSUME Bad # {} PROVE FALSE
    OBVIOUS
  <2>1. Bad \subseteq Nat
    OBVIOUS
  <2>2. PICK m \in Bad : \A j \in Bad : m <= j
    BY <2>1, LeastOf, Zenon
  <2> HIDE DEF P
  <2>3. m # 0 /\ m \in Nat /\ ~\E f : DOMAIN f = Nat /\ P(m, f)
    BY <1>1, <2>2
  <2>4. m - 1 \in Nat /\ ~(m <= m - 1) /\ (m - 1) + 1 = m
    BY <2>3
  <2>5. \E f : DOMAIN f = Nat /\ P(m - 1, f)
    BY <2>2, <2>4
  <2> QED BY <1>2, <2>3, <2>4, <2>5
<1>4. PICK f : DOMAIN f = Nat /\ P(l + 1, f)
  <2> HIDE DEF P, l
  <2>1. l + 1 \in Nat
    BY <1>0
  <2> QED BY <1>3, <2>1
<1> DEFINE g == [o \in Nat |-> f[o]]
<1>5. \A o \in Nat : g[o] = InfoAt(ies, engine, o, f[NextElement(ies, o)])
  BY <1>0, <1>4
<1>6. \A o \in Nat : g[o] = InfoAt(ies, engine, o, g[NextElement(ies, o)])
  <2> SUFFICES ASSUME NEW o \in Nat PROVE g[o] = InfoAt(ies, engine, o, g[NextElement(ies, o)])
    OBVIOUS
  <2>1. CASE Fits(ies, o)
    <3>1. NextElement(ies, o) \in Nat
      BY <2>1, OffsetsGrow
    <3> QED BY <1>5, <3>1
  <2>2. CASE ~Fits(ies, o)
    <3> HIDE DEF g
    <3> QED BY <1>5, <2>2 DEF InfoAt
  <2> QED BY <2>1, <2>2
<1>7. g = [o \in Nat |-> g[o]]
  OBVIOUS
<1> HIDE DEF g
<1> QED BY <1>6, <1>7

LEMMA ElementInfoIsFirst ==
  ASSUME NEW ies \in Seq(Nat), NEW engine \in BOOLEAN
  PROVE  \E f : /\ \A o \in Nat : f[o] = InfoAt(ies, engine, o, f[NextElement(ies, o)])
                /\ ElementInfo(ies, engine) = f[1]
<1> DEFINE f == CHOOSE f : f = [o \in Nat |-> InfoAt(ies, engine, o, f[NextElement(ies, o)])]
<1>1. f = [o \in Nat |-> InfoAt(ies, engine, o, f[NextElement(ies, o)])]
  BY InfoExists, Zenon
<1>2. ElementInfo(ies, engine) = f[1]
  BY Zenon DEF ElementInfo, InfoAt
<1> HIDE DEF f
<1>3. \A o \in Nat : f[o] = InfoAt(ies, engine, o, f[NextElement(ies, o)])
  BY <1>1
<1> QED BY <1>2, <1>3

(* What a peer can advertise: any elements with any bytes. *)
WfdElement == [id : Nat, bytes : Seq(Nat)]

(* The first n elements, encoded *)
IsUpto(elements, f) ==
  f = [n \in 0..Len(elements) |-> IF n = 0 THEN <<>> ELSE f[n - 1] \o Bytes(elements[n])]

LEMMA UptoExists ==
  ASSUME NEW elements \in Seq(WfdElement)
  PROVE  \E f : IsUpto(elements, f) /\ Encoded(elements) = f[Len(elements)]
<1> DEFINE l == Len(elements)
           P(k, f) == f = [n \in 0..k |-> IF n = 0 THEN <<>> ELSE f[n - 1] \o Bytes(elements[n])]
           Bad == {k \in Nat : ~\E f : P(k, f)}
<1>1. ASSUME NEW k \in Nat, NEW f, P(k, f)
      PROVE  \E g : P(k + 1, g)
  <2> DEFINE g == [n \in 0..(k + 1) |-> IF n = k + 1 THEN f[k] \o Bytes(elements[n]) ELSE f[n]]
  <2>1. ASSUME NEW n \in 0..(k + 1)
        PROVE  g[n] = IF n = 0 THEN <<>> ELSE g[n - 1] \o Bytes(elements[n])
    <3>1. CASE n = k + 1
      <4>1. g[n] = f[k] \o Bytes(elements[n]) /\ g[k] = f[k] /\ n - 1 = k /\ n # 0
        BY <3>1
      <4> QED BY <4>1
    <3>2. CASE n = 0
      <4>1. g[n] = f[0] /\ f[0] = <<>>
        BY <1>1, <3>2
      <4> QED BY <3>2, <4>1
    <3>3. CASE n \in 1..k
      <4>1. g[n] = f[n] /\ n - 1 \in 0..k /\ n \in 0..k /\ g[n - 1] = f[n - 1] /\ n # 0
        BY <3>3
      <4>2. f[n] = f[n - 1] \o Bytes(elements[n])
        BY <1>1, <4>1
      <4> QED BY <4>1, <4>2
    <3> QED BY <3>1, <3>2, <3>3
  <2>2. g = [n \in 0..(k + 1) |-> g[n]]
    OBVIOUS
  <2> HIDE DEF g
  <2>3. P(k + 1, g)
    BY <2>1, <2>2
  <2> QED BY <2>3
<1>2. \E f : P(0, f)
  <2>1. P(0, [n \in 0..0 |-> <<>>])
    OBVIOUS
  <2> QED BY <2>1
<1>3. Bad = {}
  <2> SUFFICES ASSUME Bad # {} PROVE FALSE
    OBVIOUS
  <2>1. Bad \subseteq Nat
    OBVIOUS
  <2>2. PICK k \in Bad : \A j \in Bad : k <= j
    BY <2>1, LeastOf, Zenon
  <2> HIDE DEF P
  <2>3. k # 0 /\ k \in Nat /\ ~\E f : P(k, f)
    BY <1>2, <2>2
  <2>4. k - 1 \in Nat /\ ~(k <= k - 1) /\ (k - 1) + 1 = k
    BY <2>3
  <2>5. \E f : P(k - 1, f)
    BY <2>2, <2>4
  <2> QED BY <1>1, <2>3, <2>4, <2>5
<1> DEFINE f == CHOOSE f : P(l, f)
<1>4. P(l, f)
  <2>1. l \in Nat
    OBVIOUS
  <2> HIDE DEF l, P
  <2> QED BY <1>3, <2>1
<1>5. Encoded(elements) = f[l]
  BY Zenon DEF Encoded
<1> HIDE DEF f
<1> QED BY <1>4, <1>5 DEF IsUpto

(* The header and the bytes of an element *)
LEMMA BytesFacts ==
  ASSUME NEW e \in WfdElement
  PROVE  /\ Bytes(e) \in Seq(Nat) /\ Len(e.bytes) \in Nat /\ Len(Bytes(e)) = 3 + Len(e.bytes)
         /\ Bytes(e)[1] = e.id /\ Bytes(e)[2] = Len(e.bytes) \div 256 /\ Bytes(e)[3] = Len(e.bytes) % 256
         /\ \A i \in 1..Len(e.bytes) : Bytes(e)[3 + i] = e.bytes[i]
<1> DEFINE b == e.bytes
           l == Len(b)
           high == l \div 256
           low  == l % 256
<1>1. e.id \in Nat /\ b \in Seq(Nat)
  BY DEF WfdElement
<1>2. l \in Nat
  BY <1>1
<1> HIDE DEF l
<1>3. high \in Nat /\ low \in Nat
  BY <1>2
<1> DEFINE head == <<e.id, high, low>>
<1> HIDE DEF high, low
<1>4. head \in Seq(Nat) /\ Len(head) = 3 /\ head[1] = e.id /\ head[2] = high /\ head[3] = low
  BY <1>1, <1>3
<1>5. Bytes(e) = head \o b
  BY DEF Bytes, high, low, l
<1> HIDE DEF head, b
<1>6. /\ head \o b \in Seq(Nat) /\ Len(head \o b) = Len(head) + Len(b)
      /\ \A i \in 1..Len(head) + Len(b) :
           (head \o b)[i] = IF i <= Len(head) THEN head[i] ELSE b[i - Len(head)]
  BY <1>1, <1>4, ConcatProperties, Zenon
<1>7. \A i \in 1..l : 3 + i \in 1..Len(head) + Len(b) /\ ~(3 + i <= Len(head)) /\ (3 + i) - Len(head) = i
  BY <1>2, <1>4 DEF l
<1>8. \A i \in 1..3 : i \in 1..Len(head) + Len(b) /\ i <= Len(head)
  BY <1>2, <1>4 DEF l
<1>9. /\ (head \o b)[1] = head[1] /\ (head \o b)[2] = head[2] /\ (head \o b)[3] = head[3]
      /\ \A i \in 1..l : (head \o b)[3 + i] = b[i]
  BY <1>6, <1>7, <1>8
<1> QED BY <1>2, <1>4, <1>5, <1>6, <1>9 DEF b, l, high, low

(* Each element is where the ones before it end, and stays there. *)
Begins(s, t) == Len(s) <= Len(t) /\ \A i \in 1..Len(s) : t[i] = s[i]

LEMMA UptoFacts ==
  ASSUME NEW elements \in Seq(WfdElement), NEW f, IsUpto(elements, f)
  PROVE  /\ \A n \in 0..Len(elements) : f[n] \in Seq(Nat)
         /\ \A n \in 0..Len(elements) : \A k \in 0..n : Begins(f[k], f[n])
         /\ f[0] = <<>>
         /\ \A n \in 1..Len(elements) :
              f[n - 1] \in Seq(Nat) /\ f[n] = f[n - 1] \o Bytes(elements[n])
<1> DEFINE l == Len(elements)
           Inv(n) == /\ f[n] \in Seq(Nat)
                     /\ \A k \in 0..n : /\ f[k] \in Seq(Nat) /\ Len(f[k]) <= Len(f[n])
                                        /\ \A i \in 1..Len(f[k]) : f[n][i] = f[k][i]
           Bad == {n \in Nat : n <= l /\ ~Inv(n)}
<1>0. l \in Nat /\ \A n \in 1..l : elements[n] \in WfdElement
  OBVIOUS
<1>1. f[0] = <<>> /\ \A n \in 1..l : f[n] = f[n - 1] \o Bytes(elements[n])
  <2>1. \A n \in 0..l : f[n] = IF n = 0 THEN <<>> ELSE f[n - 1] \o Bytes(elements[n])
    BY DEF IsUpto
  <2>2. 0 \in 0..l /\ \A n \in 1..l : n \in 0..l /\ n # 0
    BY <1>0
  <2> HIDE DEF l
  <2> QED BY <2>1, <2>2
<1> HIDE DEF l
<1>2. Inv(0)
  <2>1. f[0] = <<>> /\ <<>> \in Seq(Nat) /\ Len(<<>>) = 0
    BY <1>1
  <2>2. \A k \in 0..0 : k = 0
    OBVIOUS
  <2>3. f[0] \in Seq(Nat) /\ Len(f[0]) = 0
    BY <2>1
  <2>4. 1..Len(f[0]) = {} /\ Len(f[0]) <= Len(f[0])
    BY <2>3
  <2> QED BY <2>2, <2>3, <2>4, Zenon
<1>3. ASSUME NEW n \in 1..l, Inv(n - 1) PROVE Inv(n)
  <2> DEFINE s == f[n - 1]
             t == Bytes(elements[n])
  <2>1. /\ s \in Seq(Nat) /\ t \in Seq(Nat)
        /\ \A k \in 0..(n - 1) : Len(f[k]) <= Len(s) /\ \A i \in 1..Len(f[k]) : s[i] = f[k][i]
    <3>1. elements[n] \in WfdElement
      BY <1>0
    <3>2. t \in Seq(Nat)
      BY <3>1, BytesFacts, Zenon
    <3> QED BY <1>3, <3>2, Zenon
  <2>2. f[n] = s \o t
    BY <1>1
  <2> HIDE DEF s, t
  <2>3. /\ f[n] \in Seq(Nat) /\ Len(s) \in Nat /\ Len(t) \in Nat /\ Len(f[n]) = Len(s) + Len(t)
        /\ \A i \in 1..(Len(s) + Len(t)) : f[n][i] = IF i <= Len(s) THEN s[i] ELSE t[i - Len(s)]
    BY <2>1, <2>2, ConcatProperties
  <2>4. ASSUME NEW k \in 0..(n - 1)
        PROVE  f[k] \in Seq(Nat) /\ Len(f[k]) <= Len(f[n]) /\ \A i \in 1..Len(f[k]) : f[n][i] = f[k][i]
    <3>1. f[k] \in Seq(Nat)
      BY <1>0, <1>3
    <3>2. Len(f[k]) \in Nat /\ Len(f[k]) <= Len(s) /\ \A i \in 1..Len(f[k]) : s[i] = f[k][i]
      BY <2>1, <3>1
    <3>3. \A i \in 1..Len(f[k]) : i \in 1..(Len(s) + Len(t)) /\ i <= Len(s)
      BY <2>3, <3>2
    <3>4. \A i \in 1..Len(f[k]) : f[n][i] = f[k][i]
      BY <2>3, <3>2, <3>3, Zenon
    <3>5. Len(f[k]) <= Len(f[n])
      BY <2>3, <3>2
    <3> QED BY <3>1, <3>4, <3>5
  <2>5. \A k \in 0..n : k \in 0..(n - 1) \/ k = n
    BY <1>0
  <2>6. Len(f[n]) <= Len(f[n])
    BY <2>3
  <2> QED BY <2>3, <2>4, <2>5, <2>6, Zenon
<1>4. Bad = {}
  <2> SUFFICES ASSUME Bad # {} PROVE FALSE
    OBVIOUS
  <2>1. Bad \subseteq Nat
    OBVIOUS
  <2>2. PICK n \in Bad : \A j \in Bad : n <= j
    BY <2>1, LeastOf, Zenon
  <2> HIDE DEF Inv
  <2>3. n # 0 /\ n \in Nat /\ n <= l /\ ~Inv(n)
    BY <1>2, <2>2
  <2>4. n - 1 \in Nat /\ ~(n <= n - 1) /\ n - 1 <= l /\ n \in 1..l
    BY <1>0, <2>3
  <2>5. Inv(n - 1)
    BY <2>2, <2>4
  <2> QED BY <1>3, <2>3, <2>4, <2>5
<1>5. \A n \in 0..l : Inv(n)
  <2> HIDE DEF Inv
  <2> QED BY <1>0, <1>4
<1>6. \A n \in 1..l : n - 1 \in 0..l
  BY <1>0
<1> QED BY <1>1, <1>5, <1>6 DEF Begins, l

(* What the loop sees of element n, when the bytes are those of the first n *)
(* elements at least: its id and its contents, and where the next one is.   *)
Seen(elements, f, ies, n, o) ==
  LET b == elements[n].bytes
  IN  /\ o \in Nat /\ Len(f[n]) \in Nat /\ Len(f[n]) <= Len(f[Len(elements)])
      /\ Fits(ies, o) <=> Len(f[n]) <= Len(ies)
      /\ Fits(ies, o) => /\ ies[o] = elements[n].id /\ ElementLength(ies, o) = Len(b)
                         /\ NextElement(ies, o) = Len(f[n]) + 1
                         /\ \A i \in 1..Len(b) : ies[o + 2 + i] = b[i]

LEMMA ElementSeen ==
  ASSUME NEW elements \in Seq(WfdElement), NEW f, IsUpto(elements, f),
         NEW ies \in Seq(Nat), Len(ies) <= Len(f[Len(elements)]),
         \A i \in 1..Len(ies) : ies[i] = f[Len(elements)][i],
         NEW n \in 1..Len(elements)
  PROVE  Seen(elements, f, ies, n, Len(f[n - 1]) + 1)
<1> DEFINE l == Len(elements)
           e == elements[n]
           b == e.bytes
           t == Bytes(e)
           s == f[n - 1]
           o == Len(s) + 1
           c == Len(ies)
<1>1. e \in WfdElement /\ l \in Nat /\ n \in 0..l /\ l \in 0..l /\ n \in 0..n /\ n \in 1..l
  OBVIOUS
<1>2. /\ t \in Seq(Nat) /\ Len(b) \in Nat /\ Len(t) = 3 + Len(b)
      /\ t[1] = e.id /\ t[2] = Len(b) \div 256 /\ t[3] = Len(b) % 256
      /\ \A i \in 1..Len(b) : t[3 + i] = b[i]
  BY <1>1, BytesFacts, Zenon
<1>3. /\ s \in Seq(Nat) /\ f[n] = s \o t /\ f[n] \in Seq(Nat) /\ f[l] \in Seq(Nat)
      /\ Len(f[n]) <= Len(f[l]) /\ \A i \in 1..Len(f[n]) : f[l][i] = f[n][i]
  <2>1. \A m \in 0..l : f[m] \in Seq(Nat)
    BY UptoFacts, Zenon
  <2>2. \A m \in 0..l : \A k \in 0..m : Begins(f[k], f[m])
    BY UptoFacts, Zenon
  <2>3. \A m \in 1..l : f[m - 1] \in Seq(Nat) /\ f[m] = f[m - 1] \o Bytes(elements[m])
    BY UptoFacts, Zenon
  <2>4. n \in 0..l
    BY <1>1
  <2> HIDE DEF l
  <2> QED BY <1>1, <2>1, <2>2, <2>3, <2>4 DEF Begins
<1>4. \A i \in 1..c : ies[i] = f[l][i]
  OBVIOUS
<1>5. c \in Nat
  OBVIOUS
<1> HIDE DEF l, e, b, t, s, c
<1>6. /\ Len(s) \in Nat /\ Len(t) \in Nat /\ Len(f[n]) = Len(s) + Len(t)
      /\ \A i \in 1..(Len(s) + Len(t)) : f[n][i] = IF i <= Len(s) THEN s[i] ELSE t[i - Len(s)]
  <2>1. /\ Len(s \o t) = Len(s) + Len(t)
        /\ \A i \in 1..Len(s) + Len(t) : (s \o t)[i] = IF i <= Len(s) THEN s[i] ELSE t[i - Len(s)]
    <3>1. s \in Seq(Nat) /\ t \in Seq(Nat)
      BY <1>2, <1>3
    <3> QED BY <3>1, ConcatProperties, ZenonT(40)
  <2>2. Len(s) \in Nat /\ Len(t) \in Nat
    BY <1>2, <1>3
  <2> QED BY <1>3, <2>1, <2>2, Zenon
<1>7. ASSUME NEW i \in 1..Len(t), Len(s) + i <= c PROVE ies[Len(s) + i] = t[i]
  <2>1. /\ Len(s) + i \in 1..c /\ Len(s) + i \in 1..(Len(s) + Len(t))
        /\ ~(Len(s) + i <= Len(s)) /\ (Len(s) + i) - Len(s) = i
    <3>1. Len(s) \in Nat /\ Len(t) \in Nat /\ c \in Nat /\ i \in 1..Len(t) /\ Len(s) + i <= c
      BY <1>5, <1>6, <1>7
    <3> QED BY <3>1
  <2>2. f[n][Len(s) + i] = t[i]
    BY <1>6, <2>1
  <2>3. ies[Len(s) + i] = f[n][Len(s) + i]
    BY <1>3, <1>4, <1>6, <2>1
  <2> QED BY <2>2, <2>3
<1>8. ASSUME o + 2 <= c
      PROVE  /\ ies[o] = e.id /\ ElementLength(ies, o) = Len(b)
             /\ \A i \in 1..Len(b) : Len(f[n]) <= c => ies[o + 2 + i] = b[i]
  <2>1. 1 \in 1..Len(t) /\ 2 \in 1..Len(t) /\ 3 \in 1..Len(t)
    BY <1>2
  <2>2. /\ Len(s) + 1 = o /\ Len(s) + 2 = o + 1 /\ Len(s) + 3 = o + 2
        /\ Len(s) + 1 <= c /\ Len(s) + 2 <= c /\ Len(s) + 3 <= c
    BY <1>5, <1>6, <1>8
  <2>3. ies[o] = e.id /\ ies[o + 1] = Len(b) \div 256 /\ ies[o + 2] = Len(b) % 256
    <3>1. ies[Len(s) + 1] = t[1] /\ ies[Len(s) + 2] = t[2] /\ ies[Len(s) + 3] = t[3]
      BY <1>7, <2>1, <2>2
    <3> HIDE DEF o
    <3> QED BY <1>2, <2>2, <3>1
  <2>4. ElementLength(ies, o) = Len(b)
    <3> HIDE DEF o
    <3>1. \A x \in Nat : 256 * (x \div 256) + (x % 256) = x
      OBVIOUS
    <3>2. 256 * (Len(b) \div 256) + (Len(b) % 256) = Len(b)
      BY <1>2, <3>1, Zenon
    <3> QED BY <2>3, <3>2, Zenon DEF ElementLength
  <2>5. ASSUME NEW i \in 1..Len(b), Len(f[n]) <= c PROVE ies[o + 2 + i] = b[i]
    <3>1. 3 + i \in 1..Len(t) /\ Len(s) + (3 + i) <= c /\ Len(s) + (3 + i) = o + 2 + i
      <4>1. /\ Len(s) \in Nat /\ c \in Nat /\ Len(b) \in Nat /\ Len(t) = 3 + Len(b)
            /\ Len(f[n]) = Len(s) + Len(t) /\ i \in 1..Len(b) /\ Len(f[n]) <= c
        BY <1>2, <1>5, <1>6, <2>5
      <4> QED BY <4>1, SMTT(40)
    <3>2. ies[Len(s) + (3 + i)] = t[3 + i]
      BY <1>7, <3>1, Zenon
    <3>3. t[3 + i] = b[i]
      BY <1>2, Zenon
    <3> QED BY <3>1, <3>2, <3>3, Zenon
  <2> QED BY <2>3, <2>4, <2>5
<1>9. o \in Nat /\ Len(f[n]) \in Nat /\ Len(f[n]) = o + 2 + Len(b)
  BY <1>2, <1>6
<1> HIDE DEF o
<1>10. Fits(ies, o) <=> Len(f[n]) <= c
  <2>1. CASE o + 2 <= c
    BY <1>8, <1>9, <2>1 DEF Fits, c
  <2>2. CASE ~(o + 2 <= c)
    <3>1. ~(Len(f[n]) <= c)
      BY <1>2, <1>5, <1>9, <2>2
    <3> QED BY <2>2, <3>1 DEF Fits, c
  <2> QED BY <2>1, <2>2
<1>11. ASSUME Fits(ies, o)
       PROVE  /\ ies[o] = e.id /\ ElementLength(ies, o) = Len(b) /\ NextElement(ies, o) = Len(f[n]) + 1
              /\ \A i \in 1..Len(b) : ies[o + 2 + i] = b[i]
  <2>1. o + 2 <= c /\ Len(f[n]) <= c
    BY <1>10, <1>11 DEF Fits, c
  <2>2. NextElement(ies, o) = Len(f[n]) + 1
    <3>1. ElementLength(ies, o) = Len(b) /\ Len(b) \in Nat
      BY <1>2, <1>8, <2>1
    <3> QED BY <1>9, <3>1 DEF NextElement
  <2> QED BY <1>8, <2>1, <2>2
<1> QED BY <1>3, <1>9, <1>10, <1>11 DEF Seen, l, e, b, s, o, c

(* The element that a parser reads is the first of these.                   *)
Zero(e, engine) == e.id = 0 /\ (engine => Len(e.bytes) >= 6)

(* As long as no element is one to read the loop goes on to the next, or    *)
(* the bytes end before it.                                                 *)
LEMMA InfoGoesOn ==
  ASSUME NEW elements \in Seq(WfdElement), NEW f, IsUpto(elements, f),
         NEW ies \in Seq(Nat), Len(ies) <= Len(f[Len(elements)]),
         \A i \in 1..Len(ies) : ies[i] = f[Len(elements)][i],
         NEW engine \in BOOLEAN,
         NEW info, \A o \in Nat : info[o] = InfoAt(ies, engine, o, info[NextElement(ies, o)]),
         NEW k \in 1..(Len(elements) + 1), \A n \in 1..(k - 1) : ~Zero(elements[n], engine)
  PROVE  \/ info[1] = info[Len(f[k - 1]) + 1]
         \/ info[1] = NoInfo /\ Len(ies) < Len(f[Len(elements)])
<1> DEFINE l == Len(elements)
           Reached(m) == \/ info[1] = info[Len(f[m - 1]) + 1]
                         \/ info[1] = NoInfo /\ Len(ies) < Len(f[l])
           Bad == {m \in Nat : m \in 1..k /\ ~Reached(m)}
<1>1. l \in Nat /\ Len(ies) \in Nat
  OBVIOUS
<1>2. Reached(1)
  <2>1. f[0] = <<>>
    BY UptoFacts, Zenon
  <2>2. Len(f[1 - 1]) + 1 = 1
    BY <2>1
  <2> QED BY <2>2
<1>3. ASSUME NEW m \in 1..l, m < k, Reached(m) PROVE Reached(m + 1)
  <2> DEFINE o == Len(f[m - 1]) + 1
  <2>1. /\ o \in Nat /\ Len(f[m]) \in Nat /\ Len(f[m]) <= Len(f[l])
        /\ Fits(ies, o) <=> Len(f[m]) <= Len(ies)
        /\ Fits(ies, o) => /\ ies[o] = elements[m].id /\ NextElement(ies, o) = Len(f[m]) + 1
                           /\ ElementLength(ies, o) = Len(elements[m].bytes)
                           /\ Len(elements[m].bytes) \in Nat
    <3>1. Seen(elements, f, ies, m, o)
      BY ElementSeen, Zenon
    <3>2. elements[m] \in WfdElement
      OBVIOUS
    <3>3. Len(elements[m].bytes) \in Nat
      BY <3>2 DEF WfdElement
    <3> HIDE DEF o
    <3> QED BY <3>1, <3>3 DEF Seen
  <2>2. m \in 1..(k - 1) /\ (m + 1) - 1 = m
    BY <1>3
  <2>3. Fits(ies, o) => Passed(ies, o, engine)
    <3>1. ~Zero(elements[m], engine)
      BY <2>2
    <3> HIDE DEF o
    <3> QED BY <2>1, <3>1 DEF Zero, Passed
  <2>4. info[o] = InfoAt(ies, engine, o, info[NextElement(ies, o)])
    BY <2>1
  <2> HIDE DEF o
  <2>5. CASE info[1] = info[o] /\ Fits(ies, o)
    <3>1. info[1] = info[Len(f[m]) + 1]
      BY <2>1, <2>3, <2>4, <2>5 DEF InfoAt
    <3> QED BY <2>2, <3>1
  <2>6. CASE info[1] = info[o] /\ ~Fits(ies, o)
    <3>1. info[1] = NoInfo
      BY <2>4, <2>6 DEF InfoAt
    <3>2. Len(f[l]) \in Nat
      <4>1. l \in 0..l
        BY <1>1
      <4>2. f[l] \in Seq(Nat)
        BY <4>1, UptoFacts, Zenon
      <4> QED BY <4>2
    <3>3. Len(ies) < Len(f[l])
      BY <1>1, <2>1, <2>6, <3>2
    <3> QED BY <3>1, <3>3
  <2>7. CASE info[1] = NoInfo /\ Len(ies) < Len(f[l])
    BY <2>7
  <2> QED BY <1>3, <2>5, <2>6, <2>7 DEF o
<1>4. Bad = {}
  <2> SUFFICES ASSUME Bad # {} PROVE FALSE
    OBVIOUS
  <2>1. Bad \subseteq Nat
    OBVIOUS
  <2>2. PICK m \in Bad : \A j \in Bad : m <= j
    BY <2>1, LeastOf, Zenon
  <2> HIDE DEF Reached, l
  <2>3. m \in Nat /\ m \in 1..k /\ ~Reached(m) /\ m # 1
    BY <1>2, <2>2
  <2>4. /\ m - 1 \in Nat /\ m - 1 \in 1..k /\ ~(m <= m - 1) /\ (m - 1) + 1 = m
        /\ m - 1 < k /\ m - 1 \in 1..l
    BY <1>1, <2>3 DEF l
  <2>5. Reached(m - 1)
    BY <2>2, <2>4
  <2> QED BY <1>3, <2>3, <2>4, <2>5
<1>5. k \in Nat /\ k \in 1..k
  BY <1>1
<1>6. Reached(k)
  <2> HIDE DEF Reached
  <2> QED BY <1>4, <1>5
<1> QED BY <1>6

(* For all elements, wherever the bytes end, and for both parsers. *)
LEMMA InfoFound ==
  ASSUME NEW elements \in Seq(WfdElement), NEW cut \in Nat, NEW engine \in BOOLEAN,
         NEW all, all = Encoded(elements)
  PROVE  LET read == ElementInfo(SubSeq(all, 1, IF cut < Len(all) THEN cut ELSE Len(all)), engine)
         IN  /\ read \in {NoInfo, Meant(elements, engine)}
             /\ cut >= Len(all) => read = Meant(elements, engine)
<1> DEFINE l   == Len(elements)
           c   == IF cut < Len(all) THEN cut ELSE Len(all)
           ies == SubSeq(all, 1, c)
           zero == {i \in 1..l : elements[i].id = 0 /\ (engine => Len(elements[i].bytes) >= 6)}
           first == CHOOSE i \in zero : \A j \in zero : i <= j
           b == elements[first].bytes
<1>1. PICK f : IsUpto(elements, f) /\ all = f[l]
  BY UptoExists, Zenon
<1>2. l \in Nat /\ l \in 0..l
  OBVIOUS
<1>3. all \in Seq(Nat)
  <2>1. f[l] \in Seq(Nat)
    BY <1>1, <1>2, UptoFacts, Zenon
  <2> QED BY <1>1, <2>1
<1> HIDE DEF l
<1>4. Len(all) \in Nat /\ c \in Nat /\ c <= Len(all)
  BY <1>3
<1> HIDE DEF c
<1>5. ies \in Seq(Nat) /\ Len(ies) = c /\ \A i \in 1..c : ies[i] = all[i]
  BY <1>3, <1>4
<1> HIDE DEF ies
<1>6. PICK info : /\ \A o \in Nat : info[o] = InfoAt(ies, engine, o, info[NextElement(ies, o)])
                  /\ ElementInfo(ies, engine) = info[1]
  BY <1>5, ElementInfoIsFirst, Zenon
<1>7. ASSUME NEW k \in 1..(l + 1), \A n \in 1..(k - 1) : ~Zero(elements[n], engine)
      PROVE  info[1] = info[Len(f[k - 1]) + 1] \/ (info[1] = NoInfo /\ c < Len(all))
  <2>1. /\ IsUpto(elements, f) /\ ies \in Seq(Nat) /\ Len(ies) <= Len(f[Len(elements)])
        /\ \A i \in 1..Len(ies) : ies[i] = f[Len(elements)][i]
        /\ k \in 1..(Len(elements) + 1)
    BY <1>1, <1>4, <1>5 DEF l
  <2>2. \/ info[1] = info[Len(f[k - 1]) + 1]
        \/ info[1] = NoInfo /\ Len(ies) < Len(f[Len(elements)])
    <3> DEFINE o == Len(f[k - 1]) + 1
    <3>1. info[1] = info[o] \/ (info[1] = NoInfo /\ Len(ies) < Len(f[Len(elements)]))
      BY <1>6, <1>7, <2>1, InfoGoesOn, ZenonT(60)
    <3> QED BY <3>1
  <2> QED BY <1>1, <1>5, <2>2 DEF l
<1>8. CASE zero = {}
  <2>1. l + 1 \in 1..(l + 1) /\ (l + 1) - 1 = l /\ \A n \in 1..l : ~Zero(elements[n], engine)
    BY <1>2, <1>8 DEF Zero
  <2>2. info[1] = info[Len(all) + 1] \/ info[1] = NoInfo
    BY <1>1, <1>7, <2>1
  <2>3. Len(all) + 1 \in Nat /\ ~Fits(ies, Len(all) + 1)
    BY <1>4, <1>5 DEF Fits
  <2>4. info[Len(all) + 1] = NoInfo
    BY <1>6, <2>3 DEF InfoAt
  <2>5. Meant(elements, engine) = NoInfo
    BY <1>8 DEF Meant, l
  <2>6. ElementInfo(ies, engine) = NoInfo
    BY <1>6, <2>2, <2>4
  <2> QED BY <2>5, <2>6 DEF ies, c
<1>9. CASE zero # {}
  <2>1. zero \subseteq Nat /\ zero \subseteq 1..l
    OBVIOUS
  <2>2. \E i \in zero : \A j \in zero : i <= j
    BY <1>9, <2>1, LeastOf, Zenon
  <2>3. first \in zero /\ \A j \in zero : first <= j
    BY <2>2, Zenon
  <2> HIDE DEF first
  <2>4. first \in 1..l /\ elements[first].id = 0 /\ (engine => Len(elements[first].bytes) >= 6)
    BY <2>3
  <2>5. /\ first \in 1..(l + 1)
        /\ \A n \in 1..(first - 1) : n \in 1..l /\ ~(first <= n)
    BY <1>2, <2>4
  <2>6. \A n \in 1..(first - 1) : ~Zero(elements[n], engine)
    BY <2>3, <2>5 DEF Zero
  <2> DEFINE o == Len(f[first - 1]) + 1
  <2>7. info[1] = info[o] \/ (info[1] = NoInfo /\ c < Len(all))
    BY <1>7, <2>5, <2>6
  <2>8. /\ o \in Nat /\ Len(f[first]) \in Nat /\ Len(f[first]) <= Len(all)
        /\ Fits(ies, o) <=> Len(f[first]) <= c
        /\ Fits(ies, o) => /\ ies[o] = 0 /\ ElementLength(ies, o) = Len(b)
                           /\ \A i \in 1..Len(b) : ies[o + 2 + i] = b[i]
    <3>1. /\ IsUpto(elements, f) /\ ies \in Seq(Nat) /\ Len(ies) <= Len(f[Len(elements)])
          /\ \A i \in 1..Len(ies) : ies[i] = f[Len(elements)][i]
          /\ first \in 1..Len(elements)
      BY <1>1, <1>4, <1>5, <2>4 DEF l
    <3>2. Seen(elements, f, ies, first, o)
      BY <3>1, ElementSeen, Zenon
    <3> HIDE DEF o, b
    <3> QED BY <1>1, <1>5, <2>4, <3>2 DEF Seen, l, b
  <2> HIDE DEF o, b, zero
  <2>9. info[o] = InfoAt(ies, engine, o, info[NextElement(ies, o)])
    BY <1>6, <2>8
  <2>10. CASE ~Fits(ies, o) \/ (info[1] = NoInfo /\ c < Len(all))
    <3>1. info[1] = NoInfo
      BY <2>7, <2>9, <2>10 DEF InfoAt
    <3>2. c < Len(all)
      BY <1>4, <2>8, <2>10
    <3>3. ~(cut >= Len(all))
      BY <1>4, <3>2 DEF c
    <3> QED BY <1>6, <3>1, <3>3 DEF ies, c
  <2>11. CASE Fits(ies, o) /\ info[1] = info[o]
    <3>0. (engine => Len(b) >= 6) /\ Len(b) \in Nat
      <4>1. elements[first] \in WfdElement
        BY <2>4 DEF l
      <4>2. Len(elements[first].bytes) \in Nat
        BY <4>1 DEF WfdElement
      <4> QED BY <2>4, <4>2 DEF b
    <3>1. info[1] = IF ~engine /\ Len(b) # 6 THEN NoInfo
                    ELSE [i \in 1..3 |-> 256 * ies[o + 1 + 2 * i] + ies[o + 2 + 2 * i]]
      <4>1. ~Passed(ies, o, engine)
        BY <2>8, <2>11, <3>0 DEF Passed
      <4> QED BY <2>8, <2>9, <2>11, <4>1 DEF InfoAt
    <3>2. Meant(elements, engine) = IF ~engine /\ Len(b) # 6 THEN NoInfo
                                    ELSE [i \in 1..3 |-> 256 * b[2 * i - 1] + b[2 * i]]
      BY <1>9 DEF Meant, zero, first, b, l
    <3>3. ASSUME Len(b) >= 6, NEW i \in 1..3
          PROVE  ies[o + 1 + 2 * i] = b[2 * i - 1] /\ ies[o + 2 + 2 * i] = b[2 * i]
      <4>1. 2 * i - 1 \in 1..Len(b) /\ 2 * i \in 1..Len(b) /\ o + 2 + (2 * i - 1) = o + 1 + 2 * i
        BY <2>8, <3>0, <3>3
      <4> QED BY <2>8, <2>11, <3>3, <4>1
    <3>4. info[1] = Meant(elements, engine)
      <4>1. CASE ~engine /\ Len(b) # 6
        BY <3>1, <3>2, <4>1
      <4>2. CASE ~(~engine /\ Len(b) # 6)
        <5>1. Len(b) >= 6
          <6>1. engine \/ Len(b) = 6
            BY <4>2
          <6>2. Len(b) = 6 => Len(b) >= 6
            OBVIOUS
          <6> QED BY <3>0, <6>1, <6>2, Zenon
        <5> QED BY <3>1, <3>2, <3>3, <4>2, <5>1
      <4> QED BY <4>1, <4>2
    <3> QED BY <1>6, <3>4 DEF ies, c
  <2> QED BY <2>7, <2>10, <2>11
<1> QED BY <1>8, <1>9

(* Where the controller's parser reads something the engine's reads the     *)
(* same: on the last m offsets, and so on all.                              *)
LEMMA ParsersAgree ==
  ASSUME NEW ies \in Seq(Nat), ElementInfo(ies, FALSE) # NoInfo
  PROVE  ElementInfo(ies, TRUE) = ElementInfo(ies, FALSE)
<1>1. PICK f : /\ \A o \in Nat : f[o] = InfoAt(ies, FALSE, o, f[NextElement(ies, o)])
               /\ ElementInfo(ies, FALSE) = f[1]
  BY ElementInfoIsFirst, Zenon
<1>2. PICK g : /\ \A o \in Nat : g[o] = InfoAt(ies, TRUE, o, g[NextElement(ies, o)])
               /\ ElementInfo(ies, TRUE) = g[1]
  BY ElementInfoIsFirst, Zenon
<1> DEFINE Bad == {m \in Nat : \E o \in Nat : o + m > Len(ies) /\ f[o] # NoInfo /\ g[o] # f[o]}
<1>3. Len(ies) \in Nat
  OBVIOUS
<1>4. Bad = {}
  <2> SUFFICES ASSUME Bad # {} PROVE FALSE
    OBVIOUS
  <2>1. Bad \subseteq Nat
    OBVIOUS
  <2>2. PICK m \in Bad : \A j \in Bad : m <= j
    BY <2>1, LeastOf, Zenon
  <2>3. m \in Nat
    BY <2>2
  <2>4. PICK o \in Nat : o + m > Len(ies) /\ f[o] # NoInfo /\ g[o] # f[o]
    BY <2>2
  <2>5. /\ f[o] = InfoAt(ies, FALSE, o, f[NextElement(ies, o)])
        /\ g[o] = InfoAt(ies, TRUE, o, g[NextElement(ies, o)])
    BY <1>1, <1>2
  <2>6. Fits(ies, o)
    BY <2>4, <2>5 DEF InfoAt
  <2> DEFINE n == NextElement(ies, o)
  <2>7. n \in Nat /\ n > o /\ o < Len(ies) /\ ElementLength(ies, o) \in Nat
    BY <2>6, OffsetsGrow
  <2>8. CASE ies[o] = 0
    <3>1. ~Passed(ies, o, FALSE)
      BY <2>8 DEF Passed
    <3>2. ElementLength(ies, o) = 6
      BY <2>4, <2>5, <2>6, <3>1 DEF InfoAt
    <3>3. ~Passed(ies, o, TRUE)
      BY <2>8, <3>2 DEF Passed
    <3> QED BY <2>4, <2>5, <2>6, <3>1, <3>2, <3>3 DEF InfoAt
  <2>9. CASE ies[o] # 0
    <3>1. Passed(ies, o, FALSE) /\ Passed(ies, o, TRUE)
      BY <2>9 DEF Passed
    <3>2. f[o] = f[n] /\ g[o] = g[n]
      BY <2>5, <2>6, <3>1 DEF InfoAt
    <3>3. m - 1 \in Nat /\ n + (m - 1) > Len(ies) /\ ~(m <= m - 1)
      BY <1>3, <2>3, <2>4, <2>7
    <3>4. m - 1 \in Bad
      BY <2>4, <2>7, <3>2, <3>3
    <3> QED BY <2>2, <3>3, <3>4
  <2> QED BY <2>8, <2>9
<1>5. Len(ies) + 1 \in Nat /\ 1 + (Len(ies) + 1) > Len(ies)
  BY <1>3
<1>6. Len(ies) + 1 \notin Bad
  BY <1>4
<1> QED BY <1>1, <1>2, <1>5, <1>6

(* Of no bytes at all nothing is read. *)
LEMMA NothingRead == ElementInfo(<<>>, FALSE) = NoInfo
<1>1. <<>> \in Seq(Nat)
  OBVIOUS
<1>2. PICK f : /\ \A o \in Nat : f[o] = InfoAt(<<>>, FALSE, o, f[NextElement(<<>>, o)])
               /\ ElementInfo(<<>>, FALSE) = f[1]
  BY <1>1, ElementInfoIsFirst, Zenon
<1>3. ~Fits(<<>>, 1)
  BY DEF Fits
<1>4. f[1] = InfoAt(<<>>, FALSE, 1, f[NextElement(<<>>, 1)])
  BY <1>2
<1> QED BY <1>2, <1>3, <1>4 DEF InfoAt

(* For all elements, wherever the bytes end: what is listed. *)
LEMMA InfoAlwaysMeant ==
  ASSUME NEW elements \in Seq(WfdElement), NEW cut \in Nat
  PROVE  InfoIsMeant(elements, cut)
<1> DEFINE all == Encoded(elements)
           bytes == SubSeq(all, 1, IF cut < Len(all) THEN cut ELSE Len(all))
<1>1. /\ ElementInfo(bytes, FALSE) \in {NoInfo, Meant(elements, FALSE)}
      /\ cut >= Len(all) => ElementInfo(bytes, FALSE) = Meant(elements, FALSE)
  BY InfoFound, Zenon
<1>2. /\ ElementInfo(bytes, TRUE) \in {NoInfo, Meant(elements, TRUE)}
      /\ cut >= Len(all) => ElementInfo(bytes, TRUE) = Meant(elements, TRUE)
  BY InfoFound, Zenon
<1>3. bytes \in Seq(Nat)
  <2>1. PICK f : IsUpto(elements, f) /\ all = f[Len(elements)]
    BY UptoExists, Zenon
  <2>2. Len(elements) \in 0..Len(elements)
    OBVIOUS
  <2>3. all \in Seq(Nat)
    BY <2>1, <2>2, UptoFacts, Zenon
  <2> HIDE DEF all
  <2> QED BY <2>3
<1> HIDE DEF bytes, all
<1>4. DeviceInfo(RawDetails(bytes)) = ElementInfo(bytes, FALSE)
  BY DEF DeviceInfo, RawDetails
<1>5. DeviceInfo(EngineDetails(bytes)) = ElementInfo(bytes, TRUE)
  BY NothingRead DEF DeviceInfo, EngineDetails
<1>6. ElementInfo(bytes, FALSE) # NoInfo => ElementInfo(bytes, TRUE) = ElementInfo(bytes, FALSE)
  BY <1>3, ParsersAgree
<1> QED BY <1>1, <1>2, <1>4, <1>5, <1>6, Zenon DEF InfoIsMeant, all, bytes

(* The bytes and the peers of the run are among these. *)
LEMMA BytesTyped ==
  \A t \in MCBytes : \E elements \in Seq(WfdElement), cut \in Nat : t = <<elements, cut>>
<1>1. Element \subseteq WfdElement
  <2>1. <<>> \in Seq(Nat) /\ <<0>> \in Seq(Nat)
    OBVIOUS
  <2>2. <<0, 17, 28, 68, 0, 50>> \in Seq(Nat)
    OBVIOUS
  <2>3. <<1, 0, 6, 0, 17, 0, 0>> \in Seq(Nat)
    OBVIOUS
  <2>4. {<<>>, <<0>>, <<0, 17, 28, 68, 0, 50>>, <<1, 0, 6, 0, 17, 0, 0>>} \subseteq Seq(Nat)
    BY <2>1, <2>2, <2>3, Zenon
  <2> DEFINE contents == {<<>>, <<0>>, <<0, 17, 28, 68, 0, 50>>, <<1, 0, 6, 0, 17, 0, 0>>}
  <2>5. Element = [id : {0, 1}, bytes : contents]
    BY Zenon DEF Element
  <2> HIDE DEF contents
  <2>6. contents \subseteq Seq(Nat)
    BY <2>4, Zenon DEF contents
  <2> QED BY <2>5, <2>6 DEF WfdElement
<1>2. Elements \subseteq Seq(WfdElement)
  <2> SUFFICES ASSUME NEW e \in Elements PROVE e \in Seq(WfdElement)
    OBVIOUS
  <2>1. PICK n \in 0..3 : e \in [1..n -> Element]
    BY Zenon DEF Elements
  <2>2. n \in Nat /\ e \in [1..n -> WfdElement]
    BY <1>1, <2>1
  <2> QED BY <2>2
<1>3. {1, 4, 9, 12, 30} \subseteq Nat
  OBVIOUS
<1> DEFINE cuts == {1, 4, 9, 12, 30}
<1>4. MCBytes = {<<e, cut>> : e \in Elements, cut \in cuts}
  BY DEF MCBytes
<1> HIDE DEF cuts
<1>5. cuts \subseteq Nat
  BY <1>3 DEF cuts
<1>6. ASSUME NEW t \in MCBytes PROVE \E elements \in Seq(WfdElement), cut \in Nat : t = <<elements, cut>>
  <2>1. PICK e \in Elements, cut \in cuts : t = <<e, cut>>
    BY <1>4
  <2> QED BY <1>2, <1>5, <2>1, Zenon
<1> QED BY <1>6

LEMMA PeersTyped == \A p \in MCPeers : IsScan(p)
<1> DEFINE names == {"fire", "tv", "tab", ""}
<1>1. Peer \subseteq Advertised(names)
  <2>1. Sink \in Seq(Nat) /\ <<>> \in Seq(Nat)
    BY DEF Sink
  <2>2. <<17, 7236, 50>> \in Seq(Nat) /\ <<16, 7236, 50>> \in Seq(Nat)
    OBVIOUS
  <2> DEFINE told == {<<17, 7236, 50>>}
             other == {NoInfo, <<16, 7236, 50>>}
             none == {NoInfo}
             empty == {<<>>}
  <2>4. Peer = [text : told, ies : empty, address : {1, 2, NoAddress}, name : {"fire", "tv", ""}]
                 \cup [text : other, ies : empty, address : {3}, name : {"tv"}]
                 \cup [text : none, ies : {Sink}, address : {3}, name : {"tv", "tab"}]
    BY SMT DEF Peer
  <2>5. told \subseteq Seq(Nat) /\ other \subseteq Seq(Nat) /\ none \subseteq Seq(Nat) /\ empty \subseteq Seq(Nat)
    BY <2>1, <2>2 DEF NoInfo
  <2> HIDE DEF told, other, none, empty
  <2>6. {Sink} \subseteq Seq(Nat) /\ {1, 2, NoAddress} \subseteq Nat /\ {3} \subseteq Nat
    BY <2>1 DEF NoAddress
  <2>7. ASSUME NEW x, NEW b, NEW a, NEW n, x \subseteq Seq(Nat), b \subseteq Seq(Nat), a \subseteq Nat, n \subseteq names
        PROVE  [text : x, ies : b, address : a, name : n] \subseteq Advertised(names)
    BY <2>7 DEF Advertised
  <2>8. {"fire", "tv", ""} \subseteq names /\ {"tv"} \subseteq names /\ {"tv", "tab"} \subseteq names
    OBVIOUS
  <2>9. /\ [text : told, ies : empty, address : {1, 2, NoAddress}, name : {"fire", "tv", ""}] \subseteq Advertised(names)
        /\ [text : other, ies : empty, address : {3}, name : {"tv"}] \subseteq Advertised(names)
        /\ [text : none, ies : {Sink}, address : {3}, name : {"tv", "tab"}] \subseteq Advertised(names)
    BY <2>5, <2>6, <2>7, <2>8, Zenon
  <2> QED BY <2>4, <2>9, Zenon
<1>2. ASSUME NEW p \in MCPeers PROVE IsScan(p)
  <2>1. PICK n \in 0..4 : p \in [1..n -> Peer]
    BY Zenon DEF MCPeers
  <2> HIDE DEF names
  <2>2. n \in Nat /\ p \in [1..n -> Advertised(names)]
    BY <1>1, <2>1
  <2>3. p \in Seq(Advertised(names))
    BY <2>2
  <2> QED BY <2>3, Zenon DEF IsScan
<1> QED BY <1>2

(* Of the bytes of any peer the listing reads the start of the first        *)
(* element 0 that the parser in use accepts (the controller's of six bytes, *)
(* the patched engine's, whose text is taken before the bytes, of six or    *)
(* more), nothing of another element and nothing past the end, and the two  *)
(* agree where the controller's reads something; the listing of any scan    *)
(* that is not refused has every sink with an address once, and does not    *)
(* change when two peers are reported in the other order (_wfd_device_info, *)
(* _receivers_from_peers, normalize_receivers).                             *)
THEOREM ReceiversAreTold ==
  /\ \A elements \in Seq(WfdElement), cut \in Nat : InfoIsMeant(elements, cut)
  /\ \A peers : IsScan(peers) => ListingComplete(peers) /\ OrderIrrelevant(peers)
  /\ Spec => []ReceiversTold
<1>1. \A elements \in Seq(WfdElement), cut \in Nat : InfoIsMeant(elements, cut)
  BY InfoAlwaysMeant, Zenon
<1>2. \A peers : IsScan(peers) => ListingComplete(peers) /\ OrderIrrelevant(peers)
  BY AlwaysListed, OrderNeverShows, Zenon
<1>3. Typed => ReceiversTold
  <2>1. ASSUME Typed, Read("bytes") PROVE InfoIsMeant(input[1], input[2])
    <3>1. PICK elements \in Seq(WfdElement), cut \in Nat : input = <<elements, cut>>
      BY <2>1, BytesTyped, Zenon DEF Typed
    <3>2. input[1] = elements /\ input[2] = cut
      BY <3>1
    <3> QED BY <1>1, <3>2
  <2>2. ASSUME Typed, Read("peers") PROVE ListingComplete(input) /\ OrderIrrelevant(input)
    BY <1>2, <2>2, PeersTyped, Zenon DEF Typed
  <2> QED BY <2>1, <2>2 DEF ReceiversTold
<1>4. Spec => []ReceiversTold
  BY <1>3, InputsTyped, PTL
<1> QED BY <1>1, <1>2, <1>4

-----------------------------------------------------------------------------
(* GuardContract: the arguments and the statuses *)

(* The requests that the limits of the code can tell apart: any numbers. *)
Request == [session : {"good", "bad"}, interface : {"good", "bad"},
            peer : {"unicast", "group", "zero", "bad"}, uid : Int, caller : Int,
            user : {"known", "unknown"}, frequency : Int, duration : Int, backend : {"direct", "networkmanager", "other"}]

(* The powers of ten, as far as a bound of the code is near one. *)
Ten(k) == 10 ^ k

LEMMA Powers ==
  ASSUME NEW k \in 1..9
  PROVE  /\ Ten(k) \in Nat
         /\ k <= 1 => Ten(k) <= 10
         /\ k <= 3 => Ten(k) <= 1000
         /\ k >= 3 => Ten(k) >= 1000
         /\ k >= 4 => Ten(k) >= 10000
<1>1. /\ Ten(1) = 10 /\ Ten(2) = 100 /\ Ten(3) = 1000 /\ Ten(4) = 10000
      /\ Ten(5) = 100000 /\ Ten(6) = 1000000 /\ Ten(7) = 10000000
      /\ Ten(8) = 100000000 /\ Ten(9) = 1000000000
  BY SMT DEF Ten
<1>2. \/ k = 1 \/ k = 2 \/ k = 3 \/ k = 4 \/ k = 5 \/ k = 6 \/ k = 7 \/ k = 8 \/ k = 9
  BY SMT
<1> QED BY <1>1, <1>2, SMT

(* How many powers of ten a number reaches bounds its digits: from above, *)
LEMMA DigitsAtMost ==
  ASSUME NEW n \in Nat, NEW d \in 0..9, \A k \in 1..9 : n >= Ten(k) => k <= d
  PROVE  Digits(n) \in 1..(d + 1)
<1> DEFINE R == {k \in 1..9 : n >= Ten(k)}
<1>1. R \in SUBSET (1..d) /\ d \in Nat
  OBVIOUS
<1>2. Cardinality(R) \in Nat /\ Cardinality(R) <= d
  BY <1>1, Cardinals, Zenon
<1>3. Digits(n) = 1 + Cardinality(R)
  BY DEF Digits, Ten
<1> HIDE DEF R
<1> QED BY <1>2, <1>3

(* and from below. *)
LEMMA DigitsAtLeast ==
  ASSUME NEW n \in Nat, NEW d \in 0..9, \A k \in 1..d : n >= Ten(k)
  PROVE  Digits(n) >= d + 1
<1> DEFINE R == {k \in 1..9 : n >= Ten(k)}
<1>1. R \in SUBSET (1..9) /\ 1..d \in SUBSET R /\ 1..d \in SUBSET (1..d) /\ d \in Nat /\ 9 \in Nat
  OBVIOUS
<1>2. IsFiniteSet(R) /\ Cardinality(R) \in Nat
  BY <1>1, Cardinals, ZenonT(30)
<1>3. Cardinality(1..d) = d
  BY <1>1, Cardinals, Zenon
<1>4. Cardinality(1..d) <= Cardinality(R)
  BY <1>1, <1>2, FS_Subset, Zenon
<1>5. Digits(n) = 1 + Cardinality(R)
  BY DEF Digits, Ten
<1> HIDE DEF R
<1> QED BY <1>2, <1>3, <1>4, <1>5

(* So the pattern of the user id admits every id from 1000 on and none below, *)
LEMMA UidDigits ==
  ASSUME NEW n \in Int
  PROVE  Digits(n) \in 4..10 <=> n >= 1000
<1>1. CASE n >= 1000
  <2>1. \A k \in 1..3 : n >= Ten(k)
    BY <1>1, Powers
  <2>2. \A k \in 1..9 : n >= Ten(k) => k <= 9
    OBVIOUS
  <2>3. n \in Nat /\ 3 \in 0..9 /\ 9 \in 0..9
    BY <1>1
  <2>4. Digits(n) >= 3 + 1
    BY <2>1, <2>3, DigitsAtLeast
  <2>5. Digits(n) \in 1..(9 + 1)
    BY <2>2, <2>3, DigitsAtMost
  <2> QED BY <1>1, <2>4, <2>5
<1>2. CASE n \in 0..999
  <2>1. \A k \in 1..9 : n >= Ten(k) => k <= 2
    BY <1>2, Powers
  <2>2. n \in Nat /\ 2 \in 0..9
    BY <1>2
  <2>3. Digits(n) \in 1..(2 + 1)
    BY <2>1, <2>2, DigitsAtMost
  <2> QED BY <1>2, <2>3
<1>3. CASE n < 0
  BY <1>3 DEF Digits
<1> QED BY <1>1, <1>2, <1>3

(* and those of frequency and duration every number that their ranges admit. *)
LEMMA RangeDigits ==
  ASSUME NEW n \in Nat, n < 10000
  PROVE  Digits(n) \in 1..4 /\ (n >= 10 => Digits(n) \in 2..4)
<1>1. \A k \in 1..9 : n >= Ten(k) => k <= 3
  BY Powers
<1>2. Digits(n) \in 1..(3 + 1)
  <2>1. 3 \in 0..9
    OBVIOUS
  <2> QED BY <1>1, <2>1, DigitsAtMost
<1>3. ASSUME n >= 10 PROVE Digits(n) >= 1 + 1
  <2>1. 1 \in 0..9 /\ \A k \in 1..1 : n >= Ten(k)
    BY <1>3, Powers
  <2> QED BY <2>1, DigitsAtLeast
<1> QED BY <1>2, <1>3

(* The two ways of writing each of the conditions agree. *)
LEMMA UidsAgree ==
  ASSUME NEW n \in Int
  PROVE  PermittedUid(n) <=> valid_uid(n)
<1>1. Digits(n) \in 4..10 <=> n >= 1000
  BY UidDigits, SMT
<1> QED BY <1>1, SMT DEF PermittedUid, valid_uid

LEMMA FrequenciesAgree ==
  ASSUME NEW n \in Int
  PROVE  P2PFrequency(n) <=> valid_frequency(n)
<1>1. ASSUME n = 0 \/ n \in 2300..7125 PROVE Digits(n) \in 1..4
  <2>1. n \in Nat /\ n < 10000
    BY <1>1, SMT
  <2> QED BY <2>1, RangeDigits, SMT
<1>2. n \in 2300..7125 <=> n >= 2300 /\ n <= 7125
  BY SMT
<1> QED BY <1>1, <1>2, SMT DEF P2PFrequency, valid_frequency

LEMMA DurationsAgree ==
  ASSUME NEW n \in Int
  PROVE  CastDuration(n) <=> valid_duration(n)
<1>1. ASSUME n \in 60..1800 PROVE Digits(n) \in 2..4
  <2>1. n \in Nat /\ n < 10000 /\ n >= 10
    BY <1>1, SMT
  <2> QED BY <2>1, RangeDigits, SMT
<1>2. n \in 60..1800 <=> n >= 60 /\ n <= 1800
  BY SMT
<1> QED BY <1>1, <1>2, SMT DEF CastDuration, valid_duration

(* For every request: client and guard, in two languages, admit the same, *)
(* group addresses and the address of zeros aside.                        *)
LEMMA SidesAlwaysAgree ==
  ASSUME NEW r \in Request
  PROVE  SidesAgree(r)
<1>1. r.uid \in Int /\ r.frequency \in Int /\ r.duration \in Int
  BY DEF Request
<1>2. /\ PermittedUid(r.uid) <=> valid_uid(r.uid)
      /\ P2PFrequency(r.frequency) <=> valid_frequency(r.frequency)
      /\ CastDuration(r.duration) <=> valid_duration(r.duration)
  BY <1>1, UidsAgree, FrequenciesAgree, DurationsAgree, Zenon
<1>3. valid_peer(r.peer) <=> r.peer = "unicast" \/ r.peer \in {"group", "zero"}
  BY Zenon DEF valid_peer
<1>4. ASSUME r.caller = r.uid, r.user = "known", ClientAccepts(r) PROVE GuardAccepts(r)
  BY <1>2, <1>3, <1>4, Zenon DEF ClientAccepts, GuardAccepts
<1>5. ASSUME GuardAccepts(r) PROVE ClientAccepts(r) \/ r.peer \in {"group", "zero"}
  BY <1>2, <1>3, <1>5, Zenon DEF ClientAccepts, GuardAccepts
<1> QED BY <1>4, <1>5, Zenon DEF SidesAgree

(* For every name of a session: what one program publishes the other reads. *)
LEMMA StatusAlwaysUnderstood ==
  ASSUME NEW pub \in Publishable, NEW session, NEW who
  PROVE  StatusUnderstood(pub, session, who)
<1> DEFINE d == Published(pub[1], pub[2], session)
<1>1. /\ pub[1] \in {"guard", "recovery"} /\ pub[2] \in {"ready", "active", "cleaned", "error"}
  BY DEF Publishable
<1>2. /\ d.phase = pub[2] /\ d.session = session /\ d.fields = Fields(pub[2])
      /\ d.ok = (pub[2] # "error") /\ d.error = (IF pub[2] = "error" THEN pub[1] ELSE "null")
      /\ pub[2] = "ready" => d.trigger = session /\ d.broker = session
  BY DEF Published, Fields
<1> HIDE DEF d
<1>3. d.error # "null" <=> pub[2] = "error"
  BY <1>1, <1>2
<1>4. d.ok <=> pub[2] # "error"
  BY <1>2
<1>5. ValidStatus(d)
  BY <1>1, <1>2, <1>3, <1>4 DEF ValidStatus
<1>6. Reads(d, who) <=> session = who
  BY <1>2, <1>5 DEF Reads
<1> QED BY <1>6 DEF StatusUnderstood, d

(* The requests of the run are such requests. *)
LEMMA RequestsTyped == MCRequests \subseteq Request
<1> DEFINE uids == {0, 999, 1000, 2147483647}
           callers == {1000, 2147483647, 999}
           frequencies == {-1, 0, 1, 2299, 2300, 7125, 7126}
           durations == {0, 59, 60, 1800, 1801}
<1>1. uids \subseteq Int /\ callers \subseteq Int /\ frequencies \subseteq Int /\ durations \subseteq Int
  BY SMT
<1>2. MCRequests = [session : {"good", "bad"}, interface : {"good"},
                    peer : {"unicast", "group", "zero", "bad"}, uid : uids, caller : callers,
                    user : {"known", "unknown"}, frequency : frequencies, duration : durations,
                    backend : {"direct", "networkmanager", "other"}]
  BY SMT DEF MCRequests
<1> HIDE DEF uids, callers, frequencies, durations
<1>3. ASSUME NEW r \in MCRequests PROVE r \in Request
  <2>1. /\ r.uid \in Int /\ r.caller \in Int /\ r.frequency \in Int /\ r.duration \in Int
        /\ r.session \in {"good", "bad"} /\ r.interface \in {"good", "bad"}
        /\ r.peer \in {"unicast", "group", "zero", "bad"} /\ r.user \in {"known", "unknown"}
        /\ r.backend \in {"direct", "networkmanager", "other"}
    <3>1. /\ r.uid \in uids /\ r.caller \in callers
          /\ r.frequency \in frequencies /\ r.duration \in durations
      BY <1>2, Zenon
    <3>2. r.session \in {"good", "bad"} /\ r.interface = "good"
      BY <1>2, Zenon
    <3>3. r.peer \in {"unicast", "group", "zero", "bad"} /\ r.user \in {"known", "unknown"}
      BY <1>2, Zenon
    <3>4. r.backend \in {"direct", "networkmanager", "other"}
      BY <1>2, Zenon
    <3> QED BY <1>1, <3>1, <3>2, <3>3, <3>4, Zenon
  <2>2. r = [session |-> r.session, interface |-> r.interface, peer |-> r.peer,
             uid |-> r.uid, caller |-> r.caller, user |-> r.user, frequency |-> r.frequency,
             duration |-> r.duration, backend |-> r.backend]
    BY <1>2, SMT
  <2> QED BY <2>1, <2>2, SMT DEF Request
<1> QED BY <1>3

(* ContractAgrees, for every request and every status: what the client lets *)
(* through for its own user the guard does not refuse behind the user's     *)
(* approval, the guard admits beyond that only group addresses and the      *)
(* address of zeros, and what one publishes the other understands           *)
(* (guard.py:47-87, 164-269, identity.py:11-18, the guard's lines 34-62).   *)
THEOREM ContractAlwaysAgrees ==
  /\ \A r \in Request : SidesAgree(r)
  /\ \A pub \in Publishable : \A session, who : StatusUnderstood(pub, session, who)
  /\ Spec => []ContractAgrees
<1>1. \A r \in Request : SidesAgree(r)
  BY SidesAlwaysAgree
<1>2. \A pub \in Publishable : \A session, who : StatusUnderstood(pub, session, who)
  BY StatusAlwaysUnderstood
<1>3. Typed => ContractAgrees
  <2>1. \A i \in MCStatuses : i[1] \in Publishable
    BY DEF MCStatuses
  <2> QED BY <1>1, <1>2, <2>1, RequestsTyped DEF ContractAgrees, Typed
<1>4. Spec => []ContractAgrees
  BY <1>3, InputsTyped, PTL
<1> QED BY <1>1, <1>2, <1>4

-----------------------------------------------------------------------------
(* WfdFixture: the order of the negotiation *)

(* The recursion of Negotiated has a solution. *)
LEMMA PhasesExist ==
  ASSUME NEW t, NEW l \in Nat
  PROVE  \E f : f = [n \in 0..l |-> IF n = 0 THEN 1 ELSE After(t[n], f[n - 1])]
<1> DEFINE P(k, f) == f = [n \in 0..k |-> IF n = 0 THEN 1 ELSE After(t[n], f[n - 1])]
           Bad == {k \in Nat : ~\E f : P(k, f)}
<1>1. ASSUME NEW k \in Nat, NEW f, P(k, f)
      PROVE  \E g : P(k + 1, g)
  <2> DEFINE g == [n \in 0..(k + 1) |-> IF n = k + 1 THEN After(t[n], f[k]) ELSE f[n]]
  <2>1. ASSUME NEW n \in 0..(k + 1) PROVE g[n] = IF n = 0 THEN 1 ELSE After(t[n], g[n - 1])
    <3>1. CASE n = k + 1
      <4>1. g[n] = After(t[n], f[k]) /\ g[k] = f[k] /\ n - 1 = k /\ n # 0
        BY <3>1
      <4> QED BY <4>1
    <3>2. CASE n = 0
      <4>1. g[n] = f[0] /\ f[0] = 1
        BY <1>1, <3>2
      <4> QED BY <3>2, <4>1
    <3>3. CASE n \in 1..k
      <4>1. g[n] = f[n] /\ n - 1 \in 0..k /\ n \in 0..k /\ g[n - 1] = f[n - 1] /\ n # 0
        BY <3>3
      <4>2. f[n] = After(t[n], f[n - 1])
        BY <1>1, <4>1
      <4> QED BY <4>1, <4>2
    <3> QED BY <3>1, <3>2, <3>3
  <2>2. g = [n \in 0..(k + 1) |-> g[n]]
    OBVIOUS
  <2> HIDE DEF g
  <2>3. P(k + 1, g)
    BY <2>1, <2>2
  <2> QED BY <2>3
<1>2. \E f : P(0, f)
  <2>1. P(0, [n \in 0..0 |-> 1])
    OBVIOUS
  <2> QED BY <2>1
<1>3. Bad = {}
  <2> SUFFICES ASSUME Bad # {} PROVE FALSE
    OBVIOUS
  <2>1. Bad \subseteq Nat
    OBVIOUS
  <2>2. PICK k \in Bad : \A j \in Bad : k <= j
    BY <2>1, LeastOf, Zenon
  <2>3. k # 0 /\ k \in Nat /\ ~\E f : P(k, f)
    BY <1>2, <2>2
  <2>4. k - 1 \in Nat /\ ~(k <= k - 1) /\ (k - 1) + 1 = k
    BY <2>3
  <2>5. \E f : P(k - 1, f)
    BY <2>2, <2>4
  <2> QED BY <1>1, <2>3, <2>4, <2>5
<1> QED BY <1>3

(* Negotiated is the last of these phases. *)
LEMMA NegotiatedIsLast ==
  ASSUME NEW t, Len(t) \in Nat
  PROVE  \E f : /\ f = [n \in 0..Len(t) |-> IF n = 0 THEN 1 ELSE After(t[n], f[n - 1])]
                /\ Negotiated(t) = f[Len(t)]
<1> DEFINE f == CHOOSE f : f = [n \in 0..Len(t) |-> IF n = 0 THEN 1 ELSE After(t[n], f[n - 1])]
<1>1. f = [n \in 0..Len(t) |-> IF n = 0 THEN 1 ELSE After(t[n], f[n - 1])]
  BY PhasesExist, Zenon
<1>2. Negotiated(t) = f[Len(t)]
  BY Zenon DEF Negotiated
<1> QED BY <1>1, <1>2

(* A phase tells how many messages came, and that each was the one expected. *)
LEMMA PhasesInOrder ==
  ASSUME NEW t, NEW l \in Nat, NEW f,
         f = [n \in 0..l |-> IF n = 0 THEN 1 ELSE After(t[n], f[n - 1])]
  PROVE  \A n \in 0..l :
           /\ f[n] \in 0..7 /\ (f[n] \in 1..6 => f[n] = n + 1) /\ (f[n] = 7 => n >= 6)
           /\ f[n] # 0 => \A i \in 1..6 : i <= n => t[i].wellformed /\ Expected(t[i], i)
<1> DEFINE Taken(i) == t[i].wellformed /\ Expected(t[i], i)
           Inv(n) == /\ f[n] \in 0..7 /\ (f[n] \in 1..6 => f[n] = n + 1) /\ (f[n] = 7 => n >= 6)
                     /\ f[n] # 0 => \A i \in 1..6 : i <= n => Taken(i)
           Bad == {n \in 0..l : ~Inv(n)}
<1>1. Inv(0)
  <2>1. f[0] = 1
    OBVIOUS
  <2> QED BY <2>1
<1>2. ASSUME NEW n \in 1..l, Inv(n - 1) PROVE Inv(n)
  <2>1. f[n] = After(t[n], f[n - 1]) /\ n - 1 \in 0..l
    OBVIOUS
  <2>2. CASE f[n - 1] \in {0, 7}
    <3>1. f[n] = f[n - 1]
      BY <2>1, <2>2 DEF After
    <3>2. f[n] = 7 => n - 1 >= 6
      BY <1>2, <3>1
    <3> QED BY <1>2, <2>2, <3>1, <3>2
  <2>3. CASE f[n - 1] \in 1..6
    <3>1. f[n - 1] = n /\ f[n - 1] # 0
      BY <1>2, <2>3
    <3>2. CASE Taken(n)
      <4>1. f[n] = n + 1 /\ n \in 1..6
        BY <2>1, <2>3, <3>1, <3>2 DEF After
      <4> HIDE DEF Taken
      <4>2. \A i \in 1..6 : i <= n - 1 => Taken(i)
        BY <1>2, <3>1, Zenon
      <4>3. \A i \in 1..6 : i <= n => i <= n - 1 \/ i = n
        OBVIOUS
      <4>4. \A i \in 1..6 : i <= n => Taken(i)
        BY <3>2, <4>2, <4>3, Zenon
      <4>5. f[n] \in 0..7 /\ (f[n] \in 1..6 => f[n] = n + 1) /\ (f[n] = 7 => n >= 6)
        BY <4>1
      <4> QED BY <4>4, <4>5, Zenon
    <3>3. CASE ~Taken(n)
      <4>1. f[n] = 0
        BY <2>1, <2>3, <3>1, <3>3 DEF After
      <4> QED BY <4>1
    <3> QED BY <3>2, <3>3
  <2> QED BY <1>2, <2>2, <2>3
<1>3. Bad = {}
  <2> SUFFICES ASSUME Bad # {} PROVE FALSE
    OBVIOUS
  <2>1. Bad \subseteq Nat
    OBVIOUS
  <2>2. PICK n \in Bad : \A j \in Bad : n <= j
    BY <2>1, LeastOf, Zenon
  <2> HIDE DEF Inv
  <2>3. n \in 0..l /\ ~Inv(n)
    BY <2>2
  <2>4. n # 0
    BY <1>1, <2>3
  <2>5. n \in 1..l /\ n - 1 \in 0..l /\ ~(n <= n - 1)
    BY <2>3, <2>4
  <2>6. Inv(n - 1)
    BY <2>2, <2>5
  <2> QED BY <1>2, <2>3, <2>5, <2>6
<1> HIDE DEF Inv
<1>4. \A n \in 0..l : Inv(n)
  BY <1>3
<1> QED BY <1>4 DEF Inv

(* For every transcript: a negotiation is completed in the order of RTSP. *)
LEMMA AlwaysInOrder ==
  ASSUME NEW t, Len(t) \in Nat
  PROVE  CompletedInOrder(t)
<1> SUFFICES ASSUME Negotiated(t) = 7
             PROVE  /\ Len(t) >= 6
                    /\ \A n \in 1..6 : t[n].wellformed /\ (t[n].response <=> n <= 4)
                    /\ \A n \in 1..4 : t[n].number = n
                    /\ t[2].video /\ t[2].ports
                    /\ t[5].method = "SETUP" /\ t[6].method = "PLAY"
  BY DEF CompletedInOrder, Result
<1>1. PICK f : /\ f = [n \in 0..Len(t) |-> IF n = 0 THEN 1 ELSE After(t[n], f[n - 1])]
               /\ Negotiated(t) = f[Len(t)]
  BY NegotiatedIsLast
<1> DEFINE l == Len(t)
<1>2. l \in 0..l /\ f[l] = 7
  BY <1>1
<1>3. l >= 6 /\ \A i \in 1..6 : i <= l => t[i].wellformed /\ Expected(t[i], i)
  <2>1. l \in Nat
    BY <1>2
  <2>2. \A n \in 0..l :
          /\ f[n] \in 0..7 /\ (f[n] \in 1..6 => f[n] = n + 1) /\ (f[n] = 7 => n >= 6)
          /\ f[n] # 0 => \A i \in 1..6 : i <= n => t[i].wellformed /\ Expected(t[i], i)
    BY <1>1, <2>1, PhasesInOrder, ZenonT(40)
  <2> QED BY <1>2, <2>2
<1>4. \A i \in 1..6 : t[i].wellformed /\ Expected(t[i], i)
  BY <1>3
<1>5. \A i \in 1..4 : t[i].response /\ t[i].number = i
  <2>1. ASSUME NEW i \in {1, 3, 4} PROVE Answers(t[i], i)
    BY <1>4, <2>1 DEF Expected
  <2>2. Answers(t[2], 2)
    BY <1>4 DEF Expected
  <2>3. \A i \in 1..4 : Answers(t[i], i)
    BY <2>1, <2>2
  <2> QED BY <2>3 DEF Answers
<1>6. ~t[5].response /\ t[5].method = "SETUP" /\ ~t[6].response /\ t[6].method = "PLAY"
  BY <1>4 DEF Expected
<1>7. t[2].video /\ t[2].ports
  BY <1>4 DEF Expected
<1>8. ASSUME NEW n \in 1..6 PROVE t[n].response <=> n <= 4
  BY <1>5, <1>6
<1> QED BY <1>3, <1>4, <1>5, <1>6, <1>7, <1>8

(* WfdInOrder, for every transcript: whatever messages come, the fixture is *)
(* completed only by M1 to M7 in their order (wfd_fixture.py:94-157).       *)
THEOREM TranscriptsInOrder ==
  /\ \A t : Len(t) \in Nat => CompletedInOrder(t)
  /\ Spec => []WfdInOrder
<1>1. \A t : Len(t) \in Nat => CompletedInOrder(t)
  BY AlwaysInOrder
<1>2. Typed => WfdInOrder
  <2>1. \A t \in Seq(Messages) : Len(t) \in Nat
    OBVIOUS
  <2> QED BY <1>1, <2>1 DEF Typed, WfdInOrder
<1>3. Spec => []WfdInOrder
  BY <1>2, InputsTyped, PTL
<1> QED BY <1>1, <1>3

-----------------------------------------------------------------------------
(* TelemetryReadings: the window on the progress file *)

(* The unit of the progress file at a place, and what a text is made of. *)
UnitAt(j) == [rec  |-> ((j - 1) \div 4) + 1,
              key  |-> IF (j - 1) % 4 < 2 THEN "frame" ELSE "progress",
              part |-> ((j - 1) % 2) + 1]
Units == {UnitAt(j) : j \in Nat} \cup {Separator}

(* The tail of the window holds two records at every offset. *)
TailIsLong == Limit - HeadSize >= 9

(* Behind its first h units a text is the file shifted by c. *)
IsFile(text, h, l, c) == Len(text) = l /\ \A i \in (h + 1)..l : text[i] = UnitAt(i + c)

(* The last end of a record in the text is at p, the end of record q + 1. *)
EndsAt(l, c, p, q) == p + c = 4 * q + 3 /\ l - p \in 0..3

FromBegin(h, l, c) == (h = 0 /\ c = 0) \/ l >= h + 8

LEMMA FileUnits ==
  ASSUME NEW size \in Nat
  PROVE  /\ ProgressFile(size) \in Seq(Units) /\ Len(ProgressFile(size)) = size
         /\ \A j \in 1..size : ProgressFile(size)[j] = UnitAt(j)
<1>1. ProgressFile(size) = [i \in 1..size |-> UnitAt(i)]
  BY DEF ProgressFile, UnitAt
<1>2. \A i \in 1..size : UnitAt(i) \in Units
  BY DEF Units
<1> HIDE DEF UnitAt
<1> QED BY <1>1, <1>2

(* Behind the head and the separator, the text is the file but for its last *)
(* unit.                                                                    *)
LEMMA TextUnits ==
  ASSUME NEW size \in Nat, size > Limit, TailIsLong
  PROVE  LET text == BoundedRead(ProgressFile(size))
         IN  /\ Len(text) = Limit
             /\ \A i \in (HeadSize + 2)..Limit : text[i] = UnitAt(i + (size - Limit - 1))
<1> DEFINE file == ProgressFile(size)
           head == SubSeq(file, 1, HeadSize)
           tail == SubSeq(file, size - (Limit - HeadSize) + 1, size)
           whole == head \o <<Separator>> \o tail
<1>0. HeadSize \in Nat /\ Limit \in Nat /\ HeadSize < Limit /\ Separator \in Units
  BY WindowAssumption DEF Units
<1>1. file \in Seq(Units) /\ Len(file) = size /\ \A j \in 1..size : file[j] = UnitAt(j)
  BY FileUnits
<1> HIDE DEF file
<1>2. BoundedRead(file) = SubSeq(whole, 1, Limit)
  BY <1>0, <1>1 DEF BoundedRead
<1>3. \A j \in 1..size : file[j] \in Units
  BY <1>1
<1>4. head \in Seq(Units) /\ Len(head) = HeadSize
  <2>1. 1 \in 1..(size+1) /\ HeadSize \in 0..size /\ \A j \in 1..HeadSize : j \in 1..size
    BY <1>0
  <2> QED BY <1>0, <1>1, <1>3, <2>1, SubSeqProperties
<1>5. /\ tail \in Seq(Units) /\ Len(tail) = Limit - HeadSize
      /\ \A j \in 1..(Limit - HeadSize) : tail[j] = UnitAt(size - (Limit - HeadSize) + j)
  <2> DEFINE m == size - (Limit - HeadSize)
  <2>1. m \in Nat /\ m + 1 \in 1..(size + 1) /\ size - (m + 1) + 1 = Limit - HeadSize
    BY <1>0
  <2>2. \A j \in 1..(Limit - HeadSize) : m + j \in 1..size /\ (m + 1) + j - 1 = m + j
    BY <1>0
  <2>3. tail = SubSeq(file, m + 1, size)
    OBVIOUS
  <2> HIDE DEF m, tail
  <2>4. /\ tail \in Seq(Units) /\ Len(tail) = Limit - HeadSize
        /\ \A j \in 1..(Limit - HeadSize) : tail[j] = file[(m + 1) + j - 1]
    BY <1>0, <1>1, <1>3, <2>1, <2>3, SubSeqProperties
  <2>5. \A j \in 1..(Limit - HeadSize) : tail[j] = UnitAt(m + j)
    BY <1>1, <2>2, <2>4
  <2> QED BY <2>4, <2>5 DEF m
<1> HIDE DEF head, tail
<1> DEFINE front == head \o <<Separator>>
<1>6. front \in Seq(Units) /\ Len(front) = HeadSize + 1
  BY <1>0, <1>4
<1> HIDE DEF front
<1>7. /\ whole \in Seq(Units) /\ Len(whole) = Limit + 1
      /\ \A i \in (HeadSize + 2)..(Limit + 1) : whole[i] = tail[i - (HeadSize + 1)]
  <2>1. whole = front \o tail
    BY DEF front
  <2>2. /\ front \o tail \in Seq(Units) /\ Len(front \o tail) = Len(front) + Len(tail)
        /\ \A i \in 1..(Len(front) + Len(tail)) :
             (front \o tail)[i] = IF i <= Len(front) THEN front[i] ELSE tail[i - Len(front)]
    BY <1>5, <1>6, ConcatProperties, Zenon
  <2>3. Len(front) + Len(tail) = Limit + 1
    BY <1>0, <1>5, <1>6
  <2> HIDE DEF whole
  <2> QED BY <1>0, <1>6, <2>1, <2>2, <2>3
<1> HIDE DEF whole
<1>8. /\ Len(SubSeq(whole, 1, Limit)) = Limit
      /\ \A i \in 1..Limit : SubSeq(whole, 1, Limit)[i] = whole[i]
  <2>1. \A i \in 1..(Limit + 1) : whole[i] \in Units
    BY <1>7
  <2> QED BY <1>0, <1>7, <2>1, SubSeqProperties
<1>9. ASSUME NEW i \in (HeadSize + 2)..Limit
      PROVE  BoundedRead(file)[i] = UnitAt(i + (size - Limit - 1))
  <2>1. /\ i \in 1..Limit /\ i \in (HeadSize + 2)..(Limit + 1)
        /\ i - (HeadSize + 1) \in 1..(Limit - HeadSize)
        /\ size - (Limit - HeadSize) + (i - (HeadSize + 1)) = i + (size - Limit - 1)
    BY <1>0
  <2>2. BoundedRead(file)[i] = tail[i - (HeadSize + 1)]
    BY <1>2, <1>7, <1>8, <2>1
  <2> QED BY <1>5, <2>1, <2>2
<1> QED BY <1>2, <1>8, <1>9 DEF file

(* The facts of a unit: its key, what ends a record, and what follows it. *)
LEMMA UnitFacts ==
  ASSUME NEW j \in Nat, j >= 1
  PROVE  /\ UnitAt(j).part = 1 <=> j % 2 = 1
         /\ UnitAt(j).part = 1 /\ UnitAt(j).key = "progress" <=> j % 4 = 3
         /\ UnitAt(j).key = "frame" <=> j % 4 \in {1, 2}
         /\ j % 4 = 1 => UnitAt(j + 1) = [UnitAt(j) EXCEPT !.part = 2]
<1>1. PICK q \in Nat, r \in 0..3 : j - 1 = 4 * q + r
  <2>1. (j - 1) \div 4 \in Nat /\ (j - 1) % 4 \in 0..3 /\ j - 1 = 4 * ((j - 1) \div 4) + ((j - 1) % 4)
    OBVIOUS
  <2> QED BY <2>1
<1>2. /\ (j - 1) % 4 = r /\ (j - 1) \div 4 = q /\ (j - 1) % 2 = r % 2
      /\ j % 2 = (r + 1) % 2 /\ j % 4 = (r + 1) % 4
  BY <1>1
<1>3. UnitAt(j) = [rec |-> q + 1, key |-> IF r < 2 THEN "frame" ELSE "progress", part |-> (r % 2) + 1]
  BY <1>2 DEF UnitAt
<1>4. CASE r = 0
  <2>1. j % 2 = 1 /\ j % 4 = 1
    BY <1>2, <1>4
  <2>2. UnitAt(j) = [rec |-> q + 1, key |-> "frame", part |-> 1]
    BY <1>3, <1>4
  <2>3. UnitAt(j + 1) = [rec |-> q + 1, key |-> "frame", part |-> 2]
    <3>1. (j + 1) - 1 = 4 * q + 1
      BY <1>1, <1>4
    <3>2. ((j + 1) - 1) \div 4 = q /\ ((j + 1) - 1) % 4 = 1 /\ ((j + 1) - 1) % 2 = 1
      BY <3>1
    <3> QED BY <3>2 DEF UnitAt
  <2>4. [UnitAt(j) EXCEPT !.part = 2] = [rec |-> q + 1, key |-> "frame", part |-> 2]
    BY <2>2
  <2> QED BY <2>1, <2>2, <2>3, <2>4
<1>5. CASE r = 1
  <2>1. j % 2 = 0 /\ j % 4 = 2
    BY <1>2, <1>5
  <2>2. UnitAt(j) = [rec |-> q + 1, key |-> "frame", part |-> 2]
    BY <1>3, <1>5
  <2> QED BY <2>1, <2>2
<1>6. CASE r = 2
  <2>1. j % 2 = 1 /\ j % 4 = 3
    BY <1>2, <1>6
  <2>2. UnitAt(j) = [rec |-> q + 1, key |-> "progress", part |-> 1]
    BY <1>3, <1>6
  <2> QED BY <2>1, <2>2
<1>7. CASE r = 3
  <2>1. j % 2 = 0 /\ j % 4 = 0
    BY <1>2, <1>7
  <2>2. UnitAt(j) = [rec |-> q + 1, key |-> "progress", part |-> 2]
    BY <1>3, <1>7
  <2> QED BY <2>1, <2>2
<1> QED BY <1>1, <1>4, <1>5, <1>6, <1>7

(* The greatest of a set is the one chosen. *)
LEMMA Greatest ==
  ASSUME NEW S, S \subseteq Int, NEW p \in S, \A i \in S : i <= p
  PROVE  (CHOOSE i \in S : \A j \in S : j <= i) = p
<1> DEFINE m == CHOOSE i \in S : \A j \in S : j <= i
<1>1. m \in S /\ \A j \in S : j <= m
  OBVIOUS
<1> HIDE DEF m
<1>2. m = p
  BY <1>1
<1> QED BY <1>2 DEF m

(* A text that from h on is the file from c + h on, and the file's begin or  *)
(* long enough for two ends of records, shows the two keys of the record of  *)
(* its last end.                                                             *)
LEMMA LastRecord ==
  ASSUME NEW text, NEW l \in Nat, NEW h \in Nat, NEW c \in Nat, IsFile(text, h, l, c),
         FromBegin(h, l, c), NEW p \in Int, NEW q \in Nat, EndsAt(l, c, p, q)
  PROVE  /\ p - 2 \in (h + 1)..l /\ p - 1 \in (h + 1)..l /\ p \in (h + 1)..l
         /\ Progress(text) = {p - 2, p}
<1> DEFINE ends == {i \in 1..l : KeyAt(text, i) /\ text[i].key = "progress"}
           last == CHOOSE i \in ends : \A j \in ends : j <= i
           before == {i \in ends : i < last}
           from == IF before = {} THEN 0 ELSE CHOOSE i \in before : \A j \in before : j <= i
<1>0. Len(text) = l /\ \A i \in (h + 1)..l : text[i] = UnitAt(i + c)
  BY DEF IsFile
<1>r. PICK r \in 0..3 : p + r = l
  BY DEF EndsAt
<1>1. /\ p \in Int /\ p + c = 4 * q + 3 /\ p + r = l /\ p - 2 >= h + 1
      /\ (h = 0 /\ c = 0 /\ p = 3) \/ p - 4 >= h + 1
  <2>1. p \in Int /\ p + c = 4 * q + 3 /\ p + r = l
    BY <1>r DEF EndsAt
  <2>2. CASE h = 0 /\ c = 0 /\ q = 0
    BY <2>1, <2>2
  <2>3. CASE h = 0 /\ c = 0 /\ q >= 1
    BY <2>1, <2>3
  <2>4. CASE l >= h + 8
    BY <2>1, <2>4
  <2> QED BY <2>1, <2>2, <2>3, <2>4 DEF FromBegin
<1>2. p - 2 \in (h + 1)..l /\ p \in (h + 1)..l /\ p - 1 \in (h + 1)..l
  BY <1>1
<1>3. ASSUME NEW i \in (h + 1)..l
      PROVE  /\ i \in ends <=> (i + c) % 4 = 3
             /\ KeyAt(text, i) <=> (i + c) % 2 = 1
  <2>1. i + c \in Nat /\ i + c >= 1 /\ i \in 1..l /\ text[i] = UnitAt(i + c)
    BY <1>0
  <2>2. KeyAt(text, i) <=> UnitAt(i + c).part = 1
    BY <2>1 DEF KeyAt
  <2>3. i \in ends <=> UnitAt(i + c).part = 1 /\ UnitAt(i + c).key = "progress"
    BY <2>1 DEF KeyAt
  <2> HIDE DEF ends
  <2> QED BY <2>1, <2>2, <2>3, UnitFacts
<1>4. ends \subseteq 1..l
  OBVIOUS
<1> HIDE DEF ends
<1>5. p \in ends /\ \A i \in ends : i <= p
  <2>1. p \in ends
    BY <1>1, <1>2, <1>3
  <2>2. ASSUME NEW i \in (p + 1)..l PROVE i \notin ends
    <3>1. i \in (h + 1)..l /\ i + c \in (4 * q + 4)..(4 * q + 6)
      BY <1>1
    <3>2. (i + c) % 4 # 3
      BY <3>1
    <3> QED BY <1>3, <3>1, <3>2
  <2> QED BY <1>1, <1>4, <2>1, <2>2
<1>6. last = p
  <2>1. ends \subseteq Int
    BY <1>4
  <2> QED BY <1>5, <2>1, Greatest, Zenon
<1> HIDE DEF last
<1>7. ASSUME NEW i \in (h + 1)..l, i > p - 4, i < p PROVE i \notin ends
  <2>1. i + c \in (4 * q)..(4 * q + 2) /\ i + c \in Nat
    BY <1>1, <1>7
  <2>2. (i + c) % 4 # 3
    BY <2>1
  <2> QED BY <1>3, <2>2
<1>8. from \in Nat /\ from < p - 2 /\ (from = p - 4 \/ (from = 0 /\ p = 3))
      /\ h <= from
  <2>1. CASE h = 0 /\ c = 0 /\ p = 3
    <3>1. before = {}
      <4> SUFFICES ASSUME NEW i \in before PROVE FALSE
        OBVIOUS
      <4>1. i \in ends /\ i < p /\ i \in 1..l
        BY <1>4, <1>6
      <4>2. i \in (h + 1)..l /\ i > p - 4
        BY <2>1, <4>1
      <4> QED BY <1>7, <4>1, <4>2
    <3> QED BY <2>1, <3>1
  <2>2. CASE p - 4 >= h + 1
    <3>1. p - 4 \in (h + 1)..l /\ (p - 4) + c = 4 * q - 1 /\ 4 * q - 1 = 4 * (q - 1) + 3
      BY <1>1, <2>2
    <3>2. ((p - 4) + c) % 4 = 3
      BY <3>1
    <3>3. p - 4 \in before
      BY <1>1, <1>3, <1>6, <3>1, <3>2
    <3>4. \A i \in before : i <= p - 4
      <4> SUFFICES ASSUME NEW i \in before, i > p - 4 PROVE FALSE
        BY <1>1, <1>4
      <4>1. i \in (h + 1)..l /\ i < p /\ i \in ends
        BY <1>1, <1>4, <1>6, <2>2
      <4> QED BY <1>7, <4>1
    <3>5. before \subseteq Int /\ before # {}
      <4>1. before \subseteq ends
        OBVIOUS
      <4> HIDE DEF before
      <4> QED BY <1>4, <3>3, <4>1
    <3> HIDE DEF before
    <3>6. (CHOOSE i \in before : \A j \in before : j <= i) = p - 4
      BY <3>3, <3>4, <3>5, Greatest, Zenon
    <3>7. from = p - 4
      BY <3>5, <3>6
    <3>8. p - 4 \in Nat /\ p - 4 < p - 2 /\ h <= p - 4
      BY <1>1, <2>2
    <3> HIDE DEF from
    <3> QED BY <3>7, <3>8
  <2> QED BY <1>1, <2>1, <2>2
<1>9. Progress(text) = {i \in (from + 1)..last : KeyAt(text, i)}
  BY <1>0, <1>5 DEF Progress, ends, last
<1> HIDE DEF from
<1>10. {i \in (from + 1)..p : KeyAt(text, i)} = {p - 2, p}
  <2>1. ASSUME NEW i \in (from + 1)..p PROVE KeyAt(text, i) <=> i \in {p - 2, p}
    <3>1. i \in (h + 1)..l /\ i \in (p - 3)..p
      BY <1>1, <1>8
    <3>2. (i + c) % 2 = 1 <=> i \in {p - 2, p}
      <4>1. i = p - 3 \/ i = p - 2 \/ i = p - 1 \/ i = p
        BY <1>1, <3>1
      <4>2. p \in Int /\ p + c = 4 * q + 3
        BY <1>1
      <4>3. CASE i = p - 3
        <5>1. i + c = 4 * q
          BY <4>2, <4>3
        <5> QED BY <4>2, <4>3, <5>1
      <4>4. CASE i = p - 2
        <5>1. i + c = 4 * q + 1
          BY <4>2, <4>4
        <5> QED BY <4>2, <4>4, <5>1
      <4>5. CASE i = p - 1
        <5>1. i + c = 4 * q + 2
          BY <4>2, <4>5
        <5> QED BY <4>2, <4>5, <5>1
      <4>6. CASE i = p
        <5>1. i + c = 4 * q + 3
          BY <4>2, <4>6
        <5> QED BY <4>2, <4>6, <5>1
      <4> QED BY <4>1, <4>3, <4>4, <4>5, <4>6
    <3> QED BY <1>3, <3>1, <3>2
  <2>2. p - 2 \in (from + 1)..p /\ p \in (from + 1)..p
    BY <1>1, <1>8
  <2> QED BY <2>1, <2>2
<1> QED BY <1>2, <1>6, <1>9, <1>10

(* For every size of the file and every window with two records in its tail. *)
LEMMA NewestAlwaysShown ==
  ASSUME NEW size \in Nat, TailIsLong
  PROVE  NewestRecordShown(size)
<1> DEFINE file == ProgressFile(size)
           text == BoundedRead(file)
           l == IF size <= Limit THEN size ELSE Limit
           h == IF size <= Limit THEN 0 ELSE HeadSize + 1
           c == IF size <= Limit THEN 0 ELSE size - Limit - 1
           done == size \div 4
<1>0. HeadSize \in Nat /\ Limit \in Nat /\ Limit - HeadSize >= 9
  BY WindowAssumption DEF TailIsLong
<1>1. /\ l \in Nat /\ h \in Nat /\ c \in Nat /\ Len(text) = l
      /\ \A i \in (h + 1)..l : text[i] = UnitAt(i + c)
  <2>1. CASE size <= Limit
    <3>1. text = file
      BY <1>0, <2>1, FileUnits DEF BoundedRead
    <3>2. l = size /\ h = 0 /\ c = 0
      BY <2>1
    <3>3. Len(file) = size /\ \A i \in 1..size : file[i] = UnitAt(i)
      BY FileUnits
    <3> HIDE DEF file, text, l, h, c
    <3> QED BY <3>1, <3>2, <3>3
  <2>2. CASE size > Limit
    <3>1. l = Limit /\ h = HeadSize + 1 /\ c = size - Limit - 1
      BY <1>0, <2>2
    <3>2. Len(text) = Limit /\ \A i \in (HeadSize + 2)..Limit : text[i] = UnitAt(i + (size - Limit - 1))
      BY <2>2, TextUnits
    <3> HIDE DEF text, l, h, c
    <3> QED BY <1>0, <2>2, <3>1, <3>2
  <2> QED BY <1>0, <2>1, <2>2
<1>2. /\ (h = 0 /\ c = 0) \/ l >= h + 8
      /\ l + c = size \/ (l + c = size - 1 /\ l + c >= 8)
  <2>1. CASE size <= Limit
    <3>1. l = size /\ h = 0 /\ c = 0
      BY <2>1
    <3> HIDE DEF l, h, c
    <3> QED BY <1>1, <3>1
  <2>2. CASE size > Limit
    <3>1. l = Limit /\ h = HeadSize + 1 /\ c = size - Limit - 1
      BY <1>0, <2>2
    <3> HIDE DEF l, h, c
    <3> QED BY <1>0, <2>2, <3>1
  <2> QED BY <1>0, <2>1, <2>2
<1> HIDE DEF l, h, c, text
<1>3. CASE l + c >= 3
  <2>1. PICK q \in Nat, r \in 0..3 : l + c = 4 * q + 3 + r
    <3>1. /\ (l + c - 3) \div 4 \in Nat /\ (l + c - 3) % 4 \in 0..3
          /\ l + c - 3 = 4 * ((l + c - 3) \div 4) + ((l + c - 3) % 4)
      BY <1>1, <1>3
    <3> QED BY <1>1, <3>1
  <2> DEFINE p == 4 * q + 3 - c
  <2>2. p = 4 * q + 3 - c /\ p \in Int /\ p + c = 4 * q + 3
    BY <1>1
  <2> HIDE DEF p
  <2>3. /\ p - 2 \in (h + 1)..l /\ p - 1 \in (h + 1)..l /\ p \in (h + 1)..l
        /\ Progress(text) = {p - 2, p}
    <3>1. FromBegin(h, l, c)
      BY <1>2 DEF FromBegin
    <3>2. IsFile(text, h, l, c) /\ l \in Nat /\ h \in Nat /\ c \in Nat
      BY <1>1 DEF IsFile
    <3>3. EndsAt(l, c, p, q) /\ p \in Int
      BY <1>1, <2>1, <2>2 DEF EndsAt
    <3> QED BY <3>1, <3>2, <3>3, LastRecord, Zenon
  <2>4. /\ text[p] = UnitAt(4 * q + 3) /\ text[p - 2] = UnitAt(4 * q + 1)
        /\ text[p - 1] = UnitAt(4 * q + 2)
    <3>1. p + c = 4 * q + 3 /\ (p - 2) + c = 4 * q + 1 /\ (p - 1) + c = 4 * q + 2
      BY <1>1, <2>2
    <3>2. text[p] = UnitAt(p + c) /\ text[p - 2] = UnitAt((p - 2) + c) /\ text[p - 1] = UnitAt((p - 1) + c)
      BY <1>1, <2>3
    <3> QED BY <3>1, <3>2
  <2>5. /\ text[p] = [rec |-> q + 1, key |-> "progress", part |-> 1]
        /\ text[p - 2] = [rec |-> q + 1, key |-> "frame", part |-> 1]
        /\ text[p - 1] = [rec |-> q + 1, key |-> "frame", part |-> 2]
    <3>1. /\ ((4 * q + 3) - 1) \div 4 = q /\ ((4 * q + 3) - 1) % 4 = 2 /\ ((4 * q + 3) - 1) % 2 = 0
          /\ ((4 * q + 1) - 1) \div 4 = q /\ ((4 * q + 1) - 1) % 4 = 0 /\ ((4 * q + 1) - 1) % 2 = 0
          /\ ((4 * q + 2) - 1) \div 4 = q /\ ((4 * q + 2) - 1) % 4 = 1 /\ ((4 * q + 2) - 1) % 2 = 1
      OBVIOUS
    <3> QED BY <2>4, <3>1 DEF UnitAt
  <2>6. q + 1 \in {done, done + 1}
    <3>1. size >= 4 * q + 3 /\ size <= 4 * q + 7
      BY <1>1, <1>2, <2>1
    <3> QED BY <3>1
  <2>7. WholeAt(text, p - 2)
    <3>1. p - 2 < Len(text) /\ (p - 2) + 1 = p - 1
      BY <1>1, <2>3, <2>2
    <3>2. [text[p - 2] EXCEPT !.part = 2] = [rec |-> q + 1, key |-> "frame", part |-> 2]
      BY <2>5
    <3> QED BY <2>5, <3>1, <3>2 DEF WholeAt
  <2>8. {<<text[i].rec, text[i].key>> : i \in {p - 2, p}} = {<<q + 1, "frame">>, <<q + 1, "progress">>}
    BY <2>5
  <2> HIDE DEF done
  <2>9. \A i \in {p - 2, p} : text[i].rec = q + 1 /\ (text[i].key = "frame" => i = p - 2)
    BY <2>5
  <2> QED BY <2>3, <2>6, <2>7, <2>8, <2>9 DEF NewestRecordShown, text, file, done
<1>4. CASE l + c < 3
  <2>1. h = 0 /\ c = 0 /\ l = size /\ l \in 0..2
    BY <1>1, <1>2, <1>4
  <2>2. \A i \in 1..l : ~(KeyAt(text, i) /\ text[i].key = "progress")
    <3> SUFFICES ASSUME NEW i \in 1..l PROVE ~(KeyAt(text, i) /\ text[i].key = "progress")
      OBVIOUS
    <3>1. text[i] = UnitAt(i) /\ i \in Nat /\ i >= 1 /\ i % 4 # 3
      BY <1>1, <2>1
    <3> QED BY <3>1, UnitFacts DEF KeyAt
  <2>3. {i \in 1..Len(text) : KeyAt(text, i) /\ text[i].key = "progress"} = {}
    BY <1>1, <2>2
  <2>4. Progress(text) = {}
    BY <2>3 DEF Progress
  <2>5. done = 0
    BY <2>1
  <2> HIDE DEF done
  <2> QED BY <2>4, <2>5 DEF NewestRecordShown, text, file, done
<1> QED BY <1>1, <1>3, <1>4

(* RecordsWhole, for a file of any size and any window whose tail holds two *)
(* records: a sample shows the newest finished record or the one before,    *)
(* whole, wherever the window cuts (telemetry.py:104-124, 480-492).         *)
THEOREM RecordsAreWhole ==
  TailIsLong => /\ \A size \in Nat : NewestRecordShown(size)
                /\ Spec => []RecordsWhole
<1> SUFFICES ASSUME TailIsLong
             PROVE  /\ \A size \in Nat : NewestRecordShown(size)
                    /\ Spec => []RecordsWhole
  OBVIOUS
<1>1. \A size \in Nat : NewestRecordShown(size)
  BY NewestAlwaysShown
<1>2. Typed => RecordsWhole
  BY <1>1 DEF Typed, RecordsWhole
<1>3. Spec => []RecordsWhole
  BY <1>2, InputsTyped, PTL
<1> QED BY <1>1, <1>3
=============================================================================
