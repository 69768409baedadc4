----------------------------- MODULE PairingPin -----------------------------
(***************************************************************************)
(* The WPS PIN a display shows: seven digits and a checksum digit, typed   *)
(* by the user and read from the standard input, up to its first newline.  *)
(***************************************************************************)
EXTENDS Naturals, Sequences

Digit == 0..9
Pin   == [1..8 -> Digit]

VARIABLE entry  \* the digits typed so far

Newline == 10  \* any symbol that is no digit

(* Seeded fault: all digits weigh the same. *)
Weighted_Uniform(p) == p[1] + p[2] + p[3] + p[4] + p[5] + p[6] + p[7]

(* Seeded fault: the weights are those of another checksum. *)
Weighted_Double(p) == 2 * (p[1] + p[3] + p[5] + p[7]) + p[2] + p[4] + p[6]

(* The loop of _checksum, from the last of seven digits; leading zeros, at *)
(* which it ends, would add nothing.                                       *)
Weighted(p) == 3 * (p[1] + p[3] + p[5] + p[7]) + p[2] + p[4] + p[6]

Checksum(p) == (10 - (Weighted(p) % 10)) % 10

(* validate_pairing_pin *)
Valid(p) == p \in Pin /\ Checksum(p) = p[8]

(* readline(10): all up to the first newline, or the first ten symbols. *)
Line(input) ==
  LET ends == {i \in 1..Len(input) : i = 10 \/ i = Len(input) \/ input[i] = Newline}
  IN  SubSeq(input, 1, CHOOSE i \in ends : \A j \in ends : i <= j)

(* Seeded fault: a line without its end is read as a PIN. *)
Accepted_Open(input) == Valid(SubSeq(Line(input), 1, 8))

(* read_pairing_pin_stdin *)
Accepted(input) ==
  LET line == Line(input)
  IN  /\ Len(line) \in 1..9 /\ line[Len(line)] = Newline
      /\ Valid(SubSeq(line, 1, Len(line) - 1))

-----------------------------------------------------------------------------
EntryInit == entry = <<>>
Type(d)   == Len(entry) < 8 /\ entry' = Append(entry, d)

SlipRefused(p) ==
  Valid(p) => \A i \in 1..8, d \in Digit : d # p[i] => ~Valid([p EXCEPT ![i] = d])

Swapped(p, i) == [p EXCEPT ![i] = p[i + 1], ![i + 1] = p[i]]

SwapRefused(p) ==
  Valid(p) => \A i \in 1..7 :
    Valid(Swapped(p, i)) => p[i] = p[i + 1] \/ p[i] = p[i + 1] + 5 \/ p[i + 1] = p[i] + 5

(* A PIN with one wrong digit is refused. *)
SlipDetected == SlipRefused(entry)

(* So is one with two neighbours swapped, unless they differ by five. *)
SwapDetected == SwapRefused(entry)

(* What is accepted is the PIN and the newline, nothing shorter or longer:  *)
(* with a digit left out or typed twice there is no PIN.                    *)
WholeLine ==
  Valid(entry) =>
    /\ Accepted(Append(entry, Newline))
    /\ ~Accepted(entry)
    /\ \A d \in Digit : ~Accepted(Append(Append(entry, d), Newline))
    /\ ~Accepted(Append(SubSeq(entry, 1, 7), Newline))

(* The usual slips of a user who types a PIN are told before any display is *)
(* asked: a wrong digit, two swapped, one too few or too many.              *)
TyposDetected == SlipDetected /\ SwapDetected /\ WholeLine
=============================================================================
