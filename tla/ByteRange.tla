----------------------------- MODULE ByteRange -----------------------------
(***************************************************************************)
(* The Range header of a GET: parse_range of src/handlers/object.rs, over  *)
(* unsigned integers that end at MaxU64, and what RFC 9110 says the header *)
(* asks for.                                                               *)
(*                                                                         *)
(* A header is its unit, how many pieces the "-" signs cut it into, and    *)
(* the first two of them: Blank, a number or Junk.                         *)
(***************************************************************************)
EXTENDS Integers, FiniteSets

CONSTANTS
    MaxU64,     \* 2^64 - 1 in the code
    Blank,      \* no text
    Junk        \* text that is not a number

ASSUME RangeAssumption == MaxU64 \in Nat /\ Blank \notin Nat /\ Junk \notin Nat /\ Blank # Junk

Headers == [unit : {"bytes", "other"}, pieces : Nat,
            first : Nat \cup {Blank, Junk}, last : Nat \cup {Blank, Junk}]

Sizes == 0 .. MaxU64

\* str::parse::<u64>
Parses(text) == text \in 0 .. MaxU64

Satisfiable(start, end) == [kind |-> "satisfiable", start |-> start, end |-> end]

Unsatisfiable == [kind |-> "unsatisfiable", start |-> 0, end |-> 0]

Invalid == [kind |-> "invalid", start |-> 0, end |-> 0]

Smaller(a, b) == IF a <= b THEN a ELSE b

\* saturating_sub
Less(a, b) == IF a >= b THEN a - b ELSE 0

\* Mutant: a suffix longer than the file is subtracted all the same.
WrappedSuffix(h, size) ==
    CASE ~ Parses(h.last) -> Invalid
      [] size = 0 -> Unsatisfiable
      [] OTHER -> Satisfiable((size - h.last) % (MaxU64 + 1), size - 1)

SuffixRange(h, size) ==
    CASE ~ Parses(h.last) \/ h.last = 0 -> Invalid
      [] Parses(h.last) /\ h.last # 0 /\ size = 0 -> Unsatisfiable
      [] OTHER -> Satisfiable(Less(size, h.last), size - 1)

FromRange(h, size) ==
    LET end == IF h.last = Blank THEN Less(size, 1) ELSE Smaller(h.last, Less(size, 1))
    IN  CASE ~ Parses(h.first) -> Invalid
          [] Parses(h.first) /\ h.first >= size -> Unsatisfiable
          [] OTHER -> IF (h.last = Blank \/ Parses(h.last)) /\ h.first <= end
                      THEN Satisfiable(h.first, end) ELSE Invalid

ParseRange(h, size) ==
    CASE h.unit # "bytes" \/ h.pieces # 2 \/ (h.first = Blank /\ h.last = Blank) -> Invalid
      [] h.unit = "bytes" /\ h.pieces = 2 /\ h.first = Blank /\ h.last # Blank ->
             SuffixRange(h, size)
      [] OTHER -> FromRange(h, size)

-----------------------------------------------------------------------------
(* RFC 9110, 14.1: what a range asks for.                                  *)

\* One range of bytes, of the forms first-last, first- and -suffix.
WellFormed(h) ==
    /\ h.unit = "bytes" /\ h.pieces = 2
    /\ h.first \in Nat \cup {Blank} /\ h.last \in Nat \cup {Blank}
    /\ {h.first, h.last} # {Blank}
    /\ h.first \in Nat /\ h.last \in Nat => h.first <= h.last

\* Numbers that the width of u64 holds.
Fits(h) == {h.first, h.last} \subseteq 0 .. MaxU64 \cup {Blank}

\* The positions that a well-formed range selects in a file.
Asked(h, size) ==
    {i \in 0 .. size - 1 :
        IF h.first = Blank THEN i >= size - h.last
        ELSE i >= h.first /\ (h.last = Blank \/ i <= h.last)}
=============================================================================
