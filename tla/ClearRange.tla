------------------------------ MODULE ClearRange ------------------------------
(***************************************************************************)
(* Bits.clearRange (bits.go) word by word: a partial first word, whole     *)
(* words, a partial last word, wrapping around the bitmap.  ReplayWindow   *)
(* uses what it promises: the circular range of positions is cleared and   *)
(* the number of bits that were set in it is returned.  A bitmap is the    *)
(* set of its positions that are set.                                      *)
(***************************************************************************)
EXTENDS Integers, FiniteSets, FiniteSetsExt

CONSTANTS
  WordBits,  \* bitsPerWord, 64 in bits.go
  Lengths    \* window lengths, powers of two

ASSUME ClearRangeAssumption ==
  WordBits \in Nat \ {0} /\ Lengths \subseteq Nat \ {0}

\* ((1 << take) - 1) << bit in a word; what is shifted out is lost.
Mask(word, bit, take) ==
  {word * WordBits + b : b \in bit..Min({bit + take, WordBits}) - 1}

\* min(min(64 - bit, remaining), length - pos)
FirstTake(length, at, count) ==
  Min({WordBits - (at % WordBits), count, length - at})

LastMask(word, rest) == Mask(word, 0, rest)

\* The positions that clearRange writes for count < length: the first word, as
\* many whole words as remain, and what is left of the last.
ClearedBits(length, start, count) ==
  LET take == FirstTake(length, start, count)
      from(k) == (start + take + k * WordBits) % length
      words == (count - take) \div WordBits
      rest == (count - take) % WordBits
  IN  Mask(start \div WordBits, start % WordBits, take)
      \cup UNION {Mask(from(k) \div WordBits, 0, WordBits) : k \in 0..words - 1}
      \cup (IF rest > 0 THEN LastMask(from(words) \div WordBits, rest) ELSE {})

Cleared(length, start, count) ==
  IF count >= length THEN 0..length - 1 ELSE ClearedBits(length, start, count)
=============================================================================
