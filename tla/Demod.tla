------------------------------- MODULE Demod -------------------------------
(***************************************************************************)
(* From the bytes of a block to bits and base-6 digits: the magnitude table*)
(* of package protocol, its filter for Manchester coded symbols of two     *)
(* chips, and the r900 parser's filter for digits of four.  The code       *)
(* computes with float32, here the same sums are integers: magnitudes are  *)
(* in units of 1/255^2, so nothing is rounded.                             *)
(***************************************************************************)
EXTENDS Integers, Sequences

(* The square of a byte's distance from 127.5.                             *)
MagLUT(b) == (255 - 2 * b) * (255 - 2 * b)

Execute(input) ==
  [i \in 1 .. Len(input) \div 2 |-> MagLUT(input[2 * i - 1]) + MagLUT(input[2 * i])]

csum(signal) ==
  LET sum[i \in 0 .. Len(signal)] == IF i = 0 THEN 0 ELSE sum[i - 1] + signal[i]
  IN  sum

(* The energy of the k-th chip behind idx.                                 *)
Chip(c, idx, cl, k) == c[idx + (k + 1) * cl] - c[idx + k * cl]

(* Decoder.Filter: the sign of the lower chip less the upper one.          *)
Bit(c, idx, cl) == IF Chip(c, idx, cl, 0) - Chip(c, idx, cl, 1) < 0 THEN 0 ELSE 1
-----------------------------------------------------------------------------
chipPatterns == <<{0, 1}, {0, 2}, {0, 3}>>

(* The chips of a digit that carry: those of its pattern, or the others.   *)
On(d) == IF d >= 3 THEN chipPatterns[(d % 3) + 1] ELSE 0 .. 3 \ chipPatterns[(d % 3) + 1]

(* The three kernels of Parser.filter, simplified as there.                *)
Kernel(c, idx, cl) ==
  LET c0 == c[idx]
      c1 == c[idx + cl] + c[idx + cl]
      c2 == c[idx + 2 * cl] + c[idx + 2 * cl]
      c3 == c[idx + 3 * cl] + c[idx + 3 * cl]
      c4 == c[idx + 4 * cl]
  IN  <<c2 - c4 - c0, c1 - c2 + c3 - c4 - c0, c1 - c3 + c4 - c0>>

Abs(x) == IF x < 0 THEN -x ELSE x

(* The strongest kernel, the first of equal ones.                          *)
argmax(a) ==
  IF Abs(a[1]) >= Abs(a[2]) THEN IF Abs(a[1]) >= Abs(a[3]) THEN 0 ELSE 2
  ELSE IF Abs(a[2]) >= Abs(a[3]) THEN 1 ELSE 2

Digit(c, idx, cl) ==
  LET a == Kernel(c, idx, cl) IN
  argmax(a) + IF a[argmax(a) + 1] > 0 THEN 3 ELSE 0

(* A pair of digits is a symbol, unless it is none.                        *)
BadSymbol == -1
Symbol(high, low) == IF high * 6 + low > 31 THEN BadSymbol ELSE high * 6 + low

(* A digit's part in the sums that RSSI and SNR are made of.               *)
Part(S, c, idx, cl) ==
  LET part(k) == IF k \in S THEN Chip(c, idx, cl, k) ELSE 0
  IN  part(0) + part(1) + part(2) + part(3)
SigSum(d, c, idx, cl) == Part(On(d), c, idx, cl)
NoiseSum(d, c, idx, cl) == Part(0 .. 3 \ On(d), c, idx, cl)
-----------------------------------------------------------------------------
(* What meters send, on the way to the decoder: bit by bit and digit by    *)
(* digit the chips that carry, each of cl samples of two bytes.            *)
BitChips(b) == <<b, 1 - b>>
DigitChips(d) == [k \in 1 .. 4 |-> IF k - 1 \in On(d) THEN 1 ELSE 0]

Carrying == {<<0, 127>>, <<230, 255>>}
Silent == {<<127, 128>>, <<140, 110>>}

(* Every way in which those chips can sound behind one other sample.       *)
Sounds(chips) ==
  {s \in [DOMAIN chips -> Carrying \cup Silent] :
     \A k \in DOMAIN chips : s[k] \in IF chips[k] = 1 THEN Carrying ELSE Silent}

Sampled(sound, cl) ==
  <<90, 90>> \o [i \in 1 .. 2 * cl * Len(sound) |->
                  sound[((i - 1) \div (2 * cl)) + 1][((i - 1) % 2) + 1]]

(* A bit is decided as it was sent, ...                                    *)
BitsRead ==
  \A cl \in 1 .. 3, b \in 0 .. 1 : \A sound \in Sounds(BitChips(b)) :
    Bit(csum(Execute(Sampled(sound, cl))), 1, cl) = b

(* ... so is a symbol of the r900, and its carrying chips are the stronger *)
(* half of it.                                                             *)
SymbolsRead ==
  \A cl \in 1 .. 2, n \in 0 .. 31 :
    \A sound \in Sounds(DigitChips(n \div 6) \o DigitChips(n % 6)) :
      LET c == csum(Execute(Sampled(sound, cl)))
          high == Digit(c, 1, cl)
          low == Digit(c, 1 + 4 * cl, cl)
      IN  /\ Symbol(high, low) = n
          /\ SigSum(high, c, 1, cl) > NoiseSum(high, c, 1, cl)
          /\ SigSum(low, c, 1 + 4 * cl, cl) > NoiseSum(low, c, 1 + 4 * cl, cl)
=============================================================================
