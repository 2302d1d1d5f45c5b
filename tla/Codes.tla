------------------------------- MODULE Codes -------------------------------
(***************************************************************************)
(* The codes by which the parsers reject damaged packets: the table-driven *)
(* checksums of package crc and the field of package gf with its syndromes.*)
(* What the codes are about is read off the air in Demod.                  *)
(* A byte, a register and an element of the field are polynomials over     *)
(* GF(2), written as the set of their exponents.                           *)
(***************************************************************************)
EXTENDS Demod, FiniteSetsExt, SequencesExt

(* p << n, p >> n, and what a register of w bits keeps.                    *)
Shl(p, n) == {e + n : e \in p}
Shr(p, n) == {e - n : e \in p \ (0 .. n - 1)}
Low(p, w) == p \cap 0 .. w - 1

Byte == SUBSET (0 .. 7)
-----------------------------------------------------------------------------
BCH == [Init |-> {}, Poly |-> {0, 1, 5, 6, 8, 9, 10, 11, 13, 14}, Residue |-> {}]
CCITT == [Init |-> 0 .. 15, Poly |-> {0, 5, 12}, Residue |-> {0, 1, 2, 3, 8, 10, 11, 12}]

(* One bit of the division.                                                *)
Divided(crc, poly) ==
  IF 15 \in crc THEN SymDiff(Low(Shl(crc, 1), 16), poly) ELSE Shl(crc, 1)

NewTable(poly) ==
  [t \in Byte |-> FoldLeft(LAMBDA crc, i : Divided(crc, poly), Shl(t, 8), [i \in 1 .. 8 |-> i])]

Tables == [poly \in {BCH.Poly, CCITT.Poly} |-> NewTable(poly)]

Checksum(code, data) ==
  FoldLeft(LAMBDA crc, v : SymDiff(Low(Shl(crc, 8), 16), Tables[code.Poly][SymDiff(Shr(crc, 8), v)]),
           code.Init, data)

Accepted(code, data) == Checksum(code, data) = code.Residue
-----------------------------------------------------------------------------
order == 32 \* NewField(32, 37, 2)
FieldPoly == {0, 2, 5}
alpha == {1}
Element == SUBSET (0 .. 4)

(* mul: x times y, y doubled and reduced for each bit of x.                *)
Doubled(y) == IF 4 \in y THEN SymDiff(Shl(y, 1), FieldPoly) ELSE Shl(y, 1)

mul(x, y) ==
  FoldLeft(LAMBDA zy, bit : <<IF bit \in x THEN SymDiff(zy[1], zy[2]) ELSE zy[1], Doubled(zy[2])>>,
           <<{}, y>>, <<0, 1, 2, 3, 4>>)[1]

(* NewField: the powers of alpha, and their logarithms.                    *)
powers ==
  FoldLeft(LAMBDA s, i : Append(s, mul(s[i], alpha)), <<{0}>>, [i \in 1 .. order - 2 |-> i])

MutNoWrap(e) == IF e < order - 1 THEN powers[e + 1] ELSE {}
Exp(e) == powers[(e % (order - 1)) + 1]
Log(x) == CHOOSE e \in 0 .. order - 2 : powers[e + 1] = x
Mul(x, y) == IF x = {} \/ y = {} THEN {} ELSE Exp(Log(x) + Log(y))

(* Horner's rule, for each of the parity symbols.                          *)
Syndrome(message, parity, offset) ==
  LET syn[idx \in 0 .. parity - 1, i \in 0 .. Len(message)] ==
        IF i = 0 THEN {}
        ELSE SymDiff(Mul(syn[idx, i - 1], Exp(offset + idx)), message[i])
  IN  [idx \in 0 .. parity - 1 |-> syn[idx, Len(message)]]

(* The r900 parser: 16 symbols, ten that are always zero, five of parity.  *)
Zeros(n) == [i \in 1 .. n |-> {}]
rsBuf(symbols) == SubSeq(symbols, 1, 16) \o Zeros(10) \o SubSeq(symbols, 17, 21)
Passes(symbols) == \A idx \in 0 .. 4 : Syndrome(rsBuf(symbols), 5, 29)[idx] = {}
-----------------------------------------------------------------------------
(* What meters send: a checksum that is the remainder of a long division,  *)
(* complemented where the residue is not zero.                             *)
Remainder(p, n, poly) ==
  FoldLeft(LAMBDA r, i : IF n - i \in r THEN SymDiff(r \ {n - i}, Shl(poly, n - i - 16)) ELSE r,
           p, [i \in 1 .. n - 16 |-> i])

Bits(data) == UNION {Shl(data[i], 8 * (Len(data) - i)) : i \in DOMAIN data}

Sent(code, data) ==
  LET n == 8 * Len(data)
      rem == Remainder(SymDiff(Shl(code.Init, n), Shl(Bits(data), 16)), n + 16, code.Poly)
      sum == IF code.Residue = {} THEN rem ELSE 0 .. 15 \ rem
  IN  data \o <<Shr(sum, 8), Low(sum, 8)>>

(* ... and words that the product of (x - alpha^29) .. (x - alpha^33)      *)
(* divides, multiplied out without logarithms: here the product itself,    *)
(* behind k zero symbols.                                                  *)
power(e) == FoldLeft(LAMBDA x, i : mul(x, alpha), {0}, [i \in 1 .. e |-> i])

Times(p, root) ==
  LET high == p \o <<{}>>
      low == <<{}>> \o [i \in DOMAIN p |-> mul(p[i], root)]
  IN  [i \in DOMAIN high |-> SymDiff(high[i], low[i])]
generator == FoldLeft(LAMBDA p, e : Times(p, power(e)), <<{0}>>, <<29, 30, 31, 32, 33>>)

SentSymbols(k) == Zeros(k) \o generator \o Zeros(15 - k)
-----------------------------------------------------------------------------
Flipped(data, bit) ==
  [data EXCEPT ![(bit \div 8) + 1] = SymDiff(@, {bit % 8})]

(* A message is accepted as it was sent, and not with one or two wrong     *)
(* bits.                                                                   *)
ChecksumTrusted(code, messages) ==
  \A data \in messages :
    LET sent == Sent(code, data) bits == 0 .. 8 * Len(sent) - 1 IN
    /\ Accepted(code, sent)
    /\ \A i, j \in bits : i <= j =>
         ~Accepted(code, IF i = j THEN Flipped(sent, i) ELSE Flipped(Flipped(sent, i), j))

(* A word passes as it was sent, and not with one or two wrong symbols.    *)
ParityTrusted(ks) ==
  \A k \in ks :
    /\ Passes(SentSymbols(k))
    /\ \A i \in 1 .. 21 : \A e \in Element \ {{}} :
         LET wrong == [SentSymbols(k) EXCEPT ![i] = SymDiff(@, e)] IN
         /\ ~Passes(wrong)
         /\ \A j \in i + 1 .. 21 : ~Passes([wrong EXCEPT ![j] = SymDiff(@, {0})])

(* The parsers that read what was sent and whose check can be relied on:   *)
(* of a whole packet for scm and scm+, of the serial number for idm and    *)
(* netidm, of the symbols for r900.                                        *)
Sample(n) == [i \in 1 .. n |-> IF i % 2 = 0 THEN {0, 2, 7} ELSE {1, 3, 4}]

Trusted ==
  {p \in {"scm", "scm+", "idm", "netidm", "r900", "r900bcd"} :
     BitsRead /\
     CASE p = "scm" -> ChecksumTrusted(BCH, {Sample(8), Zeros(8)})
       [] p = "scm+" -> ChecksumTrusted(CCITT, {Sample(12)})
       [] p \in {"idm", "netidm"} -> ChecksumTrusted(CCITT, {Sample(4), Zeros(4)})
       [] p \in {"r900", "r900bcd"} -> SymbolsRead /\ ParityTrusted({2, 10})}
=============================================================================
