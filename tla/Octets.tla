------------------------------- MODULE Octets -------------------------------
(***************************************************************************)
(* Octet strings, for the codecs: a byte is a number below 256, a string a *)
(* sequence of them.  An operator that may fail returns <<>> for an error  *)
(* and <<v>> for the value v.                                              *)
(***************************************************************************)
EXTENDS Integers, Sequences, SequencesExt

Put16(n) == <<n \div 256, n % 256>>
Get16(d, i) == 256 * d[i] + d[i + 1]
Rest(d, n) == SubSeq(d, n + 1, Len(d))
Fails == <<>>

\* F of a value that is computed once, where F uses it many times.
With(value, F(_)) == CHOOSE out \in {F(v) : v \in {value}} : TRUE

\* The items of a chain: each(d) gives <<item, length>> of the first, or fails.
Items(d, each(_)) ==
  LET From[i \in 1..(Len(d) + 1)] ==
        IF i > Len(d) THEN << <<>> >>
        ELSE LET item == each(Rest(d, i - 1)) IN
             IF item = Fails THEN Fails
             ELSE LET tail == From[i + item[2]]
                  IN IF tail = Fails THEN Fails ELSE << <<item[1]>> \o tail[1] >>
  IN From[1]
Joined(parts) == FlattenSeq(parts)

\* What is marshalled is parsed back, or was refused.
BackTo(wire, parse(_), value) == wire = Fails \/ parse(wire[1]) = <<value>>
=============================================================================
