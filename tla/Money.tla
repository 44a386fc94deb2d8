-------------------------------- MODULE Money --------------------------------
(***************************************************************************)
(* utils/money.ts: amounts are typed in taka, with at most two decimals,   *)
(* and stored in paisa.                                                    *)
(*                                                                         *)
(* A typed amount is [whole, frac], the digits after the point being a     *)
(* sequence; the upper bounds of an amount and the sign are left out (the  *)
(* regular expression admits no sign).                                     *)
(***************************************************************************)
EXTENDS Integers, Sequences, Folds, SequencesExt

PaisaPerBdt == 100
MinPaisa == 1

(* (frac + '00').slice(0, 2)                                                *)
Padded(frac) == SubSeq(frac \o <<0, 0>>, 1, 2)
Digits(seq) == FoldLeft(LAMBDA n, d : 10 * n + d, 0, seq)

BdtToPaisa(typed) == typed.whole * PaisaPerBdt + Digits(Padded(typed.frac))
Accepted(typed) == Len(typed.frac) <= 2 /\ BdtToPaisa(typed) >= MinPaisa

(* padStart(2, '0')                                                         *)
TwoDigits(n) == <<n \div 10, n % 10>>
PaisaToBdt(paisa) ==
  [whole |-> paisa \div PaisaPerBdt, frac |-> TwoDigits(paisa % PaisaPerBdt)]

(* What digits behind a point mean: typed = paisa / 100.                    *)
Exactly(typed, paisa) ==
  LET ten[n \in 0..Len(typed.frac)] == IF n = 0 THEN 1 ELSE 10 * ten[n - 1]
      unit == ten[Len(typed.frac)] IN
  100 * (typed.whole * unit + Digits(typed.frac)) = paisa * unit
===============================================================================
