-------------------------------- MODULE Money --------------------------------
(***************************************************************************)
(* The arithmetic of _doSettle (backend/services/settlementService.js).    *)
(* The amount of an instruction is any positive number, compared with the  *)
(* balance as it is; the two new balances and the amount on record are     *)
(* each brought to whole paise by a toFixed(2) of its own.  Balances and   *)
(* records are therefore counted in paise here and amounts in parts of one.*)
(***************************************************************************)
EXTENDS Integers

Grain == 10         \* parts to the paisa: below, at and above the half differ

\* mutant: fractions are cut off
Truncated(x) == {x \div Grain}

(* x.toFixed(2): the nearest paisa.  Half way between two, the binary form *)
(* of x is a little above or a little below, and either may come out.      *)
ToFixed(x) ==
    {n \in (x \div Grain) .. (x \div Grain + 1) : 2 * (x - n * Grain) \in -Grain .. Grain}

\* mutant: whole paise are compared
ExceedsInPaise(b, amount) == b < amount \div Grain

ExceedsBalance(b, amount) == b * Grain < amount

NewSenderBalances(b, amount) == ToFixed(b * Grain - amount)

NewReceiverBalances(b, amount) == ToFixed(b * Grain + amount)

\* Amounts that lie half way between two paise.
IsHalfway(amount) == 2 * (amount % Grain) = Grain

=============================================================================
