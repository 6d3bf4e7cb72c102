-------------------------------- MODULE Lists --------------------------------
(* Folds over lists of some hundred elements, as the entropy coders do them. *)
EXTENDS Integers, Sequences, SequencesExt

\* The numbers from first to last, in order.
Numbers(first, last) == [n \in 1 .. last - first + 1 |-> first + n - 1]

\* Op over all of seq, in order, eight elements at a time. (The set of one
\* element makes TLC finish the elements before them first.)
InOrder(Op(_, _), base, seq) ==
  LET last(p) == IF 8 * p < Len(seq) THEN 8 * p ELSE Len(seq)
      Eight(start, p) ==
        LET done[n \in 8 * (p - 1) .. last(p)] ==
              IF n = 8 * (p - 1) THEN start ELSE Op(done[n - 1], seq[n])
        IN  done[last(p)]
      eights[p \in 0 .. (Len(seq) + 7) \div 8] ==
        IF p = 0 THEN base
        ELSE CHOOSE x \in {Eight(start, p) : start \in {eights[p - 1]}} : TRUE
  IN  eights[(Len(seq) + 7) \div 8]
=============================================================================
