---------------------------- MODULE Condensation ----------------------------
(***************************************************************************)
(* What of a recall is put into the prompt: items that restate a better    *)
(* ranked one are suppressed, and the tail is cut to a budget of tokens.   *)
(*                                                                         *)
(* An item has the pieces its text is made of, one text containing another *)
(* when it has all its pieces, an entity and a size in tokens.  close says *)
(* which texts have more than nine tenths of their bigrams in common.      *)
(***************************************************************************)
EXTENDS Integers, Sequences, SequencesExt

(* Which of the two is the longer does not matter.                         *)
Redundant(a, b, close) == a \subseteq b \/ b \subseteq a \/ {a, b} \in close

(* In rank order; the first to say something is kept.  Pitfalls are        *)
(* compared with those of their entity only, episodes with all.            *)
Suppressed(items, close, sameEntity) ==
    FoldLeft(LAMBDA kept, it :
                IF \E r \in ToSet(kept) : /\ sameEntity => it.entity = r.entity
                                          /\ Redundant(it.pieces, r.pieces, close)
                THEN kept ELSE Append(kept, it),
             << >>, items)

Tokens(items) == FoldLeft(LAMBDA sum, it : sum + it.size, 0, items)

(* The longest prefix within the budget, but never nothing.                *)
Trimmed(items, budget) ==
    LET fits == {n \in 1..Len(items) : n = 1 \/ Tokens(SubSeq(items, 1, n)) <= budget} IN
    IF items = << >> THEN << >>
    ELSE SubSeq(items, 1, CHOOSE n \in fits : \A k \in fits : k <= n)

(* Episodes are cut before pitfalls; a budget of 0 is none.                *)
Condensed(episodes, pitfalls, close, budget) ==
    LET eps == Suppressed(episodes, close, FALSE)
        pits == Suppressed(pitfalls, close, TRUE)
        cut == Trimmed(eps, budget - Tokens(pits))
    IN  IF budget <= 0 THEN [episodes |-> eps, pitfalls |-> pits]
        ELSE [episodes |-> cut, pitfalls |-> Trimmed(pits, budget - Tokens(cut))]
=============================================================================
