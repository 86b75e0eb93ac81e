--------------------------- MODULE LocalClassifier ---------------------------
(***************************************************************************)
(* LocalClassificationService: the category with most terms in the text,   *)
(* and the urgency of the gravest phrase.  A text is how many terms of     *)
(* each category it has, and from which groups it has a phrase; which      *)
(* words those are is left out.                                            *)
(***************************************************************************)
EXTENDS Naturals, Sequences

CONSTANT MaxTerms  \* bound on the terms of one category in a text

ASSUME MaxTermsAssumption == MaxTerms \in Nat

(* The order of the dictionary that max() goes through. *)
Order == <<"billing", "technical", "bug", "account">>
Scored == {Order[i] : i \in DOMAIN Order}
Groups == {"medium", "high", "critical"}

Texts == [scores : [Scored -> 0 .. MaxTerms], phrases : SUBSET Groups]

(* Mutant: a tie goes to the later category. *)
Better_OrEqual(scores, c, d) == scores[c] >= scores[d]

(* max() gives up the best so far only for a better one. *)
Better(scores, c, d) == scores[c] > scores[d]

Winner(scores, c, best) == IF Better(scores, c, best) THEN c ELSE best

(* _category *)
LocalCategory(text) ==
  LET n == text.scores
      best == Winner(n, Order[4], Winner(n, Order[3], Winner(n, Order[2], Order[1])))
  IN  IF n[best] = 0 THEN "general" ELSE best

(* _urgency *)
LocalUrgency(text) ==
  CASE "critical" \in text.phrases -> "critical"
    [] "critical" \notin text.phrases /\ "high" \in text.phrases -> "high"
    [] text.phrases = {"medium"} -> "medium"
    [] OTHER -> "low"
=============================================================================
