------------------------------ MODULE Standings ------------------------------
(***************************************************************************)
(* Team.as_standings_json: one pass over the scoreboard, best score first, *)
(* gives every row its place.                                              *)
(***************************************************************************)
EXTENDS Integers, Sequences

\* The locals of the method before the first row, with all the flags there are.
Unplaced(flagCount) == [place |-> 0, prev_score |-> flagCount + 1, place_buf |-> 1]

\* Mutant: a tie that is not seen as one.
BetterOrEqual(score, prev_score) == score <= prev_score
Better(score, prev_score) == score < prev_score

\* The block of data.map.
Placed(l, score) ==
    IF Better(score, l.prev_score)
    THEN [place |-> l.place + l.place_buf, prev_score |-> score, place_buf |-> 1]
    ELSE [l EXCEPT !.place_buf = @ + 1]

\* The places of the rows of a scoreboard with these scores.
Places(scores, flagCount) ==
    LET locals[i \in 0..Len(scores)] ==
            IF i = 0 THEN Unplaced(flagCount) ELSE Placed(locals[i - 1], scores[i])
    IN  [i \in DOMAIN scores |-> locals[i].place]
=============================================================================
