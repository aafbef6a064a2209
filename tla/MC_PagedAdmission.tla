--------------------------- MODULE MC_PagedAdmission ---------------------------
(* Small instances of PagedAdmission for TLC. *)
EXTENDS PagedAdmission

CONSTANTS r1, r2, r3, r4, r5

(* A prompt, one that continues it, one of its own, a repetition and one that  *)
(* exceeds the budget.                                                         *)
Family ==
  r1 :> <<1, 2>> @@ r2 :> <<1, 2, 3>> @@ r3 :> <<4, 5>> @@ r4 :> <<1, 2>>
    @@ r5 :> <<1, 6, 7, 8, 9>>

Growing == r1 :> <<1>> @@ r2 :> <<1, 2, 3>>
================================================================================
