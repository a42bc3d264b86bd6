---------------------------- MODULE MCReviewedTexts ----------------------------
(***************************************************************************)
(* What becomes of reviewed texts over several invocations, in the small   *)
(* company of MCEnginePasses: a history of the texts that the review table *)
(* said were reviewed, beside the engine.                                  *)
(***************************************************************************)
EXTENDS MCEnginePasses

VARIABLE reviewed   \* row -> the text it had when its review was written

HInit == Init /\ reviewed = <<>>

\* Only a review changes the tables while no invocation goes on.
Remember ==
    LET now == {k \in DOMAIN disk.texts : Reviewed(disk'.review, k)}
    IN  reviewed' = IF pc = "idle" /\ disk' # disk THEN Over([k \in now |-> disk.texts[k]], reviewed)
                    ELSE reviewed

HNext == Next /\ Remember

HSpec == HInit /\ [][HNext]_<<vars, reviewed>>

\* The same month again and again, with a language model that may answer.
AskedAgain == {[mode |-> "full", periods |-> <<14>>, llm |-> TRUE]}

\* "Keep narratives that have been reviewed or approved (don't regenerate)": where
\* a reviewed row has a text, it is the one that was reviewed.
ReviewedTextsStay ==
    \A k \in DOMAIN reviewed \cap DOMAIN disk.texts : disk.texts[k] \in {reviewed[k], Null}

===============================================================================
