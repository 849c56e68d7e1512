----------------------------- MODULE Questions ------------------------------
(***************************************************************************)
(* What the modules about decisions share.  Each takes the input of a      *)
(* decision of the code, the question, to the answer that the code gives,  *)
(* at once or in the steps that the code takes.                            *)
(***************************************************************************)
EXTENDS Integers, FiniteSets, Sequences, SequencesExt, FiniteSetsExt

VARIABLES
    question,   \* the input, a record of which the field what says of which decision
    answer      \* what has been decided so far, empty at first

Asked(what) == question.what = what /\ answer = <<>>
Under(what) == question.what = what /\ answer # <<>> /\ answer[1].pc # "done"
Done(what) == question.what = what /\ answer # <<>> /\ answer[1].pc = "done"
Reply(a) == answer' = <<a>> /\ UNCHANGED question
Now == answer[1]

Least(a, b) == IF a < b THEN a ELSE b

=============================================================================
