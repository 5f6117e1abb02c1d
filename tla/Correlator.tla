----------------------------- MODULE Correlator -----------------------------
(***************************************************************************)
(* What a control-mode client promises whoever sends commands through it,  *)
(* with no pipe, parser or FIFO in sight: commands are executed in the     *)
(* order sent, each answer is the outcome of its own command, answers come *)
(* in order, and once the session is over every command still waiting, and *)
(* none that was answered, is told so.                                     *)
(***************************************************************************)
EXTENDS Naturals, Sequences

CONSTANTS
    Outcome,        \* what executing a command may yield
    Gone            \* the answer of a command whose session ended

VARIABLES
    sent,           \* how many commands have been sent
    outcomes,       \* what each executed command yielded, in order
    answers,        \* who was told what, in order; commands count from 0
    over

vars == <<sent, outcomes, answers, over>>

Init == sent = 0 /\ outcomes = << >> /\ answers = << >> /\ over = FALSE

Send ==
    /\ ~over
    /\ sent' = sent + 1
    /\ UNCHANGED <<outcomes, answers, over>>

Execute ==
    /\ Len(outcomes) < sent
    /\ outcomes' \in Seq(Outcome) /\ Len(outcomes') = Len(outcomes) + 1
    /\ SubSeq(outcomes', 1, Len(outcomes)) = outcomes
    /\ UNCHANGED <<sent, answers, over>>

Answer ==
    /\ ~over
    /\ Len(answers) < Len(outcomes)
    /\ answers' = Append(answers, [id |-> Len(answers), result |-> outcomes[Len(answers) + 1]])
    /\ UNCHANGED <<sent, outcomes, over>>

EndSession ==
    /\ ~over
    /\ over' = TRUE
    /\ answers' = answers \o [i \in 1 .. sent - Len(answers) |->
                                [id |-> Len(answers) + i - 1, result |-> Gone]]
    /\ UNCHANGED <<sent, outcomes>>

Next == Send \/ Execute \/ Answer \/ EndSession

Spec == Init /\ [][Next]_vars
=============================================================================
