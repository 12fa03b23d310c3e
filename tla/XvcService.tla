----------------------------- MODULE XvcService -----------------------------
(***************************************************************************)
(* What a client of the XVC protocol may rely on, without bytes: requests  *)
(* are answered in the order in which they were sent, each with an answer  *)
(* that fits it, until the connection ends.  XvcFraming implements it.     *)
(***************************************************************************)
EXTENDS Naturals, Sequences

CONSTANTS
    Request,        \* the requests a client may send
    Answers(_)      \* the right answers to a request; none when it is too large

VARIABLES requests, answers, open

vars == <<requests, answers, open>>

Init == requests = <<>> /\ answers = <<>> /\ open = TRUE

Send ==
    /\ \E r \in Request : requests' = Append(requests, r)
    /\ UNCHANGED <<answers, open>>

Answer ==
    /\ open /\ Len(answers) < Len(requests)
    /\ \E a \in Answers(requests[Len(answers) + 1]) : answers' = Append(answers, a)
    /\ UNCHANGED <<requests, open>>

Close == open /\ open' = FALSE /\ UNCHANGED <<requests, answers>>

\* One request is answered or the connection ends.
Serve == Len(answers) < Len(requests) /\ (Answer \/ Close)

Next == Send \/ Answer \/ Close

\* No request waits for ever.
Spec == Init /\ [][Next]_vars /\ WF_vars(Serve)
=============================================================================
