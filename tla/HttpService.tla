---------------------------- MODULE HttpService -----------------------------
(***************************************************************************)
(* What a client that waits for each answer relies on: its requests are    *)
(* answered one by one, each with what the callback made of that request   *)
(* and no other.  The promise ends when the client does not wait.          *)
(***************************************************************************)
EXTENDS Naturals, Sequences

CONSTANTS Questions,      \* what a client may ask
          Answer(_)       \* what the callback sees of a question, and says

VARIABLES asked,          \* the questions so far
          answered,       \* the answers so far
          promised        \* has the client waited each time?

httpVars == <<asked, answered, promised>>

HttpInit == asked = <<>> /\ answered = <<>> /\ promised = TRUE

Ask == /\ Len(answered) = Len(asked)
       /\ \E q \in Questions : asked' = Append(asked, q)
       /\ UNCHANGED <<answered, promised>>

Reply == /\ Len(answered) < Len(asked)
         /\ answered' = Append(answered, Answer(asked[Len(answered) + 1]))
         /\ UNCHANGED <<asked, promised>>

Forfeit == promised' = FALSE

HttpNext == promised /\ (Ask \/ Reply \/ Forfeit)

\* Without the promise anything may follow.
HttpSpec == HttpInit /\ [][promised => HttpNext]_httpVars
=============================================================================
