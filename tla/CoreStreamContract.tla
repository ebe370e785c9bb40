------------------------- MODULE CoreStreamContract -------------------------
(***************************************************************************)
(* What a stream of the core audio HAL promises the framework: a command   *)
(* is carried out once, or refused; its answer is about this command and   *)
(* about no more than it asked for, and as many bytes have been recorded;  *)
(* nothing of a write is left for the next.  The vendor's stream is closed *)
(* once.  In an older HAL it is never called again then, and nobody is     *)
(* inside; in a newer one close() closes it early, when somebody may be.   *)
(* The framework may go at any moment, and only then, with nobody inside,  *)
(* is the stream freed.  How a command and its answer travel, and which    *)
(* thread does the work, is left open.                                     *)
(***************************************************************************)
EXTENDS Naturals

CONSTANTS NoCommand, NoStatus    \* no command under way, no answer to it yet

VARIABLES
  early,     \* the vendor's stream is closed by close(), and not by the destructor
  present,   \* the framework uses the stream
  request,   \* the command under way
  answer,    \* what it has come to
  data,      \* the bytes recorded and not taken
  inside,    \* the vendor's stream is being called
  closes,    \* how often the vendor's stream has been closed
  freed

contractVars == << early, present, request, answer, data, inside, closes, freed >>

Init ==
  /\ early \in BOOLEAN
  /\ present = TRUE
  /\ request = NoCommand /\ answer = NoStatus /\ data = 0
  /\ inside = FALSE
  /\ closes = 0
  /\ freed = FALSE

Ask ==
  /\ present /\ request = NoCommand
  /\ request' # NoCommand
  /\ UNCHANGED << early, present, answer, data, inside, closes, freed >>

\* The answer to the command under way.
Answer ==
  /\ request # NoCommand /\ answer = NoStatus
  /\ answer' # NoStatus
  /\ answer'.replyTo = request.command
  /\ answer'.retval = "OK" => answer'.size <= request.size
  /\ data' = IF request.command = "READ" /\ answer'.retval = "OK" THEN data + answer'.size ELSE data

Refuse ==
  /\ ~inside
  /\ Answer /\ answer'.retval = "NOT_SUPPORTED"
  /\ UNCHANGED << early, present, request, inside, closes, freed >>

\* A command whose framework has gone may still be carried out.
Enter ==
  /\ ~inside /\ ~freed
  /\ early \/ closes = 0
  /\ present => request # NoCommand /\ answer = NoStatus
  /\ inside' = TRUE
  /\ UNCHANGED << early, present, request, answer, data, closes, freed >>

Return ==
  /\ inside /\ ~inside'
  /\ IF present THEN Answer ELSE UNCHANGED << answer, data >>
  /\ UNCHANGED << early, present, request, closes, freed >>

\* The framework takes the answer, and of the data what it wants.
Take ==
  /\ answer # NoStatus
  /\ request' = NoCommand /\ answer' = NoStatus /\ data' \in 0 .. data
  /\ UNCHANGED << early, present, inside, closes, freed >>

Leave ==
  /\ present /\ ~present'
  /\ request' = NoCommand /\ answer' = NoStatus /\ data' = 0
  /\ UNCHANGED << early, inside, closes, freed >>

Close ==
  /\ early
  /\ closes = 0 /\ closes' = 1
  /\ UNCHANGED << early, present, request, answer, data, inside, freed >>

Free ==
  /\ ~present /\ ~inside /\ ~freed
  /\ early => closes = 1
  /\ freed' = TRUE
  /\ closes' = 1
  /\ UNCHANGED << early, present, request, answer, data, inside >>

Next == Ask \/ Refuse \/ Enter \/ Return \/ Take \/ Leave \/ Close \/ Free

Spec == Init /\ [][Next]_contractVars

=============================================================================
