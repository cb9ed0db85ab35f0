----------------------------- MODULE LineQueue -----------------------------
(***************************************************************************)
(* What a TapIO promises the two threads that share it: a first-in,        *)
(* first-out queue of lines that can be closed.  A reader is given the     *)
(* oldest line, and is told "end of file" only once the queue is closed    *)
(* and has nothing left.  TapIO implements this specification; Session     *)
(* uses it as the queue between its threads.                               *)
(***************************************************************************)
EXTENDS Sequences

CONSTANT Value       \* the lines that can be written

VARIABLES queue,     \* lines written and not yet read, oldest first
          open,      \* FALSE once the server side has closed the queue
          taken,     \* history: the lines read so far, in order
          eof        \* TRUE once a read has answered "end of file"

vars == <<queue, open, taken, eof>>

Init == /\ queue = <<>>
        /\ open = TRUE
        /\ taken = <<>>
        /\ eof = FALSE

Put(v) == /\ queue' = Append(queue, v)
          /\ UNCHANGED <<open, taken, eof>>

Take == /\ queue # <<>>
        /\ taken' = Append(taken, Head(queue))
        /\ queue' = Tail(queue)
        /\ UNCHANGED <<open, eof>>

Close == /\ open
         /\ open' = FALSE
         /\ UNCHANGED <<queue, taken, eof>>

EndOfFile == /\ ~open
             /\ queue = <<>>
             /\ eof' = TRUE
             /\ UNCHANGED <<queue, open, taken>>

Next == \/ \E v \in Value : Put(v)
        \/ Take
        \/ Close
        \/ EndOfFile

Spec == Init /\ [][Next]_vars
=============================================================================
