------------------------------ MODULE DocStream ------------------------------
(***************************************************************************)
(* What a reader of a configuration file promises: the documents of the    *)
(* file are handed to their handler in order, each once and whole, until   *)
(* the file ends or the handler rejects one, and then the reading ends.    *)
(* It promises nothing but an end for a file that does not fit the reader. *)
(***************************************************************************)
EXTENDS Sequences, SequencesExt

CONSTANT DsBad       \* documents that a handler rejects

VARIABLES todo,      \* documents that are not handed out yet
          handed,    \* documents handed out
          over,      \* the reading has ended
          fit        \* the file fits the reader

dsvars == <<todo, handed, over, fit>>

(* A file that cannot be opened is over from the start. *)
DsInit == handed = <<>> /\ over \in BOOLEAN /\ fit \in BOOLEAN

DsHand ==
    /\ ~over /\ todo # <<>>
    /\ handed' = Append(handed, Head(todo))
    /\ todo' = Tail(todo)
    /\ over' \in BOOLEAN
    /\ over' => Head(todo) \in DsBad \/ Tail(todo) = <<>>
    /\ UNCHANGED fit

DsEnd ==
    /\ ~over /\ todo = <<>>
    /\ over' = TRUE
    /\ UNCHANGED <<todo, handed, fit>>

DsUnfit == ~fit /\ ~over /\ UNCHANGED fit

DsNext == DsHand \/ DsEnd \/ DsUnfit
DsSpec == DsInit /\ [][DsNext]_dsvars /\ WF_dsvars(DsHand \/ DsEnd)
=============================================================================
