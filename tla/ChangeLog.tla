------------------------------ MODULE ChangeLog ------------------------------
(***************************************************************************)
(* What the change stream promises of a canonical store: the changes of a  *)
(* committed transaction are owed to the stream until each is published,   *)
(* once; the next transaction commits only when nothing is owed, so that   *)
(* the stream is in commit order; nothing else is ever published.          *)
(***************************************************************************)
EXTENDS Sequences

CONSTANT Changes      \* what one published event says

VARIABLES stream, owed

Init == stream = <<>> /\ owed = {}

Commit == /\ owed = {} /\ owed' \in (SUBSET Changes) \ {{}}
          /\ UNCHANGED stream

Publish == \E e \in owed : /\ stream' = Append(stream, e)
                           /\ owed' = owed \ {e}

Next == Commit \/ Publish

Spec == Init /\ [][Next]_<<stream, owed>>
==============================================================================
