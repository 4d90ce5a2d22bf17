------------------------ MODULE MCDocumentWorkspace ------------------------
(* Three pages: `a` is open, `b` lies below it, `n` is an id createId() has not given out. *)
EXTENDS DocumentWorkspace

CONSTANTS a, b, n

MCDoc == {a, b, n}
MCParent == [d \in MCDoc |-> IF d = b THEN a ELSE NoDoc]
=============================================================================
