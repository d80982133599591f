--------------------------- MODULE MCAttachments ---------------------------
(* Attachments for TLC: task "sub" is a subtask of "top".                  *)
EXTENDS Attachments

CONSTANTS top, sub, k1, k2, r1, r2, r3

MCSubtree == [t \in Task |-> IF t = top THEN Task ELSE {t}]

=============================================================================
