-------------------------------- MODULE Vault --------------------------------
(***************************************************************************)
(* What the key of a profile promises, without passwords, rows, handlers   *)
(* or tools: one lock round one contents, and copies of the key that are   *)
(* handed out.  Copies are of the key in use; while there is one the key   *)
(* is not replaced, and a key that was replaced does not come back.        *)
(* Nothing is promised once the vault is broken.                           *)
(***************************************************************************)
EXTENDS Naturals

CONSTANT Places

VARIABLES lock,      \* the key that opens the vault, 0 when there is none
          contents,  \* the key that its contents are encrypted under
          copies,    \* copies[p]: the key kept at place p, 0 when there is none
          broken

Init ==
    /\ lock = 0 /\ contents = 0 /\ broken = FALSE
    /\ copies = [p \in Places |-> 0]

(* Lock and contents change together, and copies are of the new key.       *)
Replace ==
    /\ \A p \in Places : copies[p] = 0
    /\ lock' \in Nat /\ lock' > lock /\ contents' = lock'
    /\ copies' \in [Places -> {0, lock'}]

(* Copies are made of the key in use, and lost.                            *)
Copy ==
    /\ copies' \in [Places -> {0, lock}]
    /\ UNCHANGED <<lock, contents>>

Next ==
    \/ ~broken /\ ~broken' /\ (Replace \/ Copy)
    \/ broken'

Spec == Init /\ [][Next]_<<lock, contents, copies, broken>>
=============================================================================
