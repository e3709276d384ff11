---------------------------- MODULE FileRegister ----------------------------
(***************************************************************************)
(* What the callers of the key store and of the certificate code rely on:  *)
(* a file is a register.  It holds the document last saved, or nothing     *)
(* while and after a save that did not complete, and a read returns, at    *)
(* one instant, the document the register holds or fails.  Only after a    *)
(* write has stored part of a document (torn) may a read return anything   *)
(* else.                                                                   *)
(***************************************************************************)
CONSTANTS File, Proc, Doc, None

VARIABLES reg,  \* reg[f]: the document in f, or None
          torn, \* some write stored only part of a document
          got   \* got[p]: the file and document of p's read, or None

vars == <<reg, torn, got>>

Init ==
  /\ reg = [f \in File |-> None]
  /\ torn = FALSE
  /\ got = [p \in Proc |-> None]

(* The saved document is whatever reg' says, so no set of documents has to *)
(* be enumerated.                                                          *)
Save(p, f) ==
  /\ reg' = [reg EXCEPT ![f] = reg'[f]] /\ reg'[f] \in Doc
  /\ got' = [got EXCEPT ![p] = None]
  /\ UNCHANGED torn

Lose(p, f) ==
  /\ reg' = [reg EXCEPT ![f] = None]
  /\ got' = got \/ (got' = [got EXCEPT ![p] = None] /\ torn' = TRUE)
  /\ torn' \in {torn, TRUE}

Read(p, f) ==
  /\ \/ reg[f] # None /\ got' = [got EXCEPT ![p] = [fname |-> f, doc |-> reg[f]]]
     \/ torn /\ got' = [got EXCEPT ![p] = got'[p]]
  /\ UNCHANGED <<reg, torn>>

Forget(p) == got' = [got EXCEPT ![p] = None] /\ UNCHANGED <<reg, torn>>

Next == \E p \in Proc : Forget(p) \/ \E f \in File : Save(p, f) \/ Lose(p, f) \/ Read(p, f)

Spec == Init /\ [][Next]_vars
=============================================================================
