------------------------------ MODULE Contacts ------------------------------
(***************************************************************************)
(* The contact book (src/src/contacts.rs, src/src/commands/contact.rs).    *)
(* `contact add` and `contact remove` load the file, change the book and   *)
(* write it back over the file, which is truncated first; a missing file   *)
(* and an empty one are an empty book.  Names are looked up as written and *)
(* then without regard to case.                                            *)
(***************************************************************************)
EXTENDS Naturals, Functions

CONSTANTS Edit,       \* command runs
          EditOp,     \* what each does: add or remove, with name and id
          Fold        \* each name without its case

VARIABLES book,       \* the book in the file, empty when there is no text or no file
          edit,       \* where each run is
          mine,       \* the book each run loaded
          told,       \* what the finished runs were told, in effect: name to id
          alone       \* runs did not overlap and none died so far

ctVars == <<book, edit, mine, told, alone>>

Empty == [n \in {} |-> "-"]

Init ==
    /\ book = Empty /\ told = Empty /\ alone = TRUE
    /\ edit = [e \in Edit |-> "off"] /\ mine = [e \in Edit |-> Empty]

Busy(e) == edit[e] \in {"open", "write"}
Without(b, n) == Restrict(b, DOMAIN b \ {n})
With(b, n, id) == [m \in DOMAIN b \union {n} |-> IF m = n THEN id ELSE b[m]]
Changed(b, o) == IF o.op = "add" THEN With(b, o.name, o.id) ELSE Without(b, o.name)

(* `load`, and the change; removing a name that is not there is an error.  *)
LoadBook(e) ==
    /\ edit[e] = "off"
    /\ alone' = (alone /\ \A d \in Edit : ~Busy(d))
    /\ IF EditOp[e].op = "remove" /\ EditOp[e].name \notin DOMAIN book
         THEN edit' = [edit EXCEPT ![e] = "refused"] /\ mine' = mine
         ELSE /\ edit' = [edit EXCEPT ![e] = "open"]
              /\ mine' = [mine EXCEPT ![e] = Changed(book, EditOp[e])]
    /\ UNCHANGED <<book, told>>

(* `save`: `fs::write` truncates, then writes.                             *)
SaveOpen(e) ==
    /\ edit[e] = "open"
    /\ edit' = [edit EXCEPT ![e] = "write"] /\ book' = Empty
    /\ UNCHANGED <<mine, told, alone>>

SaveWrite(e) ==
    /\ edit[e] = "write"
    /\ edit' = [edit EXCEPT ![e] = "done"] /\ book' = mine[e]
    /\ told' = Changed(told, EditOp[e])
    /\ UNCHANGED <<mine, alone>>

EditDies(e) ==
    /\ Busy(e)
    /\ edit' = [edit EXCEPT ![e] = "dead"] /\ alone' = FALSE
    /\ UNCHANGED <<book, mine, told>>

Next == \E e \in Edit : LoadBook(e) \/ SaveOpen(e) \/ SaveWrite(e) \/ EditDies(e)

(* `resolve`: the name itself, else some name of the same letters, else    *)
(* the token is parsed (module ShortCode).                                 *)
Resolve(b, n) ==
    IF n \in DOMAIN b THEN {b[n]} ELSE {b[m] : m \in {k \in DOMAIN b : Fold[k] = Fold[n]}}

-----------------------------------------------------------------------------
(* Whatever was added, removed and added again, and however alike the      *)
(* names, a saved name dials the endpoint it was last saved for, as long   *)
(* as runs do not overlap and none dies in the middle.                     *)
SavedNameDials ==
    alone /\ (\A e \in Edit : ~Busy(e))
      => \A n \in DOMAIN told : Resolve(book, n) = {told[n]}
=============================================================================
