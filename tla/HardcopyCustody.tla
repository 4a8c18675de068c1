--------------------------- MODULE HardcopyCustody ---------------------------
(***************************************************************************)
(* What hardcopy transfers promise: the physical copy moves by the edits   *)
(* begun while its document was still open, and else only by a transfer    *)
(* that was approved first and then handed over.                           *)
(***************************************************************************)
CONSTANTS Transfer, Place, Slot

VARIABLES place, granted, sent, open, edits

Init == /\ place \in Place /\ open \in BOOLEAN
        /\ granted = {} /\ sent = {} /\ edits = {}

Grant(t) == /\ granted' = granted \cup {t}
            /\ UNCHANGED <<place, sent, open, edits>>

Send(t) == /\ t \in granted
           /\ sent' = sent \cup {t}
           /\ UNCHANGED <<place, granted, open, edits>>

Receive(t) == /\ t \in sent
              /\ place' \in Place
              /\ UNCHANGED <<granted, sent, open, edits>>

BeginEdit(s) == /\ open
                /\ edits' = edits \cup {s}
                /\ UNCHANGED <<place, granted, sent, open>>

EndEdit(s) == /\ s \in edits
              /\ edits' = edits \ {s}
              /\ place' \in Place
              /\ UNCHANGED <<granted, sent, open>>

Close == /\ open' = FALSE
         /\ UNCHANGED <<place, granted, sent, edits>>

Next == \/ \E t \in Transfer : Grant(t) \/ Send(t) \/ Receive(t)
        \/ \E s \in Slot : BeginEdit(s) \/ EndEdit(s)
        \/ Close

Spec == Init /\ [][Next]_<<place, granted, sent, open, edits>>

=============================================================================
