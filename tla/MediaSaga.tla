------------------------------ MODULE MediaSaga ------------------------------
(***************************************************************************)
(* What a content save promises about two systems without a common         *)
(* transaction: the content in the Mainserver and the media of its Studio  *)
(* operation.  The media are kept only for content that was saved and      *)
(* discarded only when no content that uses them was or will be saved.     *)
(***************************************************************************)
VARIABLES content,  \* "open", "saved" or "refused" by the Mainserver
          media     \* "open", "kept" or "discarded"

Init == content = "open" /\ media = "open"

Save == /\ content = "open" /\ media # "discarded"
        /\ content' = "saved"
        /\ UNCHANGED media

Refuse == content = "open" /\ content' = "refused" /\ UNCHANGED media

Keep == content = "saved" /\ media' = "kept" /\ UNCHANGED content

Discard == /\ content # "saved" /\ media # "kept"
           /\ media' = "discarded"
           /\ UNCHANGED content

Next == Save \/ Refuse \/ Keep \/ Discard

Spec == Init /\ [][Next]_<<content, media>>

=============================================================================
