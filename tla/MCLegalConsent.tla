--------------------------- MODULE MCLegalConsent ---------------------------
(* LegalConsent for TLC.                                                    *)
EXTENDS LegalConsent, TLC
=============================================================================
