---------------------------- MODULE MCAiMessages ----------------------------
(* Small instances of AiMessages.                                          *)
EXTENDS AiMessages, TLC

CONSTANT Owner

OneOwner == [m \in Messages |-> Owner]
=============================================================================
