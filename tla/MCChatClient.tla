----------------------------- MODULE MCChatClient -----------------------------
(* Model values for the runs of ChatClient.                                *)
EXTENDS ChatClientInv

CONSTANTS n1, n2

OneName == {n1}
TwoNames == {n1, n2}
=============================================================================
