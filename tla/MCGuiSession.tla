---------------------------- MODULE MCGuiSession ----------------------------
\* Three wallet files, two of them with the same keys; at the first start the
\* secure file is missing or lists two wallets.
EXTENDS GuiSession
CONSTANTS p1, p2, p3, a, b
const_Path == {p1, p2, p3}
const_Address == [p \in const_Path |-> IF p = p3 THEN p1 ELSE p]
const_Pass == {a, b}
const_Files == {[pass |-> a, wallets |-> <<p1, p2>>]}
=============================================================================
