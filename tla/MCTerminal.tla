----------------------------- MODULE MCTerminal -----------------------------
(* Readers of one group, and readers of a group each.                      *)
EXTENDS Terminal

OneGroup  == <<"g", "g">>
OwnGroups == <<"g", "h">>
=============================================================================
