--------------------------- MODULE MCSessionInbox ---------------------------
(***************************************************************************)
(* Two requests at a time: two pages, or a page and the user's Stop.  They *)
(* may do the same, so they are taken as one.                              *)
(***************************************************************************)
EXTENDS SessionInboxProps, TLC

CONSTANTS q1, q2

TwoRequests == {q1, q2}
OneRequest == {q1}
Symmetric == Permutations(Requests)

\* Bound: after the code has mixed something up the properties promise nothing more.
NotMixedUp == mishaps \cap {"overlap", "shared", "guess", "replay"} = {}
=============================================================================
