---------------------------- MODULE MCController ----------------------------
(* Model-checking instances of the controller's mailboxes.                  *)
EXTENDS Controller
=============================================================================
