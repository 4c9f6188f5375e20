----------------------------- MODULE MCReconcile -----------------------------
(* What people do, in the instances of Reconcile that TLC checks.           *)
EXTENDS Reconcile

Everything == {"delete account", "delete binding", "rebind", "delete secret",
               "overwrite secret", "edit", "lose status", "revoke", "bootstrap"}

AccountDeleted == {"delete account"}
OwnReplaced == {"revoke", "bootstrap"}
=============================================================================
