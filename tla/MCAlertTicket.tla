--------------------------- MODULE MCAlertTicket ---------------------------
(* AlertTicket on small sets of model values. *)
EXTENDS AlertTicket, TLC

(* Nothing chooses between clients, handlers or alert ids. *)
Symmetry == Permutations(Client) \cup Permutations(Handler) \cup Permutations(Alert)

============================================================================
