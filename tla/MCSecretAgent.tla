--------------------------- MODULE MCSecretAgent ---------------------------
(* One or two requests for one profile and setting while NetworkManager     *)
(* cancels, deletes, saves, is replaced or runs activations. Calls carry    *)
(* NetworkManager's request-new and allow-interaction flags.                *)
EXTENDS SecretAgent

MCScenarios ==
    {[calls |-> 2, moves |-> 1, kinds |-> {"delete", "owner"},
      flags |-> {{"interact"}}],
     [calls |-> 2, moves |-> 1, kinds |-> {"save"},
      flags |-> {{}}],
     [calls |-> 1, moves |-> 2, kinds |-> {"save", "owner", "delete"},
      flags |-> SUBSET {"new", "interact"}],
     [calls |-> 1, moves |-> 2, kinds |-> {"activation", "cancel", "owner"},
      flags |-> SUBSET {"new", "interact"}]}
=============================================================================
