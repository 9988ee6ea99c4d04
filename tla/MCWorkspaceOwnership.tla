----------------------- MODULE MCWorkspaceOwnership -----------------------
(* Instances of WorkspaceOwnership for TLC. *)
EXTENDS WorkspaceOwnership, TLC

CONSTANTS alice, bob, carol, k1, k2

R(op, by, user, role, challenge) ==
  [op |-> op, by |-> by, user |-> user, role |-> role, challenge |-> challenge]

Handover ==
  {R("initiate", alice, bob, NULL, k1), R("create", alice, carol, NULL, k2),
   R("approve", bob, NULL, NULL, k1), R("approve", alice, NULL, NULL, k1),
   R("approve", bob, NULL, NULL, k2),
   R("consume", alice, NULL, NULL, k1), R("consume", alice, NULL, NULL, k2)}
Membership ==
  {R("add", alice, bob, "admin", NULL), R("change", alice, bob, "viewer", NULL),
   R("remove", alice, bob, NULL, NULL), R("remove", bob, alice, NULL, NULL)}
Lifecycle ==
  {R("archive", alice, NULL, NULL, NULL), R("restore", alice, NULL, NULL, NULL),
   R("delete", alice, NULL, NULL, NULL), R("admin_delete", bob, NULL, NULL, NULL)}
SessionSymmetry == Permutations(Sessions)

AllRequests == Handover \cup Membership \cup Lifecycle
=============================================================================
