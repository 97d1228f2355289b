-------------------------------- MODULE RolesMC --------------------------------
(* Small instances of Roles for TLC. *)
EXTENDS Roles, TLC

CONSTANTS custom, u1, u2, p, edited

Do(tool, r, u, perms, desc, permit) ==
  [tool |-> tool, role |-> r, user |-> u, perms |-> perms, desc |-> desc, permitUnknown |-> permit]

\* An admin is unassigned; the custom role is created, changed with the
\* description carried over, handed out and deleted.
MCOperations ==
  {Do("unassign_role", Admin, u1, {}, {}, FALSE),
   Do("assign_role", custom, u1, {}, {}, FALSE),
   Do("update_role", custom, u1, {p}, {}, FALSE),
   Do("create_role", custom, u1, {p}, {edited}, TRUE),
   Do("delete_role", custom, u1, {}, {}, FALSE),
   Do("delete_role", Admin, u1, {}, {}, FALSE)}

\* The two removals that race for the last admin.
LockoutOperations == {Do("unassign_role", Admin, u, {}, {}, FALSE) : u \in {u1, u2}}

MCStarts ==
  {[roles |-> (Admin  :> [exists |-> TRUE, perms |-> {Wildcard}, desc |-> Blank, members |-> {u1, u2}]
               @@ custom :> [exists |-> TRUE, perms |-> {}, desc |-> Blank, members |-> {}]),
    users |-> {u1, u2}, catalogue |-> {}]}

SlotSymmetry == Permutations(Slots)
=============================================================================
