------------------------- MODULE MCGuardedOperation -------------------------
(* Two requests on one document and two projects, under rules that a column, *)
(* a related row, the context, a connective or a negation decides, and under *)
(* two interception trees.                                                   *)
EXTENDS GuardedOperation, TLC

Everyone == Literal(TRUE)
Owner == Eq(Path("owner"), Ctx("id"))
Admin == Eq(Ctx("role"), Lit("admin"))
Public == Eq(Path("public"), Lit("true"))
ProjectRule == Or(Admin, Eq(Path("projectOwner"), Ctx("id")))

Atoms == {Everyone, Owner, Admin, Public, Eq(Path("projectOwner"), Ctx("id")),
          Neq(Ctx("id"), Path("owner")), Eq(Path("owner"), Path("projectOwner"))}
Compound == {OwnerRule, ProjectRule, Not(Owner), And(Not(Admin), Public),
             Or(Public, Neq(Ctx("id"), Path("owner"))),
             And(Owner, Eq(Path("owner"), Path("projectOwner")))}
MCRules == Atoms \cup Compound \cup {Not(Admin)}

(* These rules meet the hypotheses of the theorems on access.                *)
ASSUME WithinTheorems == NegatesSimpleOnly /\ NegatesFieldsOnly /\ PairsWithoutPublic

Plain(query, mutation) ==
    [query |-> query, mutation |-> mutation, offers |-> {"query", "create", "update", "delete"},
     before |-> 0, around |-> 0, after |-> 0]
MCDeployments ==
    {Plain(Everyone, OwnerRule), Plain(Owner, ProjectRule),
     Plain(And(Not(Admin), Public), And(Owner, Eq(Path("owner"), Path("projectOwner")))),
     Plain(Or(Public, Neq(Ctx("id"), Path("owner"))), Not(Owner)),
     [query |-> Everyone, mutation |-> OwnerRule, offers |-> {"query", "update"},
      before |-> 1, around |-> 1, after |-> 1],
     [query |-> Public, mutation |-> ProjectRule, offers |-> {"create", "delete"},
      before |-> 0, around |-> 2, after |-> 0]}

Swap == Permutations(Clients)

MCIdentities == {[id |-> "ann", role |-> "user"], [id |-> "bob", role |-> "admin"]}
MCRequests ==
    {[kind |-> k, id |-> 1, input |-> <<>>] : k \in {"query", "delete"}}
    \cup {[kind |-> "update", id |-> 1, input |-> i] :
            i \in {[public |-> "true"], [owner |-> "bob"], [project |-> "q"]}}
    \cup {[kind |-> "create", id |-> 0, input |-> i] :
            i \in {[public |-> "false", project |-> "p"],
                   [owner |-> "bob", public |-> "true", project |-> "q"],
                   [owner |-> "ann", project |-> "p"]}}
MCDatabases ==
    {[documents |-> 1 :> [owner |-> "ann", public |-> "false", project |-> "p"],
      projects |-> [p |-> "ann", q |-> "ann"]],
     [documents |-> 1 :> [owner |-> "bob", public |-> "true", project |-> "p"],
      projects |-> [p |-> "ann", q |-> "bob"]]}
=============================================================================
