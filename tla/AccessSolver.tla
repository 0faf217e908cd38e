---------------------------- MODULE AccessSolver ----------------------------
(* The access control solver of the Postgres subsystem: how an @access rule  *)
(* is reduced, against the context of a request and the input of a mutation, *)
(* to a predicate that PostgreSQL can evaluate.                              *)
(*                                                                           *)
(* The modelled entity is a document with the fields owner (a user, by       *)
(* default AuthContext.id), public (a Boolean with no default) and project,  *)
(* a project having an owner of its own: the smallest schema in which a rule *)
(* can speak of a column, of a related row and of the context.  Fields carry *)
(* no rule of their own, so check_selection_access and check_input_access    *)
(* contribute True.  All columns are NOT NULL.                               *)
EXTENDS Integers, FiniteSets

CONSTANTS Users,        \* the users, strings
          Projects,     \* the projects, strings
          Rules         \* the expressions and their subexpressions

Comparisons == {e \in Rules : e.op \in {"eq", "neq"}}

Operands(e) ==
    CASE e.op = "not" -> {e.arg}
      [] e.op \in {"and", "or"} -> {e.left, e.right}
      [] OTHER -> {}

(* What the type checker accepts.  An expression is finite: a set of them    *)
(* always has one with no operand in the set.                                *)
ASSUME RulesAssumption ==
    /\ \A e \in Rules :
         /\ e.op \in {"literal", "eq", "neq", "not", "and", "or"}
         /\ e.op = "literal" => e.value \in BOOLEAN
         /\ Operands(e) \subseteq Rules
    /\ \A S \in SUBSET Rules : S # {} => \E e \in S : Operands(e) \cap S = {}
    /\ \A e \in Comparisons : \A prim \in {e.left, e.right} :
         \/ prim.prim = "context" /\ prim.name \in {"id", "role"}
         \/ prim.prim = "literal"
         \/ prim.prim = "path" /\ prim.name \in {"owner", "public", "projectOwner"}

Missing == "missing"    \* Ok(None): the claim is not there
Failed  == "failed"     \* Err: the token is malformed or has expired

ASSUME UsersAssumption == Users \cap {Missing, Failed} = {}

(***************************************************************************)
(* What a rule is evaluated over.  A database predicate ranges over the    *)
(* documents, each joined with its project.  The columns of a precheck are *)
(* reached from a row of the projects, the only table an input can refer   *)
(* to, or from a document again: a reading has a row for either lead.      *)
(***************************************************************************)
Views == [owner: Users, public: {"true", "false"}, projectOwner: Users]
ProjectRows == [id: Projects, owner: Users]
Readings == [document: Views, project: ProjectRows]

(***************************************************************************)
(* AbstractPredicate: the code compares predicates with the constructors   *)
(* True and False, so those are kept apart; any other predicate is the set *)
(* of rows it holds on, and its column paths: those of a document, of the  *)
(* project of a document ("document.project") or of a project by itself.   *)
(***************************************************************************)
True  == [form |-> "true",  rows |-> {}, paths |-> {}]
False == [form |-> "false", rows |-> {}, paths |-> {}]
Error == [form |-> "error", rows |-> {}, paths |-> {}]
Bool(b) == IF b THEN True ELSE False
Sql(rows, paths) == [form |-> "sql", rows |-> rows, paths |-> paths]

PredicateAnd(p, q) ==
    CASE p = False \/ q = False -> False
      [] p = True -> q
      [] q = True -> p
      [] OTHER -> Sql(p.rows \cap q.rows, p.paths \cup q.paths)

PredicateOr(p, q) ==
    CASE p = True \/ q = True -> True
      [] p = False -> q
      [] q = False -> p
      [] OTHER -> Sql(p.rows \cup q.rows, p.paths \cup q.paths)

PredicateNot(universe, p) ==
    CASE p = True -> False
      [] p = False -> True
      [] OTHER -> Sql(universe \ p.rows, p.paths)

Holds(p, row) == p = True \/ (p.form = "sql" /\ row \in p.rows)

(* PhysicalColumnPath::lead_table_id of the column paths.                    *)
Leads(p) == {IF path = "project" THEN "projects" ELSE "documents" : path \in p.paths}

(***************************************************************************)
(* AccessSolution.  An unsolvable one still carries the predicate to use   *)
(* if it is forced to resolve.                                             *)
(***************************************************************************)
Solved(p) == [solved |-> TRUE, res |-> p]
Unsolvable(p) == [solved |-> FALSE, res |-> p]

SolutionNot(universe, s) ==
    IF s.solved THEN Solved(PredicateNot(universe, s.res)) ELSE s

SolutionAnd(s, t) == [solved |-> s.solved \/ t.solved, res |-> PredicateAnd(s.res, t.res)]

(* Gives up on a disjunction with an unsolvable side.                        *)
SolutionOr_strict(s, t) ==
    IF s.solved /\ t.solved THEN Solved(PredicateOr(s.res, t.res)) ELSE Unsolvable(False)

SolutionOr(s, t)  == [solved |-> s.solved \/ t.solved, res |-> PredicateOr(s.res, t.res)]

(***************************************************************************)
(* AccessSolver::solve with solve_logical_op: the left side first, with a  *)
(* short circuit on a solved constant, and the first error ends it.  What  *)
(* an expression comes to depends on what its operands, in s, come to.     *)
(***************************************************************************)
Then(s, next) == IF s.res = Error THEN s ELSE next

SolveLogical(solve_relational_op, universe, s, e) ==
    CASE e.op = "literal" -> Solved(Bool(e.value))
      [] e.op \in {"eq", "neq"} -> solve_relational_op[e]
      [] e.op = "not" ->
           Then(s[e.arg], SolutionNot(universe, s[e.arg]))
      [] e.op = "and" ->
           IF s[e.left] = Solved(False) THEN s[e.left]
           ELSE Then(s[e.left], Then(s[e.right], SolutionAnd(s[e.left], s[e.right])))
      [] e.op = "or" ->
           IF s[e.left] = Solved(True) THEN s[e.left]
           ELSE Then(s[e.left], Then(s[e.right], SolutionOr(s[e.left], s[e.right])))

solve(solve_relational_op, universe) ==
    LET s[e \in Rules] == SolveLogical(solve_relational_op, universe, s, e) IN s

(***************************************************************************)
(* The form of a rule, and the rule of the documentation's blog example.   *)
(***************************************************************************)
Ctx(name)  == [prim |-> "context", name |-> name]
Lit(value) == [prim |-> "literal", value |-> value]
Path(name) == [prim |-> "path", name |-> name]
Eq(l, r)  == [op |-> "eq", left |-> l, right |-> r]
Neq(l, r) == [op |-> "neq", left |-> l, right |-> r]
And(l, r) == [op |-> "and", left |-> l, right |-> r]
Or(l, r)  == [op |-> "or", left |-> l, right |-> r]
Not(e)    == [op |-> "not", arg |-> e]
Literal(b) == [op |-> "literal", value |-> b]

OwnerRule == Or(Eq(Path("owner"), Ctx("id")), Eq(Ctx("role"), Lit("admin")))

(***************************************************************************)
(* A primitive expression: a context field, a literal or a path from self. *)
(* A common one reduces to a value, to Missing or to an error.             *)
(***************************************************************************)
reduce_common_primitive_expression(context, prim) ==
    IF prim.prim = "context" THEN context[prim.name] ELSE prim.value

IsCommon(prim) == prim.prim # "path"

Compare(op, v, w) == IF op = "eq" THEN v = w ELSE v # w

(***************************************************************************)
(* The database solver: what is left is a condition on the rows.           *)
(***************************************************************************)

(* Takes a comparison with a missing context value for one that holds.       *)
database_missing_true == Unsolvable(True)

database_missing == Unsolvable(False)

database_relational_op(context, e) ==
    LET Value(prim) == reduce_common_primitive_expression(context, prim)
        Commons == {prim \in {e.left, e.right} : IsCommon(prim)}
        Read == {IF prim.name = "projectOwner" THEN "document.project" ELSE "document" :
                   prim \in {e.left, e.right} \ Commons}
        Side(prim, view) == IF IsCommon(prim) THEN Value(prim) ELSE view[prim.name]
    IN  IF \E prim \in Commons : Value(prim) = Failed THEN Solved(Error)
        ELSE IF \E prim \in Commons : Value(prim) = Missing THEN database_missing
        ELSE IF {e.left, e.right} = Commons
        THEN Solved(Bool(Compare(e.op, Value(e.left), Value(e.right))))
        ELSE IF e.left = e.right THEN Solved(Bool(e.op = "eq"))
        ELSE Solved(Sql({v \in Views : Compare(e.op, Side(e.left, v), Side(e.right, v))}, Read))

solve_database(context, expr) ==
    solve([e \in Comparisons |-> database_relational_op(context, e)], Views)[expr]

(***************************************************************************)
(* The precheck solver.  A field is looked up in the input and then in its *)
(* default; the owner of the project is never in an input, only the        *)
(* project is (FieldPath::Pk), so that path leaves a condition on the      *)
(* projects: its core, and the project that the input names, if it does.   *)
(***************************************************************************)
resolve_value(context, input, field) ==
    IF field \in DOMAIN input THEN input[field]
    ELSE IF field = "owner" THEN context["id"] ELSE Missing

(* Does not tie the condition to the project that the input names.           *)
compute_relational_predicate_untied(input) == True

compute_relational_predicate(input) ==
    IF "project" \in DOMAIN input
    THEN Sql({r \in Readings : r.project.id = input["project"]}, {"project"})
    ELSE True

process_path_common_expr(context, input, op, field, value) ==
    LET found == resolve_value(context, input, field) IN
    IF field = "projectOwner"
    THEN Solved(PredicateAnd(
           Sql({r \in Readings : Compare(op, r.project.owner, value)}, {"project"}),
           compute_relational_predicate(input)))
    ELSE IF found = Failed THEN Solved(Error)
    ELSE IF found = Missing THEN Unsolvable(True)     \* ignore_missing_value
    ELSE Solved(Bool(Compare(op, found, value)))

(* Two paths, none of whose values is in the input.  resolve_path makes a    *)
(* literal of a field; the owner of the project stays the whole path from    *)
(* the document, next to the tie of the project by itself.  (Of two fields   *)
(* that differ one is public, which has no value here.)                      *)
process_paths(context, input, op, left, right) ==
    LET found == {resolve_value(context, input, f) : f \in {left, right} \ {"projectOwner"}}
        Side(f, r) == IF f = "projectOwner" THEN r.document.projectOwner
                      ELSE resolve_value(context, input, f)
        core == CASE Missing \in found -> True            \* ignore_missing_value
                  [] Missing \notin found /\ left = right -> Bool(op = "eq")
                  [] Missing \notin found /\ left # right ->
                       Sql({r \in Readings : Compare(op, Side(left, r), Side(right, r))},
                           {"document.project"})
    IN  IF Failed \in found THEN Solved(Error)
        ELSE IF "projectOwner" \notin {left, right} THEN Solved(core)
        ELSE Solved(PredicateAnd(core, compute_relational_predicate(input)))

precheck_relational_op(context, input, e) ==
    LET Reduced(prim) ==
            IF IsCommon(prim) THEN reduce_common_primitive_expression(context, prim)
            ELSE input[prim.name]
        Common == {prim \in {e.left, e.right} : IsCommon(prim) \/ prim.name \in DOMAIN input}
        Paths == {e.left, e.right} \ Common
    IN  IF \E prim \in Common : Reduced(prim) = Failed THEN Solved(Error)
        ELSE IF \E prim \in Common : Reduced(prim) = Missing THEN Unsolvable(False)
        ELSE CASE Paths = {} -> Solved(Bool(Compare(e.op, Reduced(e.left), Reduced(e.right))))
               [] Paths # {} /\ e.right \in Common ->
                    process_path_common_expr(context, input, e.op, e.left.name, Reduced(e.right))
               [] Paths # {} /\ e.left \in Common ->
                    process_path_common_expr(context, input, e.op, e.right.name, Reduced(e.left))
               [] OTHER -> process_paths(context, input, e.op, e.left.name, e.right.name)

solve_precheck(context, input, expr) ==
    solve([e \in Comparisons |-> precheck_relational_op(context, input, e)], Readings)[expr]

(* compute_precheck_query: no query for True, and an error unless every      *)
(* column path starts from one table, whose rows the query selects.          *)
OneLead(p) == p = True \/ Cardinality(Leads(p)) = 1
SelectsProject(p, row) == \E v \in Views : Holds(p, [document |-> v, project |-> row])
SelectsDocument(p, view) == \E r \in ProjectRows : Holds(p, [document |-> view, project |-> r])

(***************************************************************************)
(* check_access for the four kinds of operation.  The predicate of a       *)
(* solution is used whether it was solved or not.                          *)
(***************************************************************************)
Access(precheck, entity) ==
    IF Error \in {precheck, entity} THEN [outcome |-> "error", precheck |-> True, entity |-> True]
    ELSE IF False \in {precheck, entity}
    THEN [outcome |-> "authorization", precheck |-> True, entity |-> True]
    ELSE [outcome |-> "ok", precheck |-> precheck, entity |-> entity]

check_create_access(context, input, expr) ==
    Access(solve_precheck(context, input, expr).res, True)

check_retrieve_access(context, expr) ==
    Access(True, solve_database(context, expr).res)

(* Leaves out the check of the input.                                        *)
check_update_access_rows_only(context, input, expr) ==
    Access(True, solve_database(context, expr).res)

check_update_access(context, input, expr) ==
    LET precheck == solve_precheck(context, input, expr).res IN
    IF precheck \in {False, Error} THEN Access(precheck, True)
    ELSE Access(precheck, solve_database(context, expr).res)

check_delete_access(context, expr) ==
    Access(True, solve_database(context, expr).res)

check_access(kind, context, input, expr) ==
    CASE kind = "query"  -> check_retrieve_access(context, expr)
      [] kind = "create" -> check_create_access(context, input, expr)
      [] kind = "update" -> check_update_access(context, input, expr)
      [] kind = "delete" -> check_delete_access(context, expr)

(***************************************************************************)
(* The reference: what a rule says of one document, in Kleene's logic, a   *)
(* comparison with a missing context value being neither true nor false.   *)
(***************************************************************************)
Strength(b) == IF b THEN 2 ELSE 0                \* 2 true, 1 unknown, 0 false

SaysOfComparison(context, view, e) ==
    LET Side(prim) == IF IsCommon(prim) THEN reduce_common_primitive_expression(context, prim)
                      ELSE view[prim.name]
    IN  IF {Side(e.left), Side(e.right)} \cap {Missing, Failed} # {} THEN 1
        ELSE Strength(Compare(e.op, Side(e.left), Side(e.right)))

SaysLogical(context, view, say, e) ==
    CASE e.op = "literal" -> Strength(e.value)
      [] e.op \in {"eq", "neq"} -> SaysOfComparison(context, view, e)
      [] e.op = "not" -> 2 - say[e.arg]
      [] e.op = "and" -> IF say[e.left] < say[e.right] THEN say[e.left] ELSE say[e.right]
      [] e.op = "or"  -> IF say[e.left] > say[e.right] THEN say[e.left] ELSE say[e.right]

Says(context, view) ==
    LET say[e \in Rules] == SaysLogical(context, view, say, e) IN say

Grants(context, view, expr) == Says(context, view)[expr] = 2

(***************************************************************************)
(* The rules for which the solvers decide what the reference says.  A      *)
(* conjunction or disjunction with one undecided side counts as solved and *)
(* is negated as if it were false; the negation of a path condition also   *)
(* negates its tie to the related row.  A comparison of public with public *)
(* is ignored by the precheck of an input that leaves public out.          *)
(***************************************************************************)
NegatesSimpleOnly == \A e \in Rules : e.op = "not" => e.arg.op \in {"literal", "eq", "neq"}

FieldsOnly(e) ==
    \A prim \in {e.left, e.right} : ~IsCommon(prim) => prim.name # "projectOwner"

NegatesFieldsOnly ==
    \A e \in Rules : e.op = "not" =>
        \/ e.arg.op = "literal"
        \/ e.arg.op \in {"eq", "neq"} /\ FieldsOnly(e.arg)

PairsWithoutPublic ==
    \A e \in Comparisons : ~IsCommon(e.left) /\ ~IsCommon(e.right) =>
        "public" \notin {e.left.name, e.right.name}
=============================================================================
