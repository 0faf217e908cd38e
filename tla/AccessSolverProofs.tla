------------------------- MODULE AccessSolverProofs -------------------------
(* What the access control solver computes, for every set of rules: the      *)
(* predicate it leaves to PostgreSQL holds on the rows that the rule grants. *)
EXTENDS AccessSolver, FiniteSetTheorems, TLAPS

(***************************************************************************)
(* Recursion over expressions.  Both the solver and the reference are      *)
(* functions whose value on an expression depends on their values on its   *)
(* operands; that there is such a function is proved for both at once.     *)
(***************************************************************************)
Step(which, a, b, s, e) ==
    IF which = "solve" THEN SolveLogical(a, b, s, e) ELSE SaysLogical(a, b, s, e)

Closed(D) == D \subseteq Rules /\ \A x \in D : Operands(x) \subseteq D

Satisfies(which, a, b, D, f) ==
    f = [x \in D |-> f[x]] /\ \A x \in D : f[x] = Step(which, a, b, f, x)

(* The value on an expression depends on the values on its operands only.    *)
LEMMA StepIsLocal ==
    ASSUME NEW which, NEW a, NEW b, NEW s, NEW t, NEW e \in Rules,
           \A x \in Operands(e) : s[x] = t[x]
    PROVE  Step(which, a, b, s, e) = Step(which, a, b, t, e)
<1>1. CASE e.op \in {"literal", "eq", "neq"}
  BY <1>1 DEF Step, SolveLogical, SaysLogical
<1>2. CASE e.op = "not"
  <2>1. s[e.arg] = t[e.arg]
    BY <1>2 DEF Operands
  <2> QED
    BY <1>2, <2>1 DEF Step, SolveLogical, SaysLogical
<1>3. CASE e.op \in {"and", "or"}
  <2>1. s[e.left] = t[e.left] /\ s[e.right] = t[e.right]
    BY <1>3 DEF Operands
  <2>2. CASE which = "solve" /\ e.op = "and"
    BY <2>1, <2>2 DEF Step, SolveLogical
  <2>3. CASE which = "solve" /\ e.op = "or"
    BY <2>1, <2>3 DEF Step, SolveLogical
  <2>4. CASE which # "solve"
    BY <1>3, <2>1, <2>4 DEF Step, SaysLogical
  <2> QED
    BY <1>3, <2>2, <2>3, <2>4
<1> QED
  <2>1. e.op \in {"literal", "eq", "neq", "not", "and", "or"}
    BY RulesAssumption, Zenon
  <2> QED
    BY <1>1, <1>2, <1>3, <2>1, Zenon

(* Two such functions agree wherever both are defined.                       *)
LEMMA Agreement ==
    ASSUME NEW which, NEW a, NEW b,
           NEW D, NEW E, Closed(D), Closed(E),
           NEW f, NEW g, Satisfies(which, a, b, D, f), Satisfies(which, a, b, E, g)
    PROVE  \A x \in D \cap E : f[x] = g[x]
<1> DEFINE S == {x \in D \cap E : f[x] # g[x]}
<1> SUFFICES ASSUME S # {} PROVE FALSE
  OBVIOUS
<1>1. PICK e \in S : Operands(e) \cap S = {}
  <2>1. S \in SUBSET Rules
    BY DEF Closed
  <2> QED
    BY <2>1, RulesAssumption
<1>2. \A x \in Operands(e) : f[x] = g[x]
  BY <1>1 DEF Closed
<1>3. Step(which, a, b, f, e) = Step(which, a, b, g, e)
  BY <1>2, StepIsLocal DEF Closed
<1> QED
  BY <1>3 DEF Satisfies

LEMMA RecursionExists ==
    ASSUME NEW which, NEW a, NEW b
    PROVE  \E f : f = [x \in Rules |-> Step(which, a, b, f, x)]
<1> DEFINE Below(x, D, f) == Closed(D) /\ x \in D /\ Satisfies(which, a, b, D, f)
           Good == {x \in Rules : \E D : \E f : Below(x, D, f)}
           Value(x) == CHOOSE v : \E D : \E f : Below(x, D, f) /\ v = f[x]
           g == [x \in Good |-> Value(x)]
<1> HIDE DEF Value
<1>1. ASSUME NEW x, NEW D, NEW f, Below(x, D, f)
      PROVE  x \in Good /\ g[x] = f[x]
  <2>1. x \in Good
    BY <1>1 DEF Closed
  <2>2. PICK D2, f2 : Below(x, D2, f2) /\ Value(x) = f2[x]
    <3>1. \E v : \E E : \E h : Below(x, E, h) /\ v = h[x]
      BY <1>1
    <3> QED
      BY <3>1, Zenon DEF Value
  <2>3. f[x] = f2[x]
    BY <1>1, <2>2, Agreement
  <2> QED
    BY <2>1, <2>2, <2>3
<1>2. Closed(Good)
  BY <1>1 DEF Closed
<1>3. ASSUME NEW x \in Good
      PROVE  g[x] = Step(which, a, b, g, x)
  <2>1. PICK D, f : Below(x, D, f)
    BY <1>3
  <2>2. ASSUME NEW y \in D PROVE g[y] = f[y]
    <3>1. Below(y, D, f)
      BY <2>1, <2>2
    <3> QED
      BY <1>1, <3>1, Zenon
  <2>3. \A y \in Operands(x) : g[y] = f[y]
    BY <2>1, <2>2 DEF Closed
  <2>4. Step(which, a, b, g, x) = Step(which, a, b, f, x)
    BY <2>3, StepIsLocal
  <2>5. f[x] = Step(which, a, b, f, x)
    BY <2>1 DEF Satisfies
  <2> QED
    BY <2>1, <2>2, <2>4, <2>5
<1>4. Good = Rules
  <2> SUFFICES ASSUME Rules \ Good # {} PROVE FALSE
    OBVIOUS
  <2> HIDE DEF Good
  <2>1. PICK e \in Rules \ Good : Operands(e) \cap (Rules \ Good) = {}
    BY RulesAssumption
  <2>2. Operands(e) \subseteq Good
    <3>1. Operands(e) \subseteq Rules
      BY RulesAssumption, Zenon
    <3> QED
      BY <2>1, <3>1
  <2> DEFINE D == Good \cup {e}
             h == [x \in D |-> IF x = e THEN Step(which, a, b, g, e) ELSE g[x]]
  <2>3. Closed(D)
    BY <1>2, <2>1, <2>2 DEF Closed
  <2>4. ASSUME NEW x \in D
        PROVE  h[x] = Step(which, a, b, h, x)
    <3>1. Operands(x) \subseteq Good
      BY <1>2, <2>2 DEF Closed
    <3>2. \A y \in Operands(x) : h[y] = g[y]
      BY <2>1, <3>1
    <3>3. Step(which, a, b, h, x) = Step(which, a, b, g, x)
      <4>1. x \in Rules
        BY <1>2 DEF Closed
      <4> HIDE DEF h, g
      <4> QED
        BY <3>2, <4>1, StepIsLocal
    <3>4. CASE x = e
      BY <3>3, <3>4
    <3>5. CASE x # e
      BY <1>3, <3>3, <3>5
    <3> QED
      BY <3>4, <3>5
  <2>5. Satisfies(which, a, b, D, h)
    BY <2>4 DEF Satisfies
  <2>6. Below(e, D, h)
    BY <2>3, <2>5
  <2> QED
    BY <1>1, <2>1, <2>6
<1>5. g = [x \in Rules |-> Step(which, a, b, g, x)]
  BY <1>3, <1>4
<1> QED
  BY <1>5

(* The equations of the two recursive functions.                             *)
LEMMA SolveEquation ==
    ASSUME NEW rel, NEW universe
    PROVE  \A e \in Rules :
             solve(rel, universe)[e] = SolveLogical(rel, universe, solve(rel, universe), e)
<1>1. \E f : f = [x \in Rules |-> SolveLogical(rel, universe, f, x)]
  <2>1. \A f : [x \in Rules |-> Step("solve", rel, universe, f, x)]
             = [x \in Rules |-> SolveLogical(rel, universe, f, x)]
    BY Zenon DEF Step
  <2> QED
    <3>1. PICK f : f = [x \in Rules |-> Step("solve", rel, universe, f, x)]
      BY RecursionExists
    <3> QED
      BY <2>1, <3>1, ZenonT(40)
<1>2. solve(rel, universe) =
        [x \in Rules |-> SolveLogical(rel, universe, solve(rel, universe), x)]
  BY <1>1, Zenon DEF solve
<1> QED
  BY <1>2, Zenon

LEMMA SaysEquation ==
    ASSUME NEW context, NEW view
    PROVE  \A e \in Rules :
             Says(context, view)[e] = SaysLogical(context, view, Says(context, view), e)
<1>1. \E f : f = [x \in Rules |-> SaysLogical(context, view, f, x)]
  <2>1. \A f : [x \in Rules |-> Step("says", context, view, f, x)]
             = [x \in Rules |-> SaysLogical(context, view, f, x)]
    BY DEF Step
  <2> QED
    <3>1. PICK f : f = [x \in Rules |-> Step("says", context, view, f, x)]
      BY RecursionExists
    <3> QED
      BY <2>1, <3>1, ZenonT(40)
<1>2. Says(context, view) =
        [x \in Rules |-> SaysLogical(context, view, Says(context, view), x)]
  BY <1>1, Zenon DEF Says
<1> QED
  BY <1>2, Zenon


(***************************************************************************)
(* Predicates, and the connectives on them.                                *)
(***************************************************************************)
ColumnPaths == {"document", "project", "document.project"}

Predicates(universe) ==
    {True, False} \cup {Sql(rows, paths) : rows \in SUBSET universe, paths \in SUBSET ColumnPaths}

LEMMA SqlType ==
    ASSUME NEW universe, NEW rows \in SUBSET universe, NEW paths \in SUBSET ColumnPaths
    PROVE  Sql(rows, paths) \in Predicates(universe)
BY DEF Predicates

LEMMA PredicateShape ==
    ASSUME NEW universe, NEW p \in Predicates(universe)
    PROVE  /\ p # Error
           /\ p.paths \in SUBSET ColumnPaths
           /\ p.rows \in SUBSET universe
           /\ \/ p = True /\ p # False /\ p.form = "true"
              \/ p = False /\ p # True /\ p.form = "false"
              \/ p # True /\ p # False /\ p.form = "sql"
<1>1. CASE p \in {True, False}
  <2>1. True.paths = {} /\ False.paths = {}
    BY DEF True, False
  <2>2. True.rows = {} /\ False.rows = {}
    BY DEF True, False
  <2>3. True.form = "true" /\ False.form = "false" /\ Error.form = "error"
    BY DEF True, False, Error
  <2> QED
    BY <1>1, <2>1, <2>2, <2>3
<1>2. ASSUME NEW rows \in SUBSET universe, NEW paths \in SUBSET ColumnPaths, p = Sql(rows, paths)
      PROVE  /\ p.paths = paths /\ p.rows = rows /\ p.form = "sql"
             /\ p # Error /\ p # True /\ p # False
  BY <1>2 DEF Sql, True, False, Error
<1> QED
  BY <1>1, <1>2 DEF Predicates

LEMMA SqlShape ==
    ASSUME NEW rows, NEW paths
    PROVE  /\ Sql(rows, paths) # True /\ Sql(rows, paths) # False /\ Sql(rows, paths) # Error
           /\ \A row : Holds(Sql(rows, paths), row) <=> row \in rows
<1>1. Sql(rows, paths).form = "sql" /\ Sql(rows, paths).rows = rows
  BY DEF Sql
<1>2. True.form = "true" /\ False.form = "false" /\ Error.form = "error"
  BY DEF True, False, Error
<1> QED
  BY <1>1, <1>2 DEF Holds

LEMMA ConstantShape ==
    /\ True # False /\ True # Error /\ False # Error
    /\ \A row : Holds(True, row) /\ ~Holds(False, row)
BY DEF True, False, Error, Holds

LEMMA ConstantType ==
    ASSUME NEW universe
    PROVE  True \in Predicates(universe) /\ False \in Predicates(universe)
BY DEF Predicates

(* Predicate::and and Predicate::or, simplifications included, hold on the   *)
(* rows that both, or one, of their arguments hold on.                       *)
LEMMA AndHolds ==
    ASSUME NEW universe, NEW p \in Predicates(universe), NEW q \in Predicates(universe)
    PROVE  /\ PredicateAnd(p, q) \in Predicates(universe)
           /\ \A row : Holds(PredicateAnd(p, q), row) <=> Holds(p, row) /\ Holds(q, row)
<1>1. CASE p = False \/ q = False
  BY <1>1, ConstantShape, PredicateShape DEF PredicateAnd, Holds
<1>2. CASE p # False /\ q # False /\ (p = True \/ q = True)
  BY <1>2, ConstantShape DEF PredicateAnd
<1>3. CASE p # False /\ q # False /\ p # True /\ q # True
  <2>1. p.paths \cup q.paths \in SUBSET ColumnPaths
    BY PredicateShape
  <2>2. PredicateAnd(p, q) = Sql(p.rows \cap q.rows, p.paths \cup q.paths)
    BY <1>3, Zenon DEF PredicateAnd
  <2>3. p.form = "sql" /\ q.form = "sql"
    BY <1>3, PredicateShape
  <2> QED
    BY <1>3, <2>1, <2>2, <2>3, SqlType, SqlShape, PredicateShape DEF Holds
<1> QED
  BY <1>1, <1>2, <1>3

LEMMA OrHolds ==
    ASSUME NEW universe, NEW p \in Predicates(universe), NEW q \in Predicates(universe)
    PROVE  /\ PredicateOr(p, q) \in Predicates(universe)
           /\ \A row : Holds(PredicateOr(p, q), row) <=> Holds(p, row) \/ Holds(q, row)
<1>1. CASE p = True \/ q = True
  BY <1>1, ConstantShape DEF PredicateOr
<1>2. CASE p # True /\ q # True /\ (p = False \/ q = False)
  BY <1>2, ConstantShape DEF PredicateOr
<1>3. CASE p # False /\ q # False /\ p # True /\ q # True
  <2>1. p.paths \cup q.paths \in SUBSET ColumnPaths
    BY PredicateShape
  <2>2. PredicateOr(p, q) = Sql(p.rows \cup q.rows, p.paths \cup q.paths)
    BY <1>3, Zenon DEF PredicateOr
  <2>3. p.form = "sql" /\ q.form = "sql"
    BY <1>3, PredicateShape
  <2> QED
    BY <1>3, <2>1, <2>2, <2>3, SqlType, SqlShape, PredicateShape DEF Holds
<1> QED
  BY <1>1, <1>2, <1>3

LEMMA NotHolds ==
    ASSUME NEW universe, NEW p \in Predicates(universe)
    PROVE  /\ PredicateNot(universe, p) \in Predicates(universe)
           /\ \A row \in universe : Holds(PredicateNot(universe, p), row) <=> ~Holds(p, row)
<1>1. CASE p = True \/ p = False
  BY <1>1, ConstantShape DEF PredicateNot, Predicates
<1>2. CASE p # True /\ p # False
  <2>1. PredicateNot(universe, p) = Sql(universe \ p.rows, p.paths)
    BY <1>2 DEF PredicateNot
  <2>2. p.form = "sql" /\ p.paths \in SUBSET ColumnPaths
    BY <1>2, PredicateShape
  <2> QED
    BY <1>2, <2>1, <2>2, SqlType, SqlShape DEF Holds
<1> QED
  BY <1>1, <1>2


(***************************************************************************)
(* The database solver.  The context it is given is that of the caller,    *)
(* or one whose every claim fails once the token has expired.              *)
(***************************************************************************)
Failing == [id |-> Failed, role |-> Failed]
Caller(who) == who["id"] # Failed /\ who["role"] # Failed
ContextOf(context, who) == context = who \/ context = Failing

(* A comparison is an error, or undecided with a reference of unknown, or    *)
(* solved with a predicate that holds where the comparison is true.          *)
Decides(solution, universe, row, says) ==
    \/ solution = Solved(Error) /\ says \in {0, 1, 2}
    \/ solution = Unsolvable(False) /\ says = 1
    \/ /\ solution = Solved(solution.res) /\ solution.res \in Predicates(universe)
       /\ says = IF Holds(solution.res, row) THEN 2 ELSE 0

LEMMA SolutionShape ==
    ASSUME NEW p
    PROVE  /\ Solved(p).solved = TRUE /\ Solved(p).res = p
           /\ Unsolvable(p).solved = FALSE /\ Unsolvable(p).res = p
BY Zenon DEF Solved, Unsolvable

LEMMA BoolShape ==
    ASSUME NEW universe, NEW b \in BOOLEAN, NEW row
    PROVE  /\ Bool(b) \in Predicates(universe)
           /\ Holds(Bool(b), row) <=> b
BY ConstantShape DEF Bool, Predicates

LEMMA SolvedDecides ==
    ASSUME NEW universe, NEW p \in Predicates(universe), NEW row, NEW b \in BOOLEAN,
           Holds(p, row) <=> b
    PROVE  Decides(Solved(p), universe, row, IF b THEN 2 ELSE 0)
<1>1. Solved(p).res = p
  BY SolutionShape
<1>2. (IF b THEN 2 ELSE 0) = (IF Holds(p, row) THEN 2 ELSE 0)
  BY Zenon
<1> QED
  BY <1>1, <1>2, Zenon DEF Decides

LEMMA ViewValues ==
    ASSUME NEW v \in Views, NEW name \in {"owner", "public", "projectOwner"}
    PROVE  v[name] \notin {Missing, Failed}
<1>1. v.owner \in Users /\ v.projectOwner \in Users /\ v.public \in {"true", "false"}
  BY DEF Views
<1> QED
  BY <1>1, UsersAssumption DEF Missing, Failed

(* A common expression that the solver could read is what the caller says.   *)
LEMMA CommonValues ==
    ASSUME NEW who, NEW context, Caller(who), ContextOf(context, who),
           NEW e \in Comparisons, NEW prim \in {e.left, e.right}, IsCommon(prim),
           reduce_common_primitive_expression(context, prim) # Failed
    PROVE  reduce_common_primitive_expression(context, prim)
             = reduce_common_primitive_expression(who, prim)
<1>1. \/ prim.prim = "context" /\ prim.name \in {"id", "role"}
      \/ prim.prim = "literal"
  BY RulesAssumption DEF IsCommon
<1>2. Failing["id"] = Failed /\ Failing["role"] = Failed
  BY DEF Failing
<1> QED
  BY <1>1, <1>2 DEF reduce_common_primitive_expression, ContextOf

LEMMA DatabaseComparison ==
    ASSUME NEW who, NEW context, Caller(who), ContextOf(context, who),
           NEW e \in Comparisons, NEW v \in Views
    PROVE  Decides(database_relational_op(context, e), Views, v, SaysOfComparison(who, v, e))
<1> DEFINE Value(prim) == reduce_common_primitive_expression(context, prim)
           Commons == {prim \in {e.left, e.right} : IsCommon(prim)}
           Read == {IF prim.name = "projectOwner" THEN "document.project" ELSE "document" :
                      prim \in {e.left, e.right} \ Commons}
           Side(prim, view) == IF IsCommon(prim) THEN Value(prim) ELSE view[prim.name]
           Rows == {w \in Views : Compare(e.op, Side(e.left, w), Side(e.right, w))}
           Said(prim) == IF IsCommon(prim) THEN reduce_common_primitive_expression(who, prim)
                         ELSE v[prim.name]
           d == database_relational_op(context, e)
           k == SaysOfComparison(who, v, e)
<1>1. d = IF \E prim \in Commons : Value(prim) = Failed THEN Solved(Error)
          ELSE IF \E prim \in Commons : Value(prim) = Missing THEN Unsolvable(False)
          ELSE IF {e.left, e.right} = Commons
          THEN Solved(Bool(Compare(e.op, Value(e.left), Value(e.right))))
          ELSE IF e.left = e.right THEN Solved(Bool(e.op = "eq"))
          ELSE Solved(Sql(Rows, Read))
  BY Zenon DEF database_relational_op, database_missing
<1>2. k = IF {Said(e.left), Said(e.right)} \cap {Missing, Failed} # {} THEN 1
          ELSE Strength(Compare(e.op, Said(e.left), Said(e.right)))
  BY Zenon DEF SaysOfComparison
<1>3. \A prim \in {e.left, e.right} \ Commons : v[prim.name] \notin {Missing, Failed}
  BY RulesAssumption, ViewValues DEF IsCommon
<1>4. ASSUME NEW prim \in Commons, Value(prim) # Failed
      PROVE  Value(prim) = Said(prim)
  BY <1>4, CommonValues
<1> HIDE DEF Value
<1>5. CASE \E prim \in Commons : Value(prim) = Failed
  BY <1>1, <1>2, <1>5 DEF Decides, Strength
<1>6. CASE /\ ~\E prim \in Commons : Value(prim) = Failed
           /\ \E prim \in Commons : Value(prim) = Missing
  <2>1. d = Unsolvable(False)
    BY <1>1, <1>6
  <2>2. k = 1
    BY <1>2, <1>4, <1>6
  <2> QED
    BY <2>1, <2>2 DEF Decides
<1>7. CASE ~\E prim \in Commons : Value(prim) \in {Missing, Failed}
  <2>1. \A prim \in {e.left, e.right} : Said(prim) = Side(prim, v)
    BY <1>4, <1>7
  <2>2. \A prim \in {e.left, e.right} : Said(prim) \notin {Missing, Failed}
    BY <1>3, <2>1, <1>7
  <2>3. k = Strength(Compare(e.op, Side(e.left, v), Side(e.right, v)))
    BY <1>2, <2>1, <2>2
  <2>4. PICK b \in BOOLEAN : b = Compare(e.op, Side(e.left, v), Side(e.right, v))
    BY Zenon DEF Compare
  <2>5. k = IF b THEN 2 ELSE 0
    BY <2>3, <2>4, Zenon DEF Strength
  <2>6. CASE {e.left, e.right} = Commons
    <3>1. d = Solved(Bool(b))
      BY <1>1, <1>7, <2>4, <2>6
    <3>2. Decides(Solved(Bool(b)), Views, v, IF b THEN 2 ELSE 0)
      BY BoolShape, SolvedDecides, Zenon
    <3> QED
      BY <2>5, <3>1, <3>2, Zenon
  <2>7. CASE {e.left, e.right} # Commons /\ e.left = e.right
    <3>1. b = (e.op = "eq")
      BY <2>4, <2>7, Zenon DEF Compare
    <3>2. d = Solved(Bool(b))
      BY <1>1, <1>7, <2>7, <3>1
    <3>3. Decides(Solved(Bool(b)), Views, v, IF b THEN 2 ELSE 0)
      BY BoolShape, SolvedDecides, Zenon
    <3> QED
      BY <2>5, <3>2, <3>3, Zenon
  <2>8. CASE {e.left, e.right} # Commons /\ e.left # e.right
    <3>1. d = Solved(Sql(Rows, Read))
      BY <1>1, <1>7, <2>8
    <3>2. Read \in SUBSET ColumnPaths
      BY DEF ColumnPaths
    <3>3. v \in Rows <=> b
      BY <2>4, Zenon
    <3>4. Rows \in SUBSET Views
      OBVIOUS
    <3> HIDE DEF Rows, Read
    <3>5. /\ Sql(Rows, Read) \in Predicates(Views)
          /\ Holds(Sql(Rows, Read), v) <=> b
      BY <3>2, <3>3, <3>4, SqlShape, SqlType, Zenon
    <3>6. Decides(Solved(Sql(Rows, Read)), Views, v, IF b THEN 2 ELSE 0)
      BY <3>5, SolvedDecides, Zenon
    <3> QED
      BY <2>5, <3>1, <3>6, Zenon
  <2> QED
    BY <2>6, <2>7, <2>8
<1> QED
  BY <1>5, <1>6, <1>7

(* The connectives.                                                          *)
Sound(s, k, universe, row) ==
    /\ k \in 0 .. 2
    /\ s.res = Error \/ (s.res \in Predicates(universe) /\ (Holds(s.res, row) <=> k = 2))

LEMMA ComparisonIsSound ==
    ASSUME NEW s, NEW k, NEW universe, NEW row, Decides(s, universe, row, k)
    PROVE  Sound(s, k, universe, row)
<1>1. CASE s = Solved(Error) /\ k \in {0, 1, 2}
  <2>1. s.res = Error
    BY <1>1, SolutionShape, Zenon
  <2> QED
    BY <1>1, <2>1 DEF Sound
<1>2. CASE s = Unsolvable(False) /\ k = 1
  <2>1. s.res = False
    BY <1>2, SolutionShape, Zenon
  <2>2. s.res \in Predicates(universe) /\ ~Holds(s.res, row)
    BY <2>1, ConstantShape, ConstantType, Zenon
  <2>3. k \in 0 .. 2 /\ k # 2
    BY <1>2
  <2> QED
    BY <2>2, <2>3, Zenon DEF Sound
<1>3. CASE /\ s = Solved(s.res) /\ s.res \in Predicates(universe)
           /\ k = IF Holds(s.res, row) THEN 2 ELSE 0
  BY <1>3 DEF Sound
<1> QED
  BY <1>1, <1>2, <1>3 DEF Decides


LEMMA NotIsSound ==
    ASSUME NEW universe, NEW row \in universe, NEW s, NEW k,
           Decides(s, universe, row, k)
    PROVE  Sound(Then(s, SolutionNot(universe, s)), 2 - k, universe, row)
<1>1. CASE s = Solved(Error) /\ k \in {0, 1, 2}
  <2>1. s.res = Error
    BY <1>1, SolutionShape, Zenon
  <2> QED
    BY <1>1, <2>1 DEF Sound, Then
<1>2. CASE s = Unsolvable(False) /\ k = 1
  <2>1. s.res = False /\ s.solved = FALSE
    BY <1>2, SolutionShape, Zenon
  <2>2. SolutionNot(universe, s) = s
    BY <2>1, Zenon DEF SolutionNot
  <2>3. s.res \in Predicates(universe) /\ ~Holds(s.res, row)
    BY <2>1, ConstantShape, ConstantType, Zenon
  <2>4. 2 - k \in 0 .. 2 /\ 2 - k # 2
    BY <1>2
  <2>5. Then(s, SolutionNot(universe, s)) = s
    BY <2>2, Zenon DEF Then
  <2> QED
    BY <2>3, <2>4, <2>5, Zenon DEF Sound
<1>3. CASE /\ s = Solved(s.res) /\ s.res \in Predicates(universe)
           /\ k = IF Holds(s.res, row) THEN 2 ELSE 0
  <2>1. s.solved = TRUE
    BY <1>3, SolutionShape, Zenon
  <2>2. SolutionNot(universe, s).res = PredicateNot(universe, s.res)
    BY <2>1, SolutionShape, Zenon DEF SolutionNot
  <2>3. /\ PredicateNot(universe, s.res) \in Predicates(universe)
        /\ Holds(PredicateNot(universe, s.res), row) <=> ~Holds(s.res, row)
    BY <1>3, NotHolds
  <2>4. Then(s, SolutionNot(universe, s)) = SolutionNot(universe, s)
    BY <1>3, PredicateShape DEF Then
  <2> QED
    BY <1>3, <2>2, <2>3, <2>4 DEF Sound
<1> QED
  BY <1>1, <1>2, <1>3 DEF Decides

LEMMA AndIsSound ==
    ASSUME NEW universe, NEW row, NEW s, NEW t, NEW j, NEW k,
           Sound(s, j, universe, row), Sound(t, k, universe, row)
    PROVE  Sound(IF s = Solved(False) THEN s ELSE Then(s, Then(t, SolutionAnd(s, t))),
                 IF j < k THEN j ELSE k, universe, row)
<1>1. CASE s = Solved(False)
  <2>1. s.res = False /\ ~Holds(False, row) /\ s.res # Error
    BY <1>1, SolutionShape, ConstantShape, Zenon
  <2> QED
    BY <1>1, <2>1 DEF Sound
<1>2. CASE s # Solved(False) /\ (s.res = Error \/ t.res = Error)
  BY <1>2 DEF Sound, Then
<1>3. CASE s # Solved(False) /\ s.res # Error /\ t.res # Error
  <2>1. SolutionAnd(s, t).res = PredicateAnd(s.res, t.res)
    BY Zenon DEF SolutionAnd
  <2>2. Then(s, Then(t, SolutionAnd(s, t))) = SolutionAnd(s, t)
    BY <1>3 DEF Then
  <2>3. /\ PredicateAnd(s.res, t.res) \in Predicates(universe)
        /\ Holds(PredicateAnd(s.res, t.res), row) <=> Holds(s.res, row) /\ Holds(t.res, row)
    BY <1>3, AndHolds DEF Sound
  <2> QED
    BY <1>3, <2>1, <2>2, <2>3 DEF Sound
<1> QED
  BY <1>1, <1>2, <1>3

LEMMA OrIsSound ==
    ASSUME NEW universe, NEW row, NEW s, NEW t, NEW j, NEW k,
           Sound(s, j, universe, row), Sound(t, k, universe, row)
    PROVE  Sound(IF s = Solved(True) THEN s ELSE Then(s, Then(t, SolutionOr(s, t))),
                 IF j > k THEN j ELSE k, universe, row)
<1>1. CASE s = Solved(True)
  <2>1. s.res = True /\ Holds(True, row) /\ s.res # Error
    BY <1>1, SolutionShape, ConstantShape, Zenon
  <2> QED
    BY <1>1, <2>1 DEF Sound
<1>2. CASE s # Solved(True) /\ (s.res = Error \/ t.res = Error)
  BY <1>2 DEF Sound, Then
<1>3. CASE s # Solved(True) /\ s.res # Error /\ t.res # Error
  <2>1. SolutionOr(s, t).res = PredicateOr(s.res, t.res)
    BY Zenon DEF SolutionOr
  <2>2. Then(s, Then(t, SolutionOr(s, t))) = SolutionOr(s, t)
    BY <1>3 DEF Then
  <2>3. /\ PredicateOr(s.res, t.res) \in Predicates(universe)
        /\ Holds(PredicateOr(s.res, t.res), row) <=> Holds(s.res, row) \/ Holds(t.res, row)
    BY <1>3, OrHolds DEF Sound
  <2> QED
    BY <1>3, <2>1, <2>2, <2>3 DEF Sound
<1> QED
  BY <1>1, <1>2, <1>3

(* Induction over the expressions: what holds of the comparisons holds of    *)
(* every rule.                                                               *)
LEMMA SolverIsSound ==
    ASSUME NegatesSimpleOnly,
           NEW rel, NEW universe, NEW row \in universe, NEW who, NEW view,
           \A e \in Comparisons : Decides(rel[e], universe, row, SaysOfComparison(who, view, e))
    PROVE  \A e \in Rules :
             Sound(solve(rel, universe)[e], Says(who, view)[e], universe, row)
<1> DEFINE s == solve(rel, universe)
           k == Says(who, view)
           S == {e \in Rules : ~Sound(s[e], k[e], universe, row)}
<1> SUFFICES ASSUME S # {} PROVE FALSE
  OBVIOUS
<1>1. PICK e \in S : Operands(e) \cap S = {}
  BY RulesAssumption
<1>2. \A x \in Operands(e) : x \in Rules /\ Sound(s[x], k[x], universe, row)
  BY <1>1, RulesAssumption
<1> HIDE DEF s, k
<1>3. \A x \in Rules : s[x] = SolveLogical(rel, universe, s, x)
  BY SolveEquation, Zenon DEF s
<1>4. \A x \in Rules : k[x] = SaysLogical(who, view, k, x)
  BY SaysEquation, Zenon DEF k
<1>5. ASSUME NEW x \in Rules, x.op \in {"literal", "eq", "neq"}
      PROVE  Decides(s[x], universe, row, k[x])
  <2>1. CASE x.op = "literal"
    <3>1. s[x] = Solved(Bool(x.value)) /\ k[x] = (IF x.value THEN 2 ELSE 0)
      BY <1>3, <1>4, <2>1 DEF SolveLogical, SaysLogical, Strength
    <3>2. x.value \in BOOLEAN
      BY <2>1, RulesAssumption
    <3> QED
      BY <3>1, <3>2, BoolShape, SolvedDecides, Zenon
  <2>2. CASE x.op \in {"eq", "neq"}
    <3>1. s[x] = rel[x] /\ k[x] = SaysOfComparison(who, view, x)
      BY <1>3, <1>4, <2>2 DEF SolveLogical, SaysLogical
    <3> QED
      BY <2>2, <3>1 DEF Comparisons
  <2> QED
    BY <1>5, <2>1, <2>2
<1>6. CASE e.op \in {"literal", "eq", "neq"}
  BY <1>5, <1>6, ComparisonIsSound
<1>7. CASE e.op = "not"
  <2>1. s[e] = Then(s[e.arg], SolutionNot(universe, s[e.arg])) /\ k[e] = 2 - k[e.arg]
    BY <1>3, <1>4, <1>7 DEF SolveLogical, SaysLogical
  <2>2. e.arg \in Rules
    BY <1>2, <1>7 DEF Operands
  <2>3. Decides(s[e.arg], universe, row, k[e.arg])
    BY <1>5, <1>7, <2>2 DEF NegatesSimpleOnly
  <2> QED
    BY <2>1, <2>3, NotIsSound
<1>8. CASE e.op = "and"
  <2> DEFINE both == IF s[e.left] = Solved(False) THEN s[e.left]
                     ELSE Then(s[e.left], Then(s[e.right], SolutionAnd(s[e.left], s[e.right])))
             says == IF k[e.left] < k[e.right] THEN k[e.left] ELSE k[e.right]
  <2>1. s[e] = both /\ k[e] = says
    BY <1>3, <1>4, <1>8 DEF SolveLogical, SaysLogical
  <2>2. /\ Sound(s[e.left], k[e.left], universe, row)
        /\ Sound(s[e.right], k[e.right], universe, row)
    BY <1>2, <1>8 DEF Operands
  <2>3. Sound(both, says, universe, row)
    BY <2>2, AndIsSound, Zenon
  <2> HIDE DEF both, says
  <2> QED
    BY <2>1, <2>3
<1>9. CASE e.op = "or"
  <2> DEFINE both == IF s[e.left] = Solved(True) THEN s[e.left]
                     ELSE Then(s[e.left], Then(s[e.right], SolutionOr(s[e.left], s[e.right])))
             says == IF k[e.left] > k[e.right] THEN k[e.left] ELSE k[e.right]
  <2>1. s[e] = both /\ k[e] = says
    BY <1>3, <1>4, <1>9 DEF SolveLogical, SaysLogical
  <2>2. /\ Sound(s[e.left], k[e.left], universe, row)
        /\ Sound(s[e.right], k[e.right], universe, row)
    BY <1>2, <1>9 DEF Operands
  <2>3. Sound(both, says, universe, row)
    BY <2>2, OrIsSound, Zenon
  <2> HIDE DEF both, says
  <2> QED
    BY <2>1, <2>3
<1> QED
  BY <1>6, <1>7, <1>8, <1>9, RulesAssumption


(* What the database solver leaves to PostgreSQL is the rule: a document     *)
(* satisfies its predicate exactly if the rule grants the document to the    *)
(* caller, whatever claims are missing and whatever was decided beforehand   *)
(* (database_solver.rs, the short circuits of access_solver.rs).             *)
THEOREM DatabaseSolverIsExact ==
    ASSUME NegatesSimpleOnly,
           NEW who, NEW context, Caller(who), ContextOf(context, who),
           NEW expr \in Rules, NEW v \in Views,
           solve_database(context, expr).res # Error
    PROVE  Holds(solve_database(context, expr).res, v) <=> Grants(who, v, expr)
<1> DEFINE rel == [e \in Comparisons |-> database_relational_op(context, e)]
<1>1. \A e \in Comparisons : Decides(rel[e], Views, v, SaysOfComparison(who, v, e))
  BY DatabaseComparison
<1> HIDE DEF rel
<1>2. Sound(solve(rel, Views)[expr], Says(who, v)[expr], Views, v)
  BY <1>1, SolverIsSound
<1>3. solve_database(context, expr) = solve(rel, Views)[expr]
  BY Zenon DEF solve_database, rel
<1> QED
  BY <1>2, <1>3, Zenon DEF Sound, Grants

-----------------------------------------------------------------------------
(* The precheck solver, on an input that leaves no field without a value.    *)
(* The reading is of the document to be, next to the project it names.       *)

(* The view is that of the document that the input and its default make.     *)
MadeFrom(v, context, input) ==
    /\ v \in Views
    /\ "projectOwner" \notin DOMAIN input
    /\ {"public", "project"} \subseteq DOMAIN input
    /\ input["project"] \in Projects
    /\ v.public = input["public"]
    /\ v.owner = resolve_value(context, input, "owner")

NamedProject(v, input) == [id |-> input["project"], owner |-> v.projectOwner]
Reading(v, input) == [document |-> v, project |-> NamedProject(v, input)]

LEMMA ReadingShape ==
    ASSUME NEW v, NEW context, NEW input, MadeFrom(v, context, input)
    PROVE  /\ Reading(v, input) \in Readings
           /\ Reading(v, input).document.projectOwner = v.projectOwner
           /\ Reading(v, input).project.owner = v.projectOwner
           /\ Reading(v, input).project.id = input["project"]
<1>1. v \in Views /\ NamedProject(v, input) \in ProjectRows
  BY DEF MadeFrom, NamedProject, ProjectRows, Views
<1>2. /\ Reading(v, input).document = v
      /\ Reading(v, input).project = NamedProject(v, input)
      /\ Reading(v, input) \in Readings
  BY <1>1, Zenon DEF Reading, Readings
<1>3. /\ NamedProject(v, input).owner = v.projectOwner
      /\ NamedProject(v, input).id = input["project"]
  BY Zenon DEF NamedProject
<1> QED
  BY <1>2, <1>3, Zenon

LEMMA CompareIsSymmetric ==
    ASSUME NEW op, NEW x, NEW y
    PROVE  Compare(op, x, y) = Compare(op, y, x) /\ Compare(op, x, y) \in BOOLEAN
BY Zenon DEF Compare

(* What is read of the document plays no part.                               *)
OfProject(rows) ==
    \A r, q \in Readings : r.project = q.project => (r \in rows <=> q \in rows)

(* A predicate that is no constant selects the named project at most; unless *)
(* it has a path from the document, it is a condition on the project.        *)
Tied(p, id) ==
    \/ p \in {True, False, Error}
    \/ /\ \A r : Holds(p, r) => r.project.id = id
       /\ "project" \in p.paths
       /\ "document.project" \notin p.paths => p.form = "sql" /\ OfProject(p.rows)

LEMMA AndWithTie ==
    ASSUME NEW v, NEW context, NEW input, MadeFrom(v, context, input),
           NEW rows \in SUBSET Readings, NEW paths \in SUBSET ColumnPaths,
           "document.project" \in paths \/ OfProject(rows),
           NEW p, p = PredicateAnd(Sql(rows, paths), compute_relational_predicate(input))
    PROVE  /\ p \in Predicates(Readings)
           /\ Holds(p, Reading(v, input)) <=> Reading(v, input) \in rows
           /\ Tied(p, input["project"])
<1> DEFINE tied == {r \in Readings : r.project.id = input["project"]}
<1>1. compute_relational_predicate(input) = Sql(tied, {"project"})
  BY DEF MadeFrom, compute_relational_predicate
<1>2. tied \in SUBSET Readings /\ {"project"} \in SUBSET ColumnPaths
  BY DEF ColumnPaths
<1>3. Reading(v, input) \in tied
  BY ReadingShape
<1>4. \A r, q \in Readings : r.project = q.project => (r \in tied <=> q \in tied)
  OBVIOUS
<1>5. \A r \in tied : r.project.id = input["project"]
  OBVIOUS
<1> HIDE DEF tied
<1>6. /\ Sql(rows, paths).rows = rows /\ Sql(rows, paths).paths = paths
      /\ Sql(tied, {"project"}).rows = tied /\ Sql(tied, {"project"}).paths = {"project"}
  BY DEF Sql
<1>7. p = Sql(rows \cap tied, paths \cup {"project"})
  <2>1. /\ Sql(rows, paths) \notin {True, False}
        /\ Sql(tied, {"project"}) \notin {True, False}
    BY SqlShape
  <2>2. p = PredicateAnd(Sql(rows, paths), Sql(tied, {"project"}))
    BY <1>1, Zenon
  <2>3. p = Sql(Sql(rows, paths).rows \cap Sql(tied, {"project"}).rows,
                Sql(rows, paths).paths \cup Sql(tied, {"project"}).paths)
    BY <2>1, <2>2, Zenon DEF PredicateAnd
  <2> QED
    BY <1>6, <2>3, Zenon
<1>8. p \in Predicates(Readings) /\ \A r : Holds(p, r) <=> r \in rows /\ r \in tied
  BY <1>2, <1>7, SqlType, SqlShape
<1>9. p.rows = rows \cap tied /\ p.paths = paths \cup {"project"} /\ p.form = "sql"
  BY <1>7 DEF Sql
<1>10. "document.project" \notin paths => OfProject(p.rows)
  BY <1>4, <1>9 DEF OfProject
<1> QED
  BY <1>3, <1>5, <1>8, <1>9, <1>10 DEF Tied

(* The condition on the project that process_path_common_expr leaves.        *)
ProjectPredicate(input, op, value) ==
    PredicateAnd(Sql({r \in Readings : Compare(op, r.project.owner, value)}, {"project"}),
                 compute_relational_predicate(input))

LEMMA ProjectCondition ==
    ASSUME NEW v, NEW context, NEW input, MadeFrom(v, context, input),
           NEW op, NEW value, NEW p, p = ProjectPredicate(input, op, value)
    PROVE  /\ p \in Predicates(Readings)
           /\ Holds(p, Reading(v, input)) <=> Compare(op, v.projectOwner, value)
           /\ Tied(p, input["project"])
<1> DEFINE rows == {r \in Readings : Compare(op, r.project.owner, value)}
<1>1. rows \in SUBSET Readings /\ {"project"} \in SUBSET ColumnPaths
  BY DEF ColumnPaths
<1>2. OfProject(rows)
  BY Zenon DEF OfProject
<1>3. Reading(v, input) \in rows <=> Compare(op, v.projectOwner, value)
  BY ReadingShape, Zenon
<1>4. p = PredicateAnd(Sql(rows, {"project"}), compute_relational_predicate(input))
  BY Zenon DEF ProjectPredicate
<1> HIDE DEF rows
<1> QED
  BY <1>1, <1>2, <1>3, <1>4, AndWithTie, Zenon

(* The condition that two paths leave, of which one is the project's owner.  *)
LEMMA PairOfPaths ==
    ASSUME NEW v, NEW context, NEW input, MadeFrom(v, context, input),
           NEW op \in {"eq", "neq"},
           NEW left \in {"owner", "projectOwner"} \ DOMAIN input,
           NEW right \in {"owner", "projectOwner"} \ DOMAIN input
    PROVE  LET d == process_paths(context, input, op, left, right) IN
           /\ Decides(d, Readings, Reading(v, input),
                      IF Compare(op, v[left], v[right]) THEN 2 ELSE 0)
           /\ Tied(d.res, input["project"])
           /\ "projectOwner" \notin {left, right} => d.res \in {True, False}
<1> DEFINE d == process_paths(context, input, op, left, right)
           row == Reading(v, input)
           found == {resolve_value(context, input, f) : f \in {left, right} \ {"projectOwner"}}
           Side(f, r) == IF f = "projectOwner" THEN r.document.projectOwner
                         ELSE resolve_value(context, input, f)
           rows == {r \in Readings : Compare(op, Side(left, r), Side(right, r))}
           tie == compute_relational_predicate(input)
<1>1. PICK b \in BOOLEAN : b = Compare(op, v[left], v[right])
  BY CompareIsSymmetric, Zenon
<1>2. resolve_value(context, input, "owner") = v.owner /\ v.owner \notin {Missing, Failed}
  BY ViewValues DEF MadeFrom
<1>3. Missing \notin found /\ Failed \notin found
  BY <1>2
<1>4. left = right => b = (op = "eq")
  BY <1>1, Zenon DEF Compare
<1>5. d = IF "projectOwner" \notin {left, right}
          THEN Solved(IF left = right THEN Bool(op = "eq") ELSE Sql(rows, {"document.project"}))
          ELSE Solved(PredicateAnd(
                 IF left = right THEN Bool(op = "eq") ELSE Sql(rows, {"document.project"}), tie))
  BY <1>3 DEF process_paths
<1>6. CASE left = right /\ left = "owner"
  <2>1. d = Solved(Bool(b))
    BY <1>4, <1>5, <1>6
  <2>2. Decides(d, Readings, row, IF b THEN 2 ELSE 0)
    BY <2>1, BoolShape, SolvedDecides, Zenon
  <2>3. d.res \in {True, False}
    BY <2>1, SolutionShape, Zenon DEF Bool
  <2> QED
    BY <1>1, <2>2, <2>3, Zenon DEF Tied
<1>7. CASE left = right /\ left = "projectOwner"
  <2>1. d = Solved(PredicateAnd(Bool(b), tie))
    BY <1>4, <1>5, <1>7
  <2>2. d.res = PredicateAnd(Bool(b), tie)
    BY <2>1, SolutionShape, Zenon
  <2> DEFINE q == PredicateAnd(Bool(b), tie)
             all == {r \in Readings : r.project.id = input["project"]}
  <2>3. tie = Sql(all, {"project"})
    BY DEF MadeFrom, compute_relational_predicate
  <2>4. q = IF b THEN Sql(all, {"project"}) ELSE False
    BY <2>3, SqlShape, ConstantShape DEF PredicateAnd, Bool
  <2>5. all \in SUBSET Readings /\ {"project"} \in SUBSET ColumnPaths
    BY DEF ColumnPaths
  <2>6. row \in all
    BY ReadingShape
  <2>7. (\A r \in all : r.project.id = input["project"]) /\ OfProject(all)
    BY DEF OfProject
  <2>8. /\ Sql(all, {"project"}).rows = all /\ Sql(all, {"project"}).paths = {"project"}
        /\ Sql(all, {"project"}).form = "sql"
    BY DEF Sql
  <2> HIDE DEF all, q
  <2>9. q \in Predicates(Readings) /\ (Holds(q, row) <=> b)
    BY <2>4, <2>5, <2>6, SqlType, SqlShape, ConstantType, ConstantShape
  <2>10. Tied(q, input["project"])
    BY <2>4, <2>7, <2>8, SqlShape DEF Tied
  <2>11. Decides(d, Readings, row, IF b THEN 2 ELSE 0)
    BY <2>1, <2>9, SolvedDecides, Zenon DEF q
  <2> QED
    BY <1>1, <1>7, <2>2, <2>10, <2>11, Zenon DEF q
<1>8. CASE left # right
  <2>1. d = Solved(PredicateAnd(Sql(rows, {"document.project"}), tie))
    BY <1>5, <1>8
  <2>2. rows \in SUBSET Readings /\ {"document.project"} \in SUBSET ColumnPaths
    BY DEF ColumnPaths
  <2>3. Side(left, row) = v[left] /\ Side(right, row) = v[right]
    BY <1>2, ReadingShape
  <2>4. row \in rows <=> b
    BY <1>1, <2>3, ReadingShape, Zenon
  <2> DEFINE q == PredicateAnd(Sql(rows, {"document.project"}), tie)
  <2> HIDE DEF rows
  <2>5. q \in Predicates(Readings) /\ (Holds(q, row) <=> b) /\ Tied(q, input["project"])
    BY <2>2, <2>4, AndWithTie
  <2>6. d.res = q
    BY <2>1, SolutionShape, Zenon
  <2> HIDE DEF q
  <2>7. Decides(d, Readings, row, IF b THEN 2 ELSE 0)
    BY <2>1, <2>5, SolvedDecides, Zenon DEF q
  <2>8. "projectOwner" \in {left, right}
    BY <1>8
  <2> QED
    BY <1>1, <2>5, <2>6, <2>7, <2>8, Zenon
<1> QED
  BY <1>6, <1>7, <1>8

LEMMA PrecheckOfPath ==
    ASSUME NEW v, NEW context, NEW input, MadeFrom(v, context, input),
           NEW op, NEW field \in {"owner", "projectOwner"}, field \notin DOMAIN input, NEW value
    PROVE  LET d == process_path_common_expr(context, input, op, field, value) IN
           /\ Decides(d, Readings, Reading(v, input),
                      IF Compare(op, v[field], value) THEN 2 ELSE 0)
           /\ Tied(d.res, input["project"])
           /\ field # "projectOwner" => d.res \in {True, False}
<1> DEFINE d == process_path_common_expr(context, input, op, field, value)
           row == Reading(v, input)
<1>1. PICK b \in BOOLEAN : b = Compare(op, v[field], value)
  BY CompareIsSymmetric, Zenon
<1>2. CASE field = "projectOwner"
  <2> DEFINE p == ProjectPredicate(input, op, value)
  <2>1. d = Solved(p)
    BY <1>2, Zenon DEF process_path_common_expr, ProjectPredicate
  <2>2. /\ p \in Predicates(Readings)
        /\ Holds(p, row) <=> Compare(op, v.projectOwner, value)
        /\ Tied(p, input["project"])
    BY ProjectCondition, Zenon
  <2> HIDE DEF p
  <2>3. Holds(p, row) <=> b
    BY <1>1, <1>2, <2>2, Zenon
  <2>4. Decides(d, Readings, row, IF b THEN 2 ELSE 0)
    BY <2>1, <2>2, <2>3, SolvedDecides, Zenon
  <2>5. d.res = p
    BY <2>1, SolutionShape, Zenon
  <2> QED
    BY <1>1, <1>2, <2>2, <2>4, <2>5, Zenon DEF Tied
<1>3. CASE field = "owner"
  <2>1. resolve_value(context, input, field) = v[field]
    BY <1>3 DEF MadeFrom
  <2>2. v[field] \notin {Missing, Failed}
    BY <1>3, ViewValues DEF MadeFrom
  <2>3. d = Solved(Bool(Compare(op, v[field], value)))
    BY <1>3, <2>1, <2>2 DEF process_path_common_expr
  <2>4. d = Solved(Bool(b))
    BY <1>1, <2>3, Zenon
  <2>5. Decides(d, Readings, row, IF b THEN 2 ELSE 0)
    BY <2>4, BoolShape, SolvedDecides, Zenon
  <2>6. d.res \in {True, False}
    BY <2>4, SolutionShape, Zenon DEF Bool
  <2> QED
    BY <1>1, <2>5, <2>6, Zenon DEF Tied
<1> QED
  BY <1>2, <1>3, Zenon

(* A comparison, in the precheck of such an input, is decided as in the      *)
(* document to be.                                                           *)

LEMMA PrecheckComparison ==
    ASSUME NEW who, NEW context, Caller(who), ContextOf(context, who),
           NEW v, NEW input, MadeFrom(v, context, input),
           NEW e \in Comparisons
    PROVE  LET d == precheck_relational_op(context, input, e) IN
           /\ Decides(d, Readings, Reading(v, input), SaysOfComparison(who, v, e))
           /\ Tied(d.res, input["project"])
           /\ FieldsOnly(e) => d.res \in {True, False, Error}
<1> DEFINE Reduced(prim) ==
               IF IsCommon(prim) THEN reduce_common_primitive_expression(context, prim)
               ELSE input[prim.name]
           Common == {prim \in {e.left, e.right} : IsCommon(prim) \/ prim.name \in DOMAIN input}
           Paths == {e.left, e.right} \ Common
           Said(prim) == IF IsCommon(prim) THEN reduce_common_primitive_expression(who, prim)
                         ELSE v[prim.name]
           d == precheck_relational_op(context, input, e)
           k == SaysOfComparison(who, v, e)
           row == Reading(v, input)
           pair == process_paths(context, input, e.op, e.left.name, e.right.name)
<1>1. d = IF \E prim \in Common : Reduced(prim) = Failed THEN Solved(Error)
          ELSE IF \E prim \in Common : Reduced(prim) = Missing THEN Unsolvable(False)
          ELSE CASE Paths = {} -> Solved(Bool(Compare(e.op, Reduced(e.left), Reduced(e.right))))
                 [] Paths # {} /\ e.right \in Common ->
                      process_path_common_expr(context, input, e.op, e.left.name, Reduced(e.right))
                 [] Paths # {} /\ e.left \in Common ->
                      process_path_common_expr(context, input, e.op, e.right.name, Reduced(e.left))
                 [] OTHER -> pair
  BY Zenon DEF precheck_relational_op
<1>2. k = IF {Said(e.left), Said(e.right)} \cap {Missing, Failed} # {} THEN 1
          ELSE Strength(Compare(e.op, Said(e.left), Said(e.right)))
  BY Zenon DEF SaysOfComparison
<1>3. ASSUME NEW prim \in {e.left, e.right}, ~IsCommon(prim)
      PROVE  /\ prim.name \in {"owner", "public", "projectOwner"}
             /\ Said(prim) = v[prim.name]
             /\ Said(prim) \notin {Missing, Failed}
  <2>1. prim.name \in {"owner", "public", "projectOwner"}
    BY <1>3, RulesAssumption DEF IsCommon
  <2> QED
    BY <1>3, <2>1, ViewValues DEF MadeFrom
<1>4. ASSUME NEW prim \in Common, Reduced(prim) # Failed
      PROVE  Reduced(prim) = Said(prim)
  <2>1. CASE IsCommon(prim)
    BY <1>4, <2>1, CommonValues
  <2>2. CASE ~IsCommon(prim)
    BY <1>3, <1>4, <2>2 DEF MadeFrom, resolve_value
  <2> QED
    BY <2>1, <2>2
<1>5. ASSUME NEW prim \in Paths
      PROVE  ~IsCommon(prim) /\ prim.name \in {"owner", "projectOwner"} \ DOMAIN input
  BY <1>3, <1>5 DEF MadeFrom
<1> HIDE DEF Reduced, Said, d, k, row, pair
<1>6. CASE \E prim \in Common : Reduced(prim) = Failed
  <2>1. d = Solved(Error) /\ d.res = Error
    BY <1>1, <1>6, SolutionShape, Zenon
  <2>2. k \in {0, 1, 2}
    BY <1>2 DEF Strength
  <2> QED
    BY <2>1, <2>2, Zenon DEF Decides, Tied, d, k
<1>7. CASE /\ ~\E prim \in Common : Reduced(prim) = Failed
           /\ \E prim \in Common : Reduced(prim) = Missing
  <2>1. d = Unsolvable(False)
    BY <1>1, <1>7, Zenon
  <2>2. d.res = False
    BY <2>1, SolutionShape, Zenon
  <2>3. k = 1
    BY <1>2, <1>4, <1>7
  <2> QED
    BY <2>1, <2>2, <2>3, Zenon DEF Decides, Tied, d, k
<1>8. CASE ~\E prim \in Common : Reduced(prim) \in {Missing, Failed}
  <2>1. \A prim \in Common : Reduced(prim) = Said(prim)
    BY <1>4, <1>8
  <2>2. \A prim \in {e.left, e.right} : Said(prim) \notin {Missing, Failed}
    BY <1>3, <1>8, <2>1
  <2>3. k = Strength(Compare(e.op, Said(e.left), Said(e.right)))
    BY <1>2, <2>2
  <2>4. PICK b \in BOOLEAN : b = Compare(e.op, Said(e.left), Said(e.right))
    BY CompareIsSymmetric, Zenon
  <2>5. k = IF b THEN 2 ELSE 0
    BY <2>3, <2>4, Zenon DEF Strength
  <2>6. d = CASE Paths = {} -> Solved(Bool(Compare(e.op, Reduced(e.left), Reduced(e.right))))
             [] Paths # {} /\ e.right \in Common ->
                  process_path_common_expr(context, input, e.op, e.left.name, Reduced(e.right))
             [] Paths # {} /\ e.left \in Common ->
                  process_path_common_expr(context, input, e.op, e.right.name, Reduced(e.left))
             [] OTHER -> pair
    BY <1>1, <1>8
  <2>7. CASE Paths = {}
    <3>1. d = Solved(Bool(b))
      BY <2>1, <2>4, <2>6, <2>7
    <3>2. Decides(d, Readings, row, IF b THEN 2 ELSE 0)
      BY <3>1, BoolShape, SolvedDecides, Zenon
    <3>3. d.res \in {True, False}
      BY <3>1, SolutionShape, Zenon DEF Bool
    <3> QED
      BY <2>5, <3>2, <3>3, Zenon DEF Tied, d, k, row
  <2>8. CASE e.left \in Paths /\ e.right \in Common
    <3>1. d = process_path_common_expr(context, input, e.op, e.left.name, Said(e.right))
      BY <2>1, <2>6, <2>8
    <3>2. Said(e.left) = v[e.left.name]
      BY <1>3, <1>5, <2>8
    <3>3. Compare(e.op, v[e.left.name], Said(e.right)) = b
      BY <2>4, <3>2, Zenon
    <3>4. /\ Decides(d, Readings, row,
                     IF Compare(e.op, v[e.left.name], Said(e.right)) THEN 2 ELSE 0)
          /\ Tied(d.res, input["project"])
          /\ FieldsOnly(e) => d.res \in {True, False}
      <4>1. e.left.name \in {"owner", "projectOwner"} /\ e.left.name \notin DOMAIN input
        BY <1>5, <2>8
      <4>2. FieldsOnly(e) => e.left.name # "projectOwner"
        BY <1>5, <2>8 DEF FieldsOnly
      <4> QED
        BY <3>1, <4>1, <4>2, PrecheckOfPath, Zenon DEF row
    <3> QED
      BY <2>5, <3>3, <3>4, Zenon DEF d, k, row
  <2>9. CASE e.right \in Paths /\ e.left \in Common
    <3>1. d = process_path_common_expr(context, input, e.op, e.right.name, Said(e.left))
      BY <2>1, <2>6, <2>9
    <3>2. Said(e.right) = v[e.right.name]
      BY <1>3, <1>5, <2>9
    <3>3. Compare(e.op, v[e.right.name], Said(e.left)) = b
      <4>1. Compare(e.op, Said(e.right), Said(e.left)) = Compare(e.op, Said(e.left), Said(e.right))
        BY CompareIsSymmetric, Zenon
      <4> QED
        BY <2>4, <3>2, <4>1, Zenon
    <3>4. /\ Decides(d, Readings, row,
                     IF Compare(e.op, v[e.right.name], Said(e.left)) THEN 2 ELSE 0)
          /\ Tied(d.res, input["project"])
          /\ FieldsOnly(e) => d.res \in {True, False}
      <4>1. e.right.name \in {"owner", "projectOwner"} /\ e.right.name \notin DOMAIN input
        BY <1>5, <2>9
      <4>2. FieldsOnly(e) => e.right.name # "projectOwner"
        BY <1>5, <2>9 DEF FieldsOnly
      <4> QED
        BY <3>1, <4>1, <4>2, PrecheckOfPath, Zenon DEF row
    <3> QED
      BY <2>5, <3>3, <3>4, Zenon DEF d, k, row
  <2>10. CASE e.left \in Paths /\ e.right \in Paths
    <3>1. d = pair
      BY <2>6, <2>10
    <3>2. /\ e.left.name \in {"owner", "projectOwner"} \ DOMAIN input
          /\ e.right.name \in {"owner", "projectOwner"} \ DOMAIN input
          /\ Said(e.left) = v[e.left.name] /\ Said(e.right) = v[e.right.name]
      BY <1>3, <1>5, <2>10
    <3>3. FieldsOnly(e) => "projectOwner" \notin {e.left.name, e.right.name}
      BY <1>5, <2>10 DEF FieldsOnly
    <3>4. e.op \in {"eq", "neq"}
      BY DEF Comparisons
    <3>5. /\ Decides(d, Readings, row,
                     IF Compare(e.op, v[e.left.name], v[e.right.name]) THEN 2 ELSE 0)
          /\ Tied(d.res, input["project"])
          /\ FieldsOnly(e) => d.res \in {True, False}
      BY <3>1, <3>2, <3>3, <3>4, PairOfPaths, Zenon DEF pair, row
    <3>6. Compare(e.op, v[e.left.name], v[e.right.name]) = b
      BY <2>4, <3>2, Zenon
    <3> QED
      BY <2>5, <3>5, <3>6, Zenon DEF d, k, row
  <2> QED
    BY <2>7, <2>8, <2>9, <2>10
<1> QED
  BY <1>6, <1>7, <1>8


LEMMA AndIsTied ==
    ASSUME NEW p \in Predicates(Readings), NEW q \in Predicates(Readings), NEW id,
           Tied(p, id), Tied(q, id)
    PROVE  Tied(PredicateAnd(p, q), id)
<1>1. CASE p \in {True, False} \/ q \in {True, False}
  BY <1>1 DEF PredicateAnd, Tied
<1>2. CASE p \notin {True, False} /\ q \notin {True, False}
  <2> DEFINE r == PredicateAnd(p, q)
  <2>1. r = Sql(p.rows \cap q.rows, p.paths \cup q.paths)
    BY <1>2, Zenon DEF PredicateAnd
  <2>2. r.rows = p.rows \cap q.rows /\ r.paths = p.paths \cup q.paths /\ r.form = "sql"
    BY <2>1 DEF Sql
  <2>3. \A x : Holds(r, x) <=> Holds(p, x) /\ Holds(q, x)
    BY AndHolds
  <2>4. p # Error /\ q # Error
    BY PredicateShape
  <2> HIDE DEF r
  <2>5. \A x : Holds(r, x) => x.project.id = id
    BY <1>2, <2>3, <2>4, Zenon DEF Tied
  <2>6. "project" \in r.paths
    BY <1>2, <2>2, <2>4 DEF Tied
  <2>7. "document.project" \notin r.paths => OfProject(r.rows)
    <3> SUFFICES ASSUME "document.project" \notin r.paths PROVE OfProject(r.rows)
      OBVIOUS
    <3>1. OfProject(p.rows) /\ OfProject(q.rows)
      BY <1>2, <2>2, <2>4 DEF Tied
    <3> QED
      BY <2>2, <3>1 DEF OfProject
  <2> QED
    BY <2>2, <2>5, <2>6, <2>7, Zenon DEF Tied, r
<1> QED
  BY <1>1, <1>2

LEMMA OrIsTied ==
    ASSUME NEW p \in Predicates(Readings), NEW q \in Predicates(Readings), NEW id,
           Tied(p, id), Tied(q, id)
    PROVE  Tied(PredicateOr(p, q), id)
<1>1. CASE p \in {True, False} \/ q \in {True, False}
  BY <1>1 DEF PredicateOr, Tied
<1>2. CASE p \notin {True, False} /\ q \notin {True, False}
  <2> DEFINE r == PredicateOr(p, q)
  <2>1. r = Sql(p.rows \cup q.rows, p.paths \cup q.paths)
    BY <1>2, Zenon DEF PredicateOr
  <2>2. r.rows = p.rows \cup q.rows /\ r.paths = p.paths \cup q.paths /\ r.form = "sql"
    BY <2>1 DEF Sql
  <2>3. \A x : Holds(r, x) <=> Holds(p, x) \/ Holds(q, x)
    BY OrHolds
  <2>4. p # Error /\ q # Error
    BY PredicateShape
  <2> HIDE DEF r
  <2>5. \A x : Holds(r, x) => x.project.id = id
    BY <1>2, <2>3, <2>4, Zenon DEF Tied
  <2>6. "project" \in r.paths
    BY <1>2, <2>2, <2>4 DEF Tied
  <2>7. "document.project" \notin r.paths => OfProject(r.rows)
    <3> SUFFICES ASSUME "document.project" \notin r.paths PROVE OfProject(r.rows)
      OBVIOUS
    <3>1. OfProject(p.rows) /\ OfProject(q.rows)
      BY <1>2, <2>2, <2>4 DEF Tied
    <3> QED
      BY <2>2, <3>1 DEF OfProject
  <2> QED
    BY <2>2, <2>5, <2>6, <2>7, Zenon DEF Tied, r
<1> QED
  BY <1>1, <1>2

LEMMA PrecheckIsSound ==
    ASSUME NegatesFieldsOnly,
           NEW who, NEW context, Caller(who), ContextOf(context, who),
           NEW v, NEW input, MadeFrom(v, context, input),
           NEW expr \in Rules
    PROVE  LET p == solve_precheck(context, input, expr) IN
           /\ Sound(p, Says(who, v)[expr], Readings, Reading(v, input))
           /\ Tied(p.res, input["project"])
<1> DEFINE rel == [e \in Comparisons |-> precheck_relational_op(context, input, e)]
           s == solve(rel, Readings)
           k == Says(who, v)
           row == Reading(v, input)
           id == input["project"]
           S == {e \in Rules : ~Tied(s[e].res, id)}
<1>1. \A e \in Comparisons :
        /\ Decides(rel[e], Readings, row, SaysOfComparison(who, v, e))
        /\ Tied(rel[e].res, id)
        /\ FieldsOnly(e) => rel[e].res \in {True, False, Error}
  BY PrecheckComparison
<1>2. row \in Readings
  BY ReadingShape
<1>3. NegatesSimpleOnly
  BY DEF NegatesFieldsOnly, NegatesSimpleOnly
<1>4. solve_precheck(context, input, expr) = s[expr]
  BY Zenon DEF solve_precheck
<1> HIDE DEF rel, k, row, id
<1>5. \A e \in Rules : Sound(s[e], k[e], Readings, row)
  BY <1>1, <1>2, <1>3, SolverIsSound DEF k
<1>6. \A x \in Rules : s[x] = SolveLogical(rel, Readings, s, x)
  BY SolveEquation, Zenon
<1> HIDE DEF s
<1>7. S = {}
  <2> SUFFICES ASSUME S # {} PROVE FALSE
    OBVIOUS
  <2>1. PICK e \in S : Operands(e) \cap S = {}
    BY RulesAssumption
  <2>2. \A x \in Operands(e) : x \in Rules /\ Tied(s[x].res, id)
    BY <2>1, RulesAssumption
  <2>3. ASSUME NEW x \in Rules, x.op \in {"literal", "eq", "neq"}
        PROVE  /\ Tied(s[x].res, id)
               /\ x.op = "literal" \/ FieldsOnly(x) => s[x].res \in {True, False, Error}
    <3>1. CASE x.op = "literal"
      <4>1. s[x] = Solved(Bool(x.value))
        BY <1>6, <3>1 DEF SolveLogical
      <4>2. s[x].res \in {True, False}
        BY <4>1, SolutionShape, Zenon DEF Bool
      <4> QED
        BY <4>2 DEF Tied
    <3>2. CASE x.op \in {"eq", "neq"}
      <4>1. s[x] = rel[x] /\ x \in Comparisons
        BY <1>6, <3>2 DEF SolveLogical, Comparisons
      <4> QED
        BY <1>1, <3>2, <4>1
    <3> QED
      BY <2>3, <3>1, <3>2
  <2>4. CASE e.op \in {"literal", "eq", "neq"}
    BY <2>3, <2>4
  <2>5. CASE e.op = "not"
    <3>1. s[e] = Then(s[e.arg], SolutionNot(Readings, s[e.arg]))
      BY <1>6, <2>5 DEF SolveLogical
    <3>2. e.arg \in Rules
      BY <2>2, <2>5 DEF Operands
    <3>3. s[e.arg].res \in {True, False, Error}
      BY <2>3, <2>5, <3>2 DEF NegatesFieldsOnly
    <3>4. SolutionNot(Readings, s[e.arg]).res \in
            {s[e.arg].res, PredicateNot(Readings, s[e.arg].res)}
      BY SolutionShape, Zenon DEF SolutionNot
    <3>5. s[e.arg].res # Error => PredicateNot(Readings, s[e.arg].res) \in {True, False}
      BY <3>3, ConstantShape DEF PredicateNot
    <3>6. s[e].res \in {True, False, Error}
      BY <3>1, <3>3, <3>4, <3>5 DEF Then
    <3> QED
      BY <3>6 DEF Tied
  <2>6. CASE e.op \in {"and", "or"}
    <3>1. /\ e.left \in Rules /\ Tied(s[e.left].res, id)
          /\ e.right \in Rules /\ Tied(s[e.right].res, id)
      BY <2>2, <2>6 DEF Operands
    <3>2. \/ s[e] = s[e.left]
          \/ s[e] = s[e.right]
          \/ /\ s[e.left].res # Error /\ s[e.right].res # Error
             /\ \/ s[e] = SolutionAnd(s[e.left], s[e.right])
                \/ s[e] = SolutionOr(s[e.left], s[e.right])
      <4>1. CASE e.op = "and"
        BY <1>6, <4>1 DEF SolveLogical, Then
      <4>2. CASE e.op = "or"
        BY <1>6, <4>2 DEF SolveLogical, Then
      <4> QED
        BY <2>6, <4>1, <4>2
    <3>3. CASE s[e] = s[e.left] \/ s[e] = s[e.right]
      BY <3>1, <3>3
    <3>4. CASE s[e.left].res # Error /\ s[e.right].res # Error
      <4>1. s[e.left].res \in Predicates(Readings) /\ s[e.right].res \in Predicates(Readings)
        BY <1>5, <3>1, <3>4 DEF Sound
      <4>2. SolutionAnd(s[e.left], s[e.right]).res = PredicateAnd(s[e.left].res, s[e.right].res)
        BY Zenon DEF SolutionAnd
      <4>3. SolutionOr(s[e.left], s[e.right]).res = PredicateOr(s[e.left].res, s[e.right].res)
        BY Zenon DEF SolutionOr
      <4> QED
        BY <3>1, <3>2, <4>1, <4>2, <4>3, AndIsTied, OrIsTied
    <3> QED
      BY <3>2, <3>3, <3>4
  <2> QED
    BY <2>4, <2>5, <2>6, RulesAssumption
<1> QED
  BY <1>4, <1>5, <1>7 DEF k, row, id


(* Unless the precheck of a create ends in the panic over several lead       *)
(* tables, it passes exactly if the rule grants the document that the input  *)
(* and its default make, in the project that the input names: it needs no    *)
(* query, or its query, which is one over the projects, selects one of them  *)
(* (precheck_solver.rs, compute_precheck_query).                             *)
THEOREM PrecheckSolverIsExact ==
    ASSUME NegatesFieldsOnly,
           NEW who, NEW context, Caller(who), ContextOf(context, who),
           NEW v, NEW input, MadeFrom(v, context, input),
           NEW expr \in Rules, NEW owners \in [Projects -> Users],
           v.projectOwner = owners[input["project"]],
           NEW p, p = solve_precheck(context, input, expr).res, p # Error,
           p = False \/ OneLead(p)
    PROVE  LET selected == {q \in Projects : SelectsProject(p, [id |-> q, owner |-> owners[q]])} IN
           /\ (p = True \/ Cardinality(selected) = 1) <=> Grants(who, v, expr)
           /\ p \in {True, False} \/ Leads(p) = {"projects"}
<1> DEFINE Row(q) == [id |-> q, owner |-> owners[q]]
           selected == {q \in Projects : SelectsProject(p, Row(q))}
           named == input["project"]
           row == Reading(v, input)
<1>1. named \in Projects /\ Row(named) = row.project /\ row \in Readings /\ row.document = v
  <2>1. row \in Readings
    BY ReadingShape
  <2>2. row.project = NamedProject(v, input) /\ row.document = v
    BY Zenon DEF Reading
  <2>3. named \in Projects /\ Row(named) = NamedProject(v, input)
    BY DEF MadeFrom, NamedProject
  <2> QED
    BY <2>1, <2>2, <2>3, Zenon
<1>2. /\ Holds(p, row) <=> Grants(who, v, expr)
      /\ p \in Predicates(Readings)
  <2>1. Sound(solve_precheck(context, input, expr), Says(who, v)[expr], Readings, row)
    BY PrecheckIsSound, Zenon
  <2> QED
    BY <2>1, Zenon DEF Sound, Grants
<1>3. Tied(p, named)
  BY PrecheckIsSound, Zenon
<1> HIDE DEF row
<1>4. CASE p = True
  BY <1>2, <1>4, ConstantShape
<1>5. CASE p = False
  <2>1. selected = {}
    BY <1>5, ConstantShape, Zenon DEF SelectsProject
  <2> HIDE DEF selected
  <2>2. Cardinality(selected) # 1 /\ p # True /\ ~Holds(p, row)
    BY <1>5, <2>1, ConstantShape, FS_EmptySet
  <2> QED
    BY <1>2, <1>5, <2>2, Zenon DEF selected
<1>6. CASE p \notin {True, False}
  <2>1. Leads(p) = {"projects"} /\ "document.project" \notin p.paths
    <3>1. "project" \in p.paths /\ p.paths \in SUBSET ColumnPaths
      BY <1>2, <1>3, <1>6, PredicateShape DEF Tied
    <3>2. "projects" \in Leads(p) /\ Leads(p) \subseteq {"projects", "documents"}
      BY <3>1 DEF Leads
    <3>3. IsFiniteSet({"projects", "documents"})
      <4>1. IsFiniteSet({"projects"}) /\ IsFiniteSet({"projects"} \cup {"documents"})
        BY FS_Singleton, FS_AddElement
      <4>2. {"projects"} \cup {"documents"} = {"projects", "documents"}
        OBVIOUS
      <4> QED
        BY <4>1, <4>2
    <3>4. IsFiniteSet(Leads(p)) /\ Cardinality(Leads(p)) = 1
      BY <1>6, <3>2, <3>3, FS_Subset DEF OneLead
    <3>5. PICK x : Leads(p) = {x}
      BY <3>4, FS_Singleton
    <3>6. Leads(p) = {"projects"}
      BY <3>2, <3>5
    <3>7. "document.project" \in p.paths => "documents" \in Leads(p)
      BY DEF Leads
    <3> QED
      BY <3>6, <3>7
  <2>2. OfProject(p.rows) /\ p.form = "sql" /\ \A r : Holds(p, r) => r.project.id = named
    BY <1>3, <1>6, <2>1 DEF Tied
  <2>3. p.rows \in SUBSET Readings
    BY <1>2, PredicateShape
  <2>4. ASSUME NEW q \in Projects, SelectsProject(p, Row(q))
        PROVE  q = named /\ Holds(p, row)
    <3>1. PICK w \in Views : Holds(p, [document |-> w, project |-> Row(q)])
      BY <2>4, Zenon DEF SelectsProject
    <3> DEFINE x == [document |-> w, project |-> Row(q)]
    <3>2. x.project = Row(q)
      BY Zenon
    <3>3. x.project.id = q
      BY <3>2
    <3> HIDE DEF x
    <3>4. q = named
      BY <2>2, <3>1, <3>3, Zenon DEF x
    <3>5. x \in p.rows
      BY <1>6, <3>1, Zenon DEF Holds, x
    <3>6. row \in p.rows
      BY <1>1, <2>2, <2>3, <3>2, <3>4, <3>5 DEF OfProject
    <3> QED
      BY <2>2, <3>4, <3>6, Zenon DEF Holds
  <2>5. CASE Holds(p, row)
    <3>1. row = [document |-> v, project |-> Row(named)]
      <4>1. row = [document |-> row.document, project |-> row.project]
        BY <1>1 DEF Readings
      <4> QED
        BY <1>1, <4>1, Zenon
    <3>2. SelectsProject(p, Row(named))
      BY <2>5, <3>1, Zenon DEF SelectsProject, MadeFrom
    <3>3. selected = {named}
      BY <1>1, <2>4, <3>2, Zenon
    <3> HIDE DEF selected
    <3>4. Cardinality(selected) = 1
      BY <3>3, FS_Singleton
    <3> QED
      BY <1>2, <2>1, <2>5, <3>4, Zenon DEF selected
  <2>6. CASE ~Holds(p, row)
    <3>1. selected = {}
      BY <2>4, <2>6, Zenon
    <3> HIDE DEF selected
    <3>2. Cardinality(selected) # 1
      BY <3>1, FS_EmptySet
    <3> QED
      BY <1>2, <1>6, <2>1, <2>6, <3>2, Zenon DEF selected
  <2> QED
    BY <2>5, <2>6
<1> QED
  BY <1>4, <1>5, <1>6


(***************************************************************************)
(* Refusals of the precheck solver, on any input.  A field without a value *)
(* is ignored, so its answer is no longer exact; but it says False only    *)
(* where no document that agrees with the input is granted.                *)
(***************************************************************************)
AgreesWith(v, context, input) ==
    /\ v \in Views
    /\ "projectOwner" \notin DOMAIN input
    /\ "public" \in DOMAIN input => v.public = input["public"]
    /\ v.owner = resolve_value(context, input, "owner")

(* What a comparison may come to, `exact' if a constant is its very value.   *)
Bounds(s, k, exact) ==
    /\ k \in {0, 1, 2}
    /\ \/ s = Solved(Error)
       \/ s = Unsolvable(True)
       \/ s = Unsolvable(False) /\ k = 1
       \/ /\ s = Solved(s.res) /\ s.res \in Predicates(Readings)
          /\ s.res = False => k = 0
          /\ exact /\ s.res = True => k = 2

LEMMA BoolBounds ==
    ASSUME NEW b \in BOOLEAN, NEW exact
    PROVE  Bounds(Solved(Bool(b)), IF b THEN 2 ELSE 0, exact)
<1>1. Solved(Bool(b)).res = Bool(b)
  BY SolutionShape, Zenon
<1>2. Bool(b) \in Predicates(Readings)
  BY BoolShape
<1>3. /\ Bool(b) = False => ~b
      /\ Bool(b) = True => b
  BY ConstantShape, Zenon DEF Bool
<1>4. /\ Bool(b) = False => (IF b THEN 2 ELSE 0) = 0
      /\ Bool(b) = True => (IF b THEN 2 ELSE 0) = 2
      /\ (IF b THEN 2 ELSE 0) \in {0, 1, 2}
  BY <1>3, Zenon
<1> QED
  BY <1>1, <1>2, <1>4, Zenon DEF Bounds

(* A condition on the projects is never the constant False.                  *)
LEMMA ProjectBounds ==
    ASSUME NEW input, NEW rows \in SUBSET Readings, NEW paths \in SUBSET ColumnPaths,
           NEW k \in {0, 1, 2}
    PROVE  /\ Bounds(Solved(PredicateAnd(Sql(rows, paths), compute_relational_predicate(input))),
                     k, FALSE)
           /\ compute_relational_predicate(input) \in Predicates(Readings)
           /\ compute_relational_predicate(input) # False
<1> DEFINE r == compute_relational_predicate(input)
           tied == {x \in Readings : x.project.id = input["project"]}
           p == PredicateAnd(Sql(rows, paths), r)
<1>1. r = True \/ r = Sql(tied, {"project"})
  BY DEF compute_relational_predicate
<1>2. {"project"} \in SUBSET ColumnPaths /\ tied \in SUBSET Readings
  BY DEF ColumnPaths
<1>3. r \in Predicates(Readings) /\ Sql(rows, paths) \in Predicates(Readings) /\ r # False
  <2>1. /\ Sql(rows, paths) \in Predicates(Readings)
        /\ Sql(tied, {"project"}) \in Predicates(Readings)
    BY <1>2, SqlType, Zenon
  <2>2. Sql(tied, {"project"}) # False
    BY SqlShape, Zenon
  <2> HIDE DEF r, tied
  <2> QED
    BY <1>1, <2>1, <2>2, ConstantType, ConstantShape, Zenon
<1>4. p \in Predicates(Readings)
  BY <1>3, AndHolds, Zenon
<1>5. p # False
  <2>1. p = Sql(rows, paths) \/ \E js : p = Sql(Sql(rows, paths).rows \cap r.rows, js)
    BY <1>3, SqlShape, Zenon DEF PredicateAnd
  <2>2. \A s, js : Sql(s, js) # False
    BY SqlShape, Zenon
  <2> HIDE DEF p
  <2> QED
    BY <2>1, <2>2
<1> HIDE DEF r, p
<1>6. Bounds(Solved(p), k, FALSE)
  <2>1. Solved(p).res = p
    BY SolutionShape, Zenon
  <2> QED
    BY <1>4, <1>5, <2>1, Zenon DEF Bounds
<1> QED
  BY <1>3, <1>6 DEF r, p

LEMMA PathBounds ==
    ASSUME NEW v, NEW context, NEW input, AgreesWith(v, context, input),
           NEW op, NEW field \in {"owner", "public", "projectOwner"} \ DOMAIN input, NEW value
    PROVE  Bounds(process_path_common_expr(context, input, op, field, value),
                  IF Compare(op, v[field], value) THEN 2 ELSE 0, field # "projectOwner")
<1> DEFINE d == process_path_common_expr(context, input, op, field, value)
<1>1. PICK b \in BOOLEAN : b = Compare(op, v[field], value)
  BY CompareIsSymmetric, Zenon
<1>2. (IF b THEN 2 ELSE 0) \in {0, 1, 2}
  BY Zenon
<1>3. CASE field = "projectOwner"
  <2> DEFINE rows == {r \in Readings : Compare(op, r.project.owner, value)}
  <2>1. d = Solved(PredicateAnd(Sql(rows, {"project"}), compute_relational_predicate(input)))
    BY <1>3, Zenon DEF process_path_common_expr
  <2>2. rows \in SUBSET Readings /\ {"project"} \in SUBSET ColumnPaths
    BY DEF ColumnPaths
  <2>3. Bounds(d, IF b THEN 2 ELSE 0, FALSE)
    BY <1>2, <2>1, <2>2, ProjectBounds, Zenon
  <2>4. (field # "projectOwner") = FALSE
    BY <1>3, Zenon
  <2> QED
    BY <1>1, <2>3, <2>4, Zenon
<1>4. CASE field = "public"
  <2>1. d = Unsolvable(True)
    BY <1>4 DEF process_path_common_expr, resolve_value, Missing, Failed
  <2> QED
    BY <1>1, <1>2, <2>1, Zenon DEF Bounds
<1>5. CASE field = "owner"
  <2>1. resolve_value(context, input, field) = v[field] /\ v[field] \notin {Missing, Failed}
    BY <1>5, ViewValues DEF AgreesWith
  <2>2. d = Solved(Bool(Compare(op, v[field], value)))
    BY <1>5, <2>1 DEF process_path_common_expr
  <2> QED
    BY <1>1, <2>2, BoolBounds, Zenon
<1> QED
  BY <1>3, <1>4, <1>5


LEMMA PairBounds ==
    ASSUME NEW v, NEW context, NEW input, AgreesWith(v, context, input),
           NEW op \in {"eq", "neq"},
           NEW left \in {"owner", "projectOwner"} \ DOMAIN input,
           NEW right \in {"owner", "projectOwner"} \ DOMAIN input,
           NEW exact, exact => left # "projectOwner" /\ right # "projectOwner"
    PROVE  Bounds(process_paths(context, input, op, left, right),
                  IF Compare(op, v[left], v[right]) THEN 2 ELSE 0, exact)
<1> DEFINE d == process_paths(context, input, op, left, right)
           found == {resolve_value(context, input, f) : f \in {left, right} \ {"projectOwner"}}
           Side(f, r) == IF f = "projectOwner" THEN r.document.projectOwner
                         ELSE resolve_value(context, input, f)
           rows == {r \in Readings : Compare(op, Side(left, r), Side(right, r))}
           tie == compute_relational_predicate(input)
<1>1. PICK b \in BOOLEAN : b = Compare(op, v[left], v[right])
  BY CompareIsSymmetric, Zenon
<1>2. resolve_value(context, input, "owner") = v.owner /\ v.owner \notin {Missing, Failed}
  BY ViewValues DEF AgreesWith
<1>3. Missing \notin found /\ Failed \notin found
  BY <1>2
<1>4. left = right => b = (op = "eq")
  BY <1>1, Zenon DEF Compare
<1>5. d = IF "projectOwner" \notin {left, right}
          THEN Solved(IF left = right THEN Bool(op = "eq") ELSE Sql(rows, {"document.project"}))
          ELSE Solved(PredicateAnd(
                 IF left = right THEN Bool(op = "eq") ELSE Sql(rows, {"document.project"}), tie))
  BY <1>3 DEF process_paths
<1>6. CASE left = right /\ left = "owner"
  <2>1. d = Solved(Bool(b))
    BY <1>4, <1>5, <1>6
  <2> QED
    BY <1>1, <2>1, BoolBounds, Zenon
<1>7. CASE left = right /\ left = "projectOwner"
  <2> DEFINE q == PredicateAnd(Bool(b), tie)
  <2>1. d = Solved(q)
    BY <1>4, <1>5, <1>7
  <2>2. tie \in Predicates(Readings) /\ tie # False
    BY ProjectBounds
  <2>3. Bool(b) \in Predicates(Readings)
    BY BoolShape
  <2>4. q \in Predicates(Readings)
    BY <2>2, <2>3, AndHolds, Zenon
  <2>5. q = False => ~b
    BY <2>2, ConstantShape DEF PredicateAnd, Bool
  <2> HIDE DEF q
  <2>6. Solved(q).res = q
    BY SolutionShape, Zenon
  <2>7. (IF b THEN 2 ELSE 0) \in {0, 1, 2} /\ (q = False => (IF b THEN 2 ELSE 0) = 0)
    BY <2>5, Zenon
  <2>8. ~exact
    BY <1>7, Zenon
  <2> QED
    BY <1>1, <2>1, <2>4, <2>6, <2>7, <2>8, Zenon DEF Bounds
<1>8. CASE left # right
  <2>1. d = Solved(PredicateAnd(Sql(rows, {"document.project"}), tie))
    BY <1>5, <1>8
  <2>2. rows \in SUBSET Readings /\ {"document.project"} \in SUBSET ColumnPaths
    BY DEF ColumnPaths
  <2>3. (IF b THEN 2 ELSE 0) \in {0, 1, 2}
    BY Zenon
  <2> HIDE DEF rows
  <2>4. Bounds(d, IF b THEN 2 ELSE 0, FALSE)
    BY <2>1, <2>2, <2>3, ProjectBounds, Zenon
  <2>5. ~exact
    BY <1>8, Zenon
  <2> QED
    BY <1>1, <2>4, <2>5, Zenon DEF Bounds
<1> QED
  BY <1>6, <1>7, <1>8

LEMMA PrecheckBounds ==
    ASSUME PairsWithoutPublic,
           NEW who, NEW context, Caller(who), ContextOf(context, who),
           NEW v, NEW input, AgreesWith(v, context, input),
           NEW e \in Comparisons
    PROVE  Bounds(precheck_relational_op(context, input, e), SaysOfComparison(who, v, e),
                  FieldsOnly(e))
<1> DEFINE Reduced(prim) ==
               IF IsCommon(prim) THEN reduce_common_primitive_expression(context, prim)
               ELSE input[prim.name]
           Common == {prim \in {e.left, e.right} : IsCommon(prim) \/ prim.name \in DOMAIN input}
           Paths == {e.left, e.right} \ Common
           Said(prim) == IF IsCommon(prim) THEN reduce_common_primitive_expression(who, prim)
                         ELSE v[prim.name]
           d == precheck_relational_op(context, input, e)
           k == SaysOfComparison(who, v, e)
           exact == FieldsOnly(e)
           pair == process_paths(context, input, e.op, e.left.name, e.right.name)
<1>1. d = IF \E prim \in Common : Reduced(prim) = Failed THEN Solved(Error)
          ELSE IF \E prim \in Common : Reduced(prim) = Missing THEN Unsolvable(False)
          ELSE CASE Paths = {} -> Solved(Bool(Compare(e.op, Reduced(e.left), Reduced(e.right))))
                 [] Paths # {} /\ e.right \in Common ->
                      process_path_common_expr(context, input, e.op, e.left.name, Reduced(e.right))
                 [] Paths # {} /\ e.left \in Common ->
                      process_path_common_expr(context, input, e.op, e.right.name, Reduced(e.left))
                 [] OTHER -> pair
  BY Zenon DEF precheck_relational_op
<1>2. k = IF {Said(e.left), Said(e.right)} \cap {Missing, Failed} # {} THEN 1
          ELSE Strength(Compare(e.op, Said(e.left), Said(e.right)))
  BY Zenon DEF SaysOfComparison
<1>3. ASSUME NEW prim \in {e.left, e.right}, ~IsCommon(prim)
      PROVE  /\ prim.name \in {"owner", "public", "projectOwner"}
             /\ Said(prim) = v[prim.name]
             /\ Said(prim) \notin {Missing, Failed}
  <2>1. prim.name \in {"owner", "public", "projectOwner"}
    BY <1>3, RulesAssumption DEF IsCommon
  <2> QED
    BY <1>3, <2>1, ViewValues DEF AgreesWith
<1>4. ASSUME NEW prim \in Common, Reduced(prim) # Failed
      PROVE  Reduced(prim) = Said(prim)
  <2>1. CASE IsCommon(prim)
    BY <1>4, <2>1, CommonValues
  <2>2. CASE ~IsCommon(prim)
    BY <1>3, <1>4, <2>2 DEF AgreesWith, resolve_value
  <2> QED
    BY <2>1, <2>2
<1>5. ASSUME NEW prim \in Paths
      PROVE  ~IsCommon(prim) /\ prim.name \in {"owner", "public", "projectOwner"} \ DOMAIN input
  BY <1>3, <1>5
<1>6. k \in {0, 1, 2}
  BY <1>2 DEF Strength
<1> HIDE DEF Reduced, Said, d, k, exact, pair
<1>7. CASE \E prim \in Common : Reduced(prim) = Failed
  BY <1>1, <1>6, <1>7, Zenon DEF Bounds, d, k
<1>8. CASE /\ ~\E prim \in Common : Reduced(prim) = Failed
           /\ \E prim \in Common : Reduced(prim) = Missing
  <2>1. d = Unsolvable(False)
    BY <1>1, <1>8, Zenon
  <2>2. k = 1
    BY <1>2, <1>4, <1>8
  <2> QED
    BY <1>6, <2>1, <2>2, Zenon DEF Bounds, d, k
<1>9. CASE ~\E prim \in Common : Reduced(prim) \in {Missing, Failed}
  <2>1. \A prim \in Common : Reduced(prim) = Said(prim)
    BY <1>4, <1>9
  <2>2. \A prim \in {e.left, e.right} : Said(prim) \notin {Missing, Failed}
    BY <1>3, <1>9, <2>1
  <2>3. k = Strength(Compare(e.op, Said(e.left), Said(e.right)))
    BY <1>2, <2>2
  <2>4. PICK b \in BOOLEAN : b = Compare(e.op, Said(e.left), Said(e.right))
    BY CompareIsSymmetric, Zenon
  <2>5. k = IF b THEN 2 ELSE 0
    BY <2>3, <2>4, Zenon DEF Strength
  <2>6. d = CASE Paths = {} -> Solved(Bool(Compare(e.op, Reduced(e.left), Reduced(e.right))))
             [] Paths # {} /\ e.right \in Common ->
                  process_path_common_expr(context, input, e.op, e.left.name, Reduced(e.right))
             [] Paths # {} /\ e.left \in Common ->
                  process_path_common_expr(context, input, e.op, e.right.name, Reduced(e.left))
             [] OTHER -> pair
    BY <1>1, <1>9
  <2>7. CASE Paths = {}
    <3>1. d = Solved(Bool(b))
      BY <2>1, <2>4, <2>6, <2>7
    <3> QED
      BY <2>5, <3>1, BoolBounds, Zenon DEF d, k
  <2>8. CASE e.left \in Paths /\ e.right \in Common
    <3>1. d = process_path_common_expr(context, input, e.op, e.left.name, Said(e.right))
      BY <2>1, <2>6, <2>8
    <3>2. Compare(e.op, v[e.left.name], Said(e.right)) = b
      BY <1>3, <1>5, <2>4, <2>8
    <3>3. FieldsOnly(e) => e.left.name # "projectOwner"
      BY <1>5, <2>8 DEF FieldsOnly
    <3>4. Bounds(d, IF b THEN 2 ELSE 0, e.left.name # "projectOwner")
      BY <1>5, <2>8, <3>1, <3>2, PathBounds, Zenon
    <3> QED
      BY <2>5, <3>3, <3>4, Zenon DEF Bounds, d, k
  <2>9. CASE e.right \in Paths /\ e.left \in Common
    <3>1. d = process_path_common_expr(context, input, e.op, e.right.name, Said(e.left))
      BY <2>1, <2>6, <2>9
    <3>2. Compare(e.op, v[e.right.name], Said(e.left)) = b
      <4>1. Compare(e.op, Said(e.right), Said(e.left)) = Compare(e.op, Said(e.left), Said(e.right))
        BY CompareIsSymmetric, Zenon
      <4> QED
        BY <1>3, <1>5, <2>4, <2>9, <4>1
    <3>3. FieldsOnly(e) => e.right.name # "projectOwner"
      BY <1>5, <2>9 DEF FieldsOnly
    <3>4. Bounds(d, IF b THEN 2 ELSE 0, e.right.name # "projectOwner")
      BY <1>5, <2>9, <3>1, <3>2, PathBounds, Zenon
    <3> QED
      BY <2>5, <3>3, <3>4, Zenon DEF Bounds, d, k
  <2>10. CASE e.left \in Paths /\ e.right \in Paths
    <3>1. d = pair
      BY <2>6, <2>10
    <3>2. /\ e.left.name \in {"owner", "projectOwner"} \ DOMAIN input
          /\ e.right.name \in {"owner", "projectOwner"} \ DOMAIN input
          /\ Said(e.left) = v[e.left.name] /\ Said(e.right) = v[e.right.name]
      BY <1>3, <1>5, <2>10 DEF PairsWithoutPublic
    <3>3. FieldsOnly(e) => e.left.name # "projectOwner" /\ e.right.name # "projectOwner"
      BY <1>5, <2>10 DEF FieldsOnly
    <3>4. Compare(e.op, v[e.left.name], v[e.right.name]) = b /\ e.op \in {"eq", "neq"}
      BY <2>4, <3>2 DEF Comparisons
    <3>5. Bounds(pair, IF Compare(e.op, v[e.left.name], v[e.right.name]) THEN 2 ELSE 0,
                 FieldsOnly(e))
      BY <3>2, <3>3, <3>4, PairBounds, Zenon DEF pair
    <3> QED
      BY <2>5, <3>1, <3>4, <3>5, Zenon DEF d, k
  <2> QED
    BY <2>7, <2>8, <2>9, <2>10
<1> QED
  BY <1>7, <1>8, <1>9


NotGranted(s, k) ==
    /\ k \in 0 .. 2
    /\ s.res = Error \/ s.res \in Predicates(Readings)
    /\ s.res = False => k # 2

LEMMA BoundsShape ==
    ASSUME NEW s, NEW k, NEW exact, Bounds(s, k, exact)
    PROVE  /\ NotGranted(s, k)
           /\ exact => \/ s.res = Error
                       \/ s.solved = FALSE /\ (s.res = True \/ (s.res = False /\ k = 1))
                       \/ /\ s.solved = TRUE /\ s.res \in Predicates(Readings)
                          /\ s.res = True => k = 2
<1>1. CASE s = Solved(Error)
  <2>1. s.res = Error
    BY <1>1, SolutionShape, Zenon
  <2> QED
    BY <2>1, ConstantShape DEF Bounds, NotGranted
<1>2. CASE s = Unsolvable(True)
  <2>1. s.res = True /\ s.solved = FALSE
    BY <1>2, SolutionShape, Zenon
  <2> QED
    BY <2>1, ConstantShape, ConstantType DEF Bounds, NotGranted
<1>3. CASE s = Unsolvable(False) /\ k = 1
  <2>1. s.res = False /\ s.solved = FALSE
    BY <1>3, SolutionShape, Zenon
  <2> QED
    BY <1>3, <2>1, ConstantShape, ConstantType DEF NotGranted
<1>4. CASE /\ s = Solved(s.res) /\ s.res \in Predicates(Readings)
           /\ s.res = False => k = 0
           /\ exact /\ s.res = True => k = 2
  <2>1. s.solved = TRUE
    BY <1>4, SolutionShape, Zenon
  <2>2. NotGranted(s, k)
    BY <1>4 DEF Bounds, NotGranted
  <2> QED
    BY <1>4, <2>1, <2>2, Zenon
<1> QED
  BY <1>1, <1>2, <1>3, <1>4 DEF Bounds

LEMMA NotBounds ==
    ASSUME NEW s, NEW k, Bounds(s, k, TRUE)
    PROVE  NotGranted(Then(s, SolutionNot(Readings, s)), 2 - k)
<1>1. 2 - k \in 0 .. 2
  BY DEF Bounds
<1>2. CASE s.res = Error
  BY <1>1, <1>2, ConstantShape DEF NotGranted, Then
<1>3. CASE s.res # Error /\ s.solved = FALSE /\ (s.res = True \/ (s.res = False /\ k = 1))
  <2>1. Then(s, SolutionNot(Readings, s)) = s
    BY <1>3, Zenon DEF Then, SolutionNot
  <2>2. s.res = False => 2 - k # 2
    BY <1>3, ConstantShape
  <2> QED
    BY <1>1, <1>3, <2>1, <2>2, ConstantType DEF NotGranted
<1>4. CASE /\ s.res # Error /\ s.solved = TRUE /\ s.res \in Predicates(Readings)
           /\ s.res = True => k = 2
  <2> DEFINE t == Then(s, SolutionNot(Readings, s))
  <2>1. t = SolutionNot(Readings, s)
    BY <1>4, Zenon DEF Then
  <2>2. t.res = PredicateNot(Readings, s.res)
    BY <1>4, <2>1, SolutionShape, Zenon DEF SolutionNot
  <2>3. t.res \in Predicates(Readings)
    BY <1>4, <2>2, NotHolds, Zenon
  <2>4. t.res = False => s.res = True
    BY <1>4, <2>2, ConstantShape, SqlShape DEF PredicateNot
  <2> HIDE DEF t
  <2>5. NotGranted(t, 2 - k)
    BY <1>1, <1>4, <2>3, <2>4 DEF NotGranted
  <2> QED
    BY <2>5 DEF t
<1> QED
  <2>1. \/ s.res = Error
        \/ s.solved = FALSE /\ (s.res = True \/ (s.res = False /\ k = 1))
        \/ s.solved = TRUE /\ s.res \in Predicates(Readings) /\ (s.res = True => k = 2)
    BY BoundsShape
  <2> QED
    BY <1>2, <1>3, <1>4, <2>1

LEMMA AndRefuses ==
    ASSUME NEW s, NEW t, NEW j, NEW k, NotGranted(s, j), NotGranted(t, k)
    PROVE  NotGranted(IF s = Solved(False) THEN s ELSE Then(s, Then(t, SolutionAnd(s, t))),
                      IF j < k THEN j ELSE k)
<1> DEFINE least == IF j < k THEN j ELSE k
           both == Then(s, Then(t, SolutionAnd(s, t)))
<1>1. least \in 0 .. 2 /\ (j # 2 \/ k # 2 => least # 2)
  BY DEF NotGranted
<1>2. CASE s = Solved(False)
  <2>1. s.res = False
    BY <1>2, SolutionShape, Zenon
  <2>2. NotGranted(s, least)
    BY <1>1, <2>1, ConstantType DEF NotGranted
  <2> QED
    BY <1>2, <2>2
<1>3. NotGranted(both, least)
  <2>1. CASE s.res = Error
    <3>1. both = s
      BY <2>1, Zenon DEF Then
    <3> HIDE DEF least
    <3>2. NotGranted(s, least)
      BY <1>1, <2>1, ConstantShape DEF NotGranted
    <3> QED
      BY <3>1, <3>2, Zenon
  <2>2. CASE s.res # Error /\ t.res = Error
    <3>1. both = t
      BY <2>2, Zenon DEF Then
    <3> HIDE DEF least
    <3>2. NotGranted(t, least)
      BY <1>1, <2>2, ConstantShape DEF NotGranted
    <3> QED
      BY <3>1, <3>2, Zenon
  <2>3. CASE s.res # Error /\ t.res # Error
    <3>1. both = SolutionAnd(s, t)
      BY <2>3, Zenon DEF Then
    <3>2. both.res = PredicateAnd(s.res, t.res)
      <4>1. SolutionAnd(s, t).res = PredicateAnd(s.res, t.res)
        BY Zenon DEF SolutionAnd
      <4> HIDE DEF both
      <4> QED
        BY <3>1, <4>1
    <3>3. s.res \in Predicates(Readings) /\ t.res \in Predicates(Readings)
      BY <2>3 DEF NotGranted
    <3>4. PredicateAnd(s.res, t.res) \in Predicates(Readings)
      BY <3>3, AndHolds, Zenon
    <3>5. PredicateAnd(s.res, t.res) = False => s.res = False \/ t.res = False
      BY SqlShape DEF PredicateAnd
    <3> HIDE DEF least, both
    <3> QED
      BY <1>1, <3>2, <3>4, <3>5 DEF NotGranted
  <2> QED
    BY <2>1, <2>2, <2>3
<1> HIDE DEF least, both
<1>4. CASE s # Solved(False)
  <2>1. (IF s = Solved(False) THEN s ELSE both) = both
    BY <1>4, Zenon
  <2> QED
    BY <1>3, <2>1, Zenon DEF least, both
<1> QED
  BY <1>2, <1>4

LEMMA OrRefuses ==
    ASSUME NEW s, NEW t, NEW j, NEW k, NotGranted(s, j), NotGranted(t, k)
    PROVE  NotGranted(IF s = Solved(True) THEN s ELSE Then(s, Then(t, SolutionOr(s, t))),
                      IF j > k THEN j ELSE k)
<1> DEFINE most == IF j > k THEN j ELSE k
           either == Then(s, Then(t, SolutionOr(s, t)))
<1>1. most \in 0 .. 2 /\ (j # 2 /\ k # 2 => most # 2)
  BY DEF NotGranted
<1>2. CASE s = Solved(True)
  <2>1. s.res = True
    BY <1>2, SolutionShape, Zenon
  <2>2. NotGranted(s, most)
    BY <1>1, <2>1, ConstantType, ConstantShape DEF NotGranted
  <2> QED
    BY <1>2, <2>2
<1>3. NotGranted(either, most)
  <2>1. CASE s.res = Error
    <3>1. either = s
      BY <2>1, Zenon DEF Then
    <3> HIDE DEF most
    <3>2. NotGranted(s, most)
      BY <1>1, <2>1, ConstantShape DEF NotGranted
    <3> QED
      BY <3>1, <3>2, Zenon
  <2>2. CASE s.res # Error /\ t.res = Error
    <3>1. either = t
      BY <2>2, Zenon DEF Then
    <3> HIDE DEF most
    <3>2. NotGranted(t, most)
      BY <1>1, <2>2, ConstantShape DEF NotGranted
    <3> QED
      BY <3>1, <3>2, Zenon
  <2>3. CASE s.res # Error /\ t.res # Error
    <3>1. either = SolutionOr(s, t)
      BY <2>3, Zenon DEF Then
    <3>2. either.res = PredicateOr(s.res, t.res)
      <4>1. SolutionOr(s, t).res = PredicateOr(s.res, t.res)
        BY Zenon DEF SolutionOr
      <4> HIDE DEF either
      <4> QED
        BY <3>1, <4>1
    <3>3. s.res \in Predicates(Readings) /\ t.res \in Predicates(Readings)
      BY <2>3 DEF NotGranted
    <3>4. PredicateOr(s.res, t.res) \in Predicates(Readings)
      BY <3>3, OrHolds, Zenon
    <3>5. PredicateOr(s.res, t.res) = False => s.res = False /\ t.res = False
      BY SqlShape, ConstantShape DEF PredicateOr
    <3> HIDE DEF most, either
    <3> QED
      BY <1>1, <3>2, <3>4, <3>5 DEF NotGranted
  <2> QED
    BY <2>1, <2>2, <2>3
<1> HIDE DEF most, either
<1>4. CASE s # Solved(True)
  <2>1. (IF s = Solved(True) THEN s ELSE either) = either
    BY <1>4, Zenon
  <2> QED
    BY <1>3, <2>1, Zenon DEF most, either
<1> QED
  BY <1>2, <1>4


(* "Not authorized" is said of a create, without asking the database, only   *)
(* if the rule grants no document that agrees with the input and its         *)
(* default, even if a required field has no value (ignore_missing_value).    *)
THEOREM PrecheckRefusesOnlyUngranted ==
    ASSUME NegatesFieldsOnly, PairsWithoutPublic,
           NEW who, NEW context, Caller(who), ContextOf(context, who),
           NEW v, NEW input, AgreesWith(v, context, input),
           NEW expr \in Rules,
           solve_precheck(context, input, expr).res = False
    PROVE  ~Grants(who, v, expr)
<1> DEFINE rel == [e \in Comparisons |-> precheck_relational_op(context, input, e)]
           s == solve(rel, Readings)
           k == Says(who, v)
           S == {e \in Rules : ~NotGranted(s[e], k[e])}
<1>1. \A e \in Comparisons : Bounds(rel[e], SaysOfComparison(who, v, e), FieldsOnly(e))
  BY PrecheckBounds
<1>2. solve_precheck(context, input, expr) = s[expr]
  BY Zenon DEF solve_precheck
<1> HIDE DEF rel
<1>3. \A x \in Rules : s[x] = SolveLogical(rel, Readings, s, x)
  BY SolveEquation, Zenon
<1>4. \A x \in Rules : k[x] = SaysLogical(who, v, k, x)
  BY SaysEquation, Zenon
<1> HIDE DEF s, k
<1>5. ASSUME NEW x \in Rules, x.op \in {"literal", "eq", "neq"}
      PROVE  /\ NotGranted(s[x], k[x])
             /\ x.op = "literal" \/ FieldsOnly(x) => Bounds(s[x], k[x], TRUE)
  <2>1. CASE x.op = "literal"
    <3>1. s[x] = Solved(Bool(x.value)) /\ k[x] = (IF x.value THEN 2 ELSE 0)
      BY <1>3, <1>4, <2>1 DEF SolveLogical, SaysLogical, Strength
    <3>2. x.value \in BOOLEAN
      BY <2>1, RulesAssumption
    <3>3. Bounds(s[x], k[x], TRUE)
      BY <3>1, <3>2, BoolBounds, Zenon
    <3> QED
      BY <3>3, BoundsShape, Zenon
  <2>2. CASE x.op \in {"eq", "neq"}
    <3>1. s[x] = rel[x] /\ k[x] = SaysOfComparison(who, v, x) /\ x \in Comparisons
      BY <1>3, <1>4, <2>2 DEF SolveLogical, SaysLogical, Comparisons
    <3>2. Bounds(s[x], k[x], FieldsOnly(x))
      BY <1>1, <3>1, Zenon
    <3>3. x.op # "literal"
      BY <2>2
    <3>4. FieldsOnly(x) => Bounds(s[x], k[x], TRUE)
      <4> SUFFICES ASSUME FieldsOnly(x) PROVE Bounds(s[x], k[x], TRUE)
        OBVIOUS
      <4>1. FieldsOnly(x) = TRUE
        BY Zenon DEF FieldsOnly
      <4> QED
        BY <3>2, <4>1, Zenon
    <3> QED
      BY <3>2, <3>3, <3>4, BoundsShape, Zenon
  <2> QED
    BY <1>5, <2>1, <2>2
<1>6. S = {}
  <2> SUFFICES ASSUME S # {} PROVE FALSE
    OBVIOUS
  <2>1. PICK e \in S : Operands(e) \cap S = {}
    BY RulesAssumption
  <2>2. \A x \in Operands(e) : x \in Rules /\ NotGranted(s[x], k[x])
    BY <2>1, RulesAssumption
  <2>3. CASE e.op \in {"literal", "eq", "neq"}
    BY <1>5, <2>3
  <2>4. CASE e.op = "not"
    <3>1. s[e] = Then(s[e.arg], SolutionNot(Readings, s[e.arg])) /\ k[e] = 2 - k[e.arg]
      BY <1>3, <1>4, <2>4 DEF SolveLogical, SaysLogical
    <3>2. e.arg \in Rules
      BY <2>2, <2>4 DEF Operands
    <3>3. Bounds(s[e.arg], k[e.arg], TRUE)
      BY <1>5, <2>4, <3>2 DEF NegatesFieldsOnly
    <3> QED
      BY <3>1, <3>3, NotBounds
  <2>5. CASE e.op = "and"
    <3> DEFINE both == IF s[e.left] = Solved(False) THEN s[e.left]
                       ELSE Then(s[e.left], Then(s[e.right], SolutionAnd(s[e.left], s[e.right])))
               says == IF k[e.left] < k[e.right] THEN k[e.left] ELSE k[e.right]
    <3>1. s[e] = both /\ k[e] = says
      BY <1>3, <1>4, <2>5 DEF SolveLogical, SaysLogical
    <3>2. NotGranted(s[e.left], k[e.left]) /\ NotGranted(s[e.right], k[e.right])
      BY <2>2, <2>5 DEF Operands
    <3>3. NotGranted(both, says)
      BY <3>2, AndRefuses, Zenon
    <3> HIDE DEF both, says
    <3> QED
      BY <3>1, <3>3
  <2>6. CASE e.op = "or"
    <3> DEFINE either == IF s[e.left] = Solved(True) THEN s[e.left]
                         ELSE Then(s[e.left], Then(s[e.right], SolutionOr(s[e.left], s[e.right])))
               says == IF k[e.left] > k[e.right] THEN k[e.left] ELSE k[e.right]
    <3>1. s[e] = either /\ k[e] = says
      BY <1>3, <1>4, <2>6 DEF SolveLogical, SaysLogical
    <3>2. NotGranted(s[e.left], k[e.left]) /\ NotGranted(s[e.right], k[e.right])
      BY <2>2, <2>6 DEF Operands
    <3>3. NotGranted(either, says)
      BY <3>2, OrRefuses, Zenon
    <3> HIDE DEF either, says
    <3> QED
      BY <3>1, <3>3
  <2> QED
    BY <2>3, <2>4, <2>5, <2>6, RulesAssumption
<1>7. NotGranted(s[expr], k[expr])
  BY <1>6
<1> QED
  BY <1>2, <1>7 DEF NotGranted, Grants, k
=============================================================================
