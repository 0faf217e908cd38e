------------------------ MODULE NestedMutationProofs ------------------------
(* Proofs about NestedMutation, for any number of requests, any data and any *)
(* access rules: references stay intact whatever other requests commit       *)
(* between two statements, nested updates and deletes reach only what hangs  *)
(* from a matched venue, and, when keys have one column, the answer is about *)
(* the venues that were matched.                                             *)
EXTENDS NestedMutation, SequenceTheorems, FiniteSetTheorems, WellFoundedInduction, TLAPS

-----------------------------------------------------------------------------
(* The inductive invariant                                                   *)

Domains ==
    /\ DOMAIN at = Clients /\ DOMAIN mutation = Clients /\ DOMAIN script = Clients
    /\ DOMAIN results = Clients /\ DOMAIN pending = Clients /\ DOMAIN work = Clients
    /\ DOMAIN matched = Clients /\ DOMAIN admitted = Clients

Ops == {"precheck", "rootSelect", "update", "delete", "nestedUpdate", "nestedDelete", "filter",
        "insert", "selectFirst", "selectAll"}

(* The root statement comes after the prechecks.                             *)
Root(m) == m.prechecks + 1
Mutates(m) == m.kind \in {"update", "delete"}
Nests(m) == m.kind = "update" /\ m.nested

(* A nested statement is one that the data argument asks for.                *)
Asked(m, id, rule) ==
    \E n \in Range(m.updates) \cup Range(m.deletes) : n.id = id /\ n.rule = rule

(* Every key in the tables has one column, and so has every key that a       *)
(* client chooses (<<>> stands for a serial key).                            *)
OneColumn(k) == k = <<k[1], <<k[2][1]>>>>
SimpleKey(pk) == pk = <<>> \/ pk = <<pk[1]>>

OneColumnKeys ==
    /\ \A d \in Databases : \A k \in DOMAIN d : OneColumn(k)
    /\ \A r \in Requests :
         /\ r.kind = "create" => \A i \in DOMAIN r.rows : SimpleKey(r.rows[i].pk)
         /\ r.kind = "update" /\ r.concerts # <<>> =>
              \A i \in DOMAIN r.concerts[1].create :
                \A j \in DOMAIN r.concerts[1].create[i].rows :
                  SimpleKey(r.concerts[1].create[i].rows[j].pk)

Simple(pk) == OneColumnKeys => SimpleKey(pk)

(* What can stand at position i of the script of m.  References to other     *)
(* steps are to earlier ones, those of nested statements to the root.        *)
Fits(m, step, i) ==
    /\ step.op \in Ops
    /\ Mutates(m) /\ i = Root(m) => step.op \in {"rootSelect", "update", "delete"}
    /\ step.op \in {"nestedUpdate", "nestedDelete", "filter"} =>
         Mutates(m) /\ step.prev = Root(m) /\ Root(m) < i
    /\ step.op \in {"nestedUpdate", "nestedDelete"} => Asked(m, step.id, step.rule)
    /\ step.op \in {"rootSelect", "update", "delete"} =>
         /\ Mutates(m) /\ i = Root(m) /\ (m.kind = "delete" <=> step.op = "delete")
         /\ IF Nests(m) THEN step.read = <<>>
            ELSE step.read = <<m.read>> /\ step.op \in {"update", "delete"}
         /\ step.op = "update" => step.set # Gone.val
    /\ step.op = "insert" =>
         /\ step.prev \in 0 .. i - 1 /\ Simple(step.pk)
         /\ step.table = "venues" => ~Mutates(m) /\ step.prev = 0
    /\ step.op = "selectFirst" => step.of \subseteq 1 .. i - 1
    /\ step.op = "selectAll" => step.of \in 1 .. i - 1

Steps(m, s, base) ==
    /\ IsSequence(s)
    /\ \A i \in 1 .. Len(s) : Fits(m, s[i], base + i)

Scripted(c) ==
    /\ Steps(mutation[c], script[c], 0)
    /\ Mutates(mutation[c]) => mutation[c].prechecks \in Nat

(* The root step returned matched venues.                                    *)
Resulted(c) ==
    /\ IsSequence(results[c]) /\ Len(results[c]) <= Len(script[c])
    /\ \A i \in 1 .. Len(results[c]) : IsSequence(results[c][i])
    /\ Mutates(mutation[c]) /\ Root(mutation[c]) <= Len(results[c]) =>
         \A k \in Range(results[c][Root(mutation[c])]) : <<"venues", k>> \in matched[c]

(* What a statement of the step at i can be.                                 *)
Comes(m, s, i, venues) ==
    /\ Mutates(m) /\ i = Root(m) => s.do \in {"rootSelect", "update", "delete"}
    /\ s.do \in {"nestedUpdate", "nestedDelete"} =>
         /\ s.up \in venues
         /\ s.key[1] = "concerts" /\ Asked(m, s.key[2], s.rule)
    /\ s.do \in {"rootSelect", "update", "delete"} => Mutates(m) /\ i = Root(m)
    /\ s.do = "insert" =>
         /\ IsSequence(s.ups) /\ Simple(s.pk)
         /\ s.table = "venues" => ~Mutates(m) /\ Len(s.ups) = 1

(* Only nested updates and deletes are more than one statement.              *)
CurrentStep(c) == script[c][Len(results[c]) + 1]
Pending(c) ==
    \/ pending[c] = resolve(CurrentStep(c), results[c])
    \/ /\ CurrentStep(c).op \in {"nestedUpdate", "nestedDelete"}
       /\ \A j \in 1 .. Len(pending[c]) : pending[c][j].do = CurrentStep(c).op

Running(c) ==
    /\ at[c] \in {"idle", "next", "run", "failed", "panicked", "done"}
    /\ at[c] = "idle" => results[c] = <<>>
    /\ at[c] = "run" =>
         /\ IsSequence(pending[c]) /\ pending[c] # <<>>
         /\ Len(results[c]) < Len(script[c]) /\ Pending(c)
         /\ \A j \in 1 .. Len(pending[c]) :
              Comes(mutation[c], pending[c][j], Len(results[c]) + 1, matched[c])
    /\ admitted[c] \subseteq matched[c]

ScriptInv == Domains /\ \A c \in Clients : Scripted(c) /\ Resulted(c) /\ Running(c)

(* Each transaction sees intact tables; no row is written by two, and none   *)
(* refers to a row that another has deleted.                                 *)
Apart ==
    \A c, d \in Clients : c # d =>
        \A k \in DOMAIN work[c] :
            /\ k \notin DOMAIN work[d]
            /\ work[c][k].up \in DOMAIN work[d] => work[d][work[c][k].up] # Gone

TableInv ==
    /\ DOMAIN work = Clients /\ IsFiniteSet(DOMAIN db) /\ Intact(db) /\ Apart
    /\ \A c \in Clients : IsFiniteSet(DOMAIN work[c]) /\ Intact(Current(c))

(* The last step selects the answer: the created venues by the keys their    *)
(* insertions returned, the others by what the root statement returned; or   *)
(* the root statement is itself the last.                                    *)
VenueInserts(s) == {i \in 1 .. Len(s) : s[i].op = "insert" /\ s[i].table = "venues"}

Ends(m, s) ==
    LET last == s[Len(s)] IN
    /\ Len(s) \in Nat \ {0}
    /\ ~Mutates(m) =>
         /\ last.op = "selectFirst" /\ last.of = VenueInserts(s)
         /\ last.of # {} => last.table = "venues"
         /\ last.read = <<m.read>>
    /\ Mutates(m) => IF Nests(m)
                     THEN last.op = "selectAll" /\ last.of = Root(m) /\ last.read = <<m.read>>
                     ELSE Len(s) = Root(m)

Ended(c) == script[c] # <<>> => Ends(mutation[c], script[c])

(* What was matched is what these returned so far, unless the root statement *)
(* is the last: then it returned as much of it as may be read.               *)
Inserted(c) == {i \in VenueInserts(script[c]) : i <= Len(results[c])}

Matched(c) ==
    IF Mutates(mutation[c])
    THEN IF Len(results[c]) < Root(mutation[c]) THEN matched[c] = {}
         ELSE Nests(mutation[c]) =>
                matched[c] = {<<"venues", k>> : k \in Range(results[c][Root(mutation[c])])}
    ELSE matched[c] = {<<"venues", results[c][i][1]>> : i \in Inserted(c)}

Keyed(c) ==
    OneColumnKeys => \A k \in DOMAIN db \cup DOMAIN work[c] \cup matched[c] : OneColumn(k)

AnswerInv == \A c \in Clients : Ended(c) /\ Matched(c) /\ Keyed(c)

-----------------------------------------------------------------------------
(* Tables                                                                    *)

LEMMA OverShape ==
    ASSUME NEW f, NEW g
    PROVE  /\ DOMAIN Over(f, g) = DOMAIN f \cup DOMAIN g
           /\ \A k \in DOMAIN f : Over(f, g)[k] = f[k]
           /\ \A k \in DOMAIN g \ DOMAIN f : Over(f, g)[k] = g[k]
  BY DEF Over

LEMMA OverAssociative ==
    ASSUME NEW f, NEW g, NEW h
    PROVE  Over(Over(f, g), h) = Over(f, Over(g, h))
  BY DEF Over

(* A statement that violates no key and refers to no missing row leaves the  *)
(* tables intact, as its own transaction sees them.                          *)
LEMMA StatementKeepsIntact ==
    ASSUME NEW c, NEW s, Intact(Current(c)), ~Violates(c, s)
    PROVE  Intact(Over(Writes(c, s), Current(c)))
<1> DEFINE writes == Writes(c, s)
           after == Over(writes, Current(c))
           live == {k \in DOMAIN after : after[k] # Gone}
<1>1. /\ \A k \in DOMAIN writes \cap live : after[k].up # <<>> => after[k].up \in live
      /\ \A k \in DOMAIN writes \ live : \A x \in live : after[x].up # k
  BY DEF Violates
<1>2. /\ DOMAIN after = DOMAIN writes \cup DOMAIN Current(c)
      /\ \A k \in DOMAIN Current(c) \ DOMAIN writes : after[k] = Current(c)[k]
  BY OverShape
<1> HIDE DEF writes, after
<1> SUFFICES ASSUME NEW k \in live, after[k].up # <<>>
             PROVE  after[k].up \in live
  BY DEF Intact, writes, after
<1>3. CASE k \in DOMAIN writes
  BY <1>1, <1>3
<1>4. CASE k \notin DOMAIN writes
  <2>1. after[k] = Current(c)[k] /\ k \in DOMAIN Current(c)
    BY <1>2, <1>4
  <2>2. after[k].up \in DOMAIN Current(c) /\ Current(c)[after[k].up] # Gone
    BY <2>1 DEF Intact
  <2>3. after[k].up \in DOMAIN after
    BY <1>2, <2>2
  <2> QED
    BY <1>1, <1>2, <2>2, <2>3
<1> QED
  BY <1>3, <1>4

(* The commit of d, seen by c.                                               *)
LEMMA CommitKeepsIntact ==
    ASSUME NEW d, NEW c,
           Intact(db), Intact(Current(c)), Intact(Current(d)),
           \A k \in DOMAIN work[c] :
               work[c][k].up \in DOMAIN work[d] => work[d][work[c][k].up] # Gone,
           \A k \in DOMAIN work[d] :
               work[d][k].up \in DOMAIN work[c] => work[c][work[d][k].up] # Gone
    PROVE  Intact(Over(work[c], Current(d)))
<1> DEFINE after == Over(work[c], Current(d))
<1>1. /\ DOMAIN Current(c) = DOMAIN work[c] \cup DOMAIN db
      /\ \A k \in DOMAIN work[c] : Current(c)[k] = work[c][k]
      /\ \A k \in DOMAIN db \ DOMAIN work[c] : Current(c)[k] = db[k]
  BY OverShape DEF Current
<1>2. /\ DOMAIN Current(d) = DOMAIN work[d] \cup DOMAIN db
      /\ \A k \in DOMAIN work[d] : Current(d)[k] = work[d][k]
      /\ \A k \in DOMAIN db \ DOMAIN work[d] : Current(d)[k] = db[k]
  BY OverShape DEF Current
<1>3. /\ DOMAIN after = DOMAIN work[c] \cup DOMAIN Current(d)
      /\ \A k \in DOMAIN work[c] : after[k] = work[c][k]
      /\ \A k \in DOMAIN Current(d) \ DOMAIN work[c] : after[k] = Current(d)[k]
  BY OverShape
<1> HIDE DEF after
<1> SUFFICES ASSUME NEW k \in DOMAIN after, after[k] # Gone, after[k].up # <<>>
             PROVE  after[k].up \in DOMAIN after /\ after[after[k].up] # Gone
  BY DEF Intact, after
<1> DEFINE p == after[k].up
<1>4. CASE k \in DOMAIN work[c]
  <2>1. p = work[c][k].up /\ p \in DOMAIN Current(c) /\ Current(c)[p] # Gone
    BY <1>1, <1>3, <1>4 DEF Intact
  <2> QED
    BY <1>1, <1>2, <1>3, <1>4, <2>1
<1>5. CASE k \notin DOMAIN work[c] /\ k \in DOMAIN work[d]
  <2>1. p = work[d][k].up /\ p \in DOMAIN Current(d) /\ Current(d)[p] # Gone
    BY <1>2, <1>3, <1>5 DEF Intact
  <2> QED
    BY <1>2, <1>3, <1>5, <2>1
<1>6. CASE k \notin DOMAIN work[c] /\ k \notin DOMAIN work[d]
  <2>1. k \in DOMAIN db /\ after[k] = db[k] /\ Current(c)[k] = db[k] /\ Current(d)[k] = db[k]
    BY <1>1, <1>2, <1>3, <1>6
  <2>2. p \in DOMAIN Current(c) /\ Current(c)[p] # Gone
    BY <1>1, <2>1 DEF Intact
  <2>3. p \in DOMAIN Current(d) /\ Current(d)[p] # Gone
    BY <1>2, <2>1 DEF Intact
  <2> QED
    BY <1>1, <1>2, <1>3, <2>2, <2>3
<1> QED
  BY <1>4, <1>5, <1>6

(* What a statement writes, nobody else has written; what it deletes, nobody *)
(* else refers to.                                                           *)
LEMMA RunKeepsApart ==
    ASSUME Apart, NEW c \in Clients, at[c] = "run", ~Waits(c), NEW s, s = Head(pending[c]),
           DOMAIN work = Clients, work' = [work EXCEPT ![c] = Over(Writes(c, s), @)]
    PROVE  Apart'
<1> DEFINE writes == Writes(c, s)
<1>1. ASSUME NEW d \in Clients, d # c, NEW k \in DOMAIN writes
      PROVE  /\ k \notin DOMAIN work[d]
             /\ writes[k].up \in DOMAIN work[d] => work[d][writes[k].up] # Gone
             /\ writes[k] = Gone => \A x \in DOMAIN work[d] : work[d][x].up # k
  BY <1>1 DEF Waits, WaitsFor
<1>2. /\ work'[c] = Over(writes, work[c])
      /\ \A d \in Clients : d # c => work'[d] = work[d]
  OBVIOUS
<1>3. /\ DOMAIN work'[c] = DOMAIN writes \cup DOMAIN work[c]
      /\ \A k \in DOMAIN writes : work'[c][k] = writes[k]
      /\ \A k \in DOMAIN work[c] \ DOMAIN writes : work'[c][k] = work[c][k]
  <2> HIDE DEF writes
  <2>1. /\ DOMAIN Over(writes, work[c]) = DOMAIN writes \cup DOMAIN work[c]
        /\ \A k \in DOMAIN writes : Over(writes, work[c])[k] = writes[k]
        /\ \A k \in DOMAIN work[c] \ DOMAIN writes : Over(writes, work[c])[k] = work[c][k]
    BY OverShape
  <2> QED
    BY <1>2, <2>1, Zenon
<1> HIDE DEF writes
<1> SUFFICES ASSUME NEW a \in Clients, NEW b \in Clients, a # b, NEW k \in DOMAIN work'[a]
             PROVE  /\ k \notin DOMAIN work'[b]
                    /\ work'[a][k].up \in DOMAIN work'[b] => work'[b][work'[a][k].up] # Gone
  BY DEF Apart
<1>4. CASE a = c
  BY <1>1, <1>2, <1>3, <1>4 DEF Apart
<1>5. CASE b = c
  <2>1. k \in DOMAIN work[a] /\ work'[a][k] = work[a][k]
    BY <1>2, <1>5
  <2>2. k \notin DOMAIN work'[b]
    BY <1>1, <1>3, <1>5, <2>1 DEF Apart
  <2>3. ASSUME work[a][k].up \in DOMAIN work'[b] PROVE work'[b][work[a][k].up] # Gone
    BY <1>1, <1>3, <1>5, <2>1, <2>3 DEF Apart
  <2> QED
    BY <2>1, <2>2, <2>3
<1>6. CASE a # c /\ b # c
  BY <1>2, <1>6 DEF Apart
<1> QED
  BY <1>4, <1>5, <1>6

LEMMA RangeIsFinite ==
    ASSUME NEW f, IsFiniteSet(DOMAIN f)
    PROVE  IsFiniteSet(Range(f))
<1>1. [x \in DOMAIN f |-> f[x]] \in Surjection(DOMAIN f, Range(f))
  BY DEF Surjection, Range
<1> QED
  BY <1>1, FS_Surjection

LEMMA CurrentIsFinite ==
    ASSUME TableInv, NEW c \in Clients
    PROVE  IsFiniteSet(DOMAIN Current(c)) /\ IsFiniteSet(Live(c))
<1>1. DOMAIN Current(c) = DOMAIN work[c] \cup DOMAIN db
  BY OverShape DEF Current
<1>2. IsFiniteSet(DOMAIN Current(c))
  BY <1>1, FS_Union DEF TableInv
<1>3. Live(c) \subseteq DOMAIN Current(c)
  BY DEF Live
<1> QED
  BY <1>2, <1>3, FS_Subset

LEMMA WritesIsFinite ==
    ASSUME TableInv, NEW c \in Clients, NEW s, s.do = "insert" => IsSequence(s.ups)
    PROVE  IsFiniteSet(DOMAIN Writes(c, s))
<1>1. CASE s.do \in {"update", "delete"}
  <2>1. DOMAIN Writes(c, s) = Venues(c, s.where)
    BY <1>1 DEF Writes
  <2>2. Venues(c, s.where) \subseteq Live(c)
    BY DEF Venues
  <2> QED
    BY <2>1, <2>2, CurrentIsFinite, FS_Subset
<1>2. CASE s.do \in {"nestedUpdate", "nestedDelete"}
  <2>1. DOMAIN Writes(c, s) = Nested(c, s)
    BY <1>2 DEF Writes
  <2>2. Nested(c, s) \subseteq Live(c)
    BY DEF Nested
  <2> QED
    BY <2>1, <2>2, CurrentIsFinite, FS_Subset
<1>3. CASE s.do = "insert"
  <2>1. DOMAIN Writes(c, s) = Range(NewKeys(s))
    BY <1>3 DEF Writes
  <2>2. DOMAIN NewKeys(s) = 1 .. Len(s.ups) /\ Len(s.ups) \in Nat
    BY <1>3 DEF NewKeys, IsSequence
  <2>3. IsFiniteSet(DOMAIN NewKeys(s))
    BY <2>2, FS_Interval
  <2> QED
    BY <2>1, <2>3, RangeIsFinite
<1>4. CASE s.do \notin {"update", "delete", "nestedUpdate", "nestedDelete", "insert"}
  <2>1. Writes(c, s) = <<>>
    BY <1>4 DEF Writes
  <2>2. DOMAIN <<>> = {}
    OBVIOUS
  <2> QED
    BY <2>1, <2>2, FS_EmptySet
<1> QED
  BY <1>1, <1>2, <1>3, <1>4

LEMMA TableRun ==
    ASSUME TableInv, NEW c \in Clients, run_query(c),
           Head(pending[c]).do = "insert" => IsSequence(Head(pending[c]).ups)
    PROVE  TableInv'
<1> DEFINE s == Head(pending[c])
<1>1. /\ at[c] = "run" /\ ~Waits(c) /\ ~Violates(c, s) /\ db' = db
      /\ work' = [work EXCEPT ![c] = Over(Writes(c, s), @)]
  BY DEF run_query
<1>2. Apart'
  BY <1>1, RunKeepsApart DEF TableInv
<1>3. /\ DOMAIN work' = Clients
      /\ work'[c] = Over(Writes(c, s), work[c])
      /\ \A d \in Clients : d # c => work'[d] = work[d]
  BY <1>1 DEF TableInv
<1>4. ASSUME NEW d \in Clients
      PROVE  (IsFiniteSet(DOMAIN work[d]) /\ Intact(Current(d)))'
  <2>1. CASE d = c
    <3>1. DOMAIN work'[c] = DOMAIN Writes(c, s) \cup DOMAIN work[c]
      <4>1. DOMAIN Over(Writes(c, s), work[c]) = DOMAIN Writes(c, s) \cup DOMAIN work[c]
        BY OverShape
      <4> QED
        BY <1>3, <4>1, Zenon
    <3>2. IsFiniteSet(DOMAIN work'[c])
      <4>1. IsFiniteSet(DOMAIN Writes(c, s))
        BY WritesIsFinite, Zenon
      <4>2. IsFiniteSet(DOMAIN work[c])
        BY DEF TableInv
      <4> QED
        BY <3>1, <4>1, <4>2, FS_Union, Zenon
    <3>3. Current(c)' = Over(Writes(c, s), Current(c))
      <4>1. Over(Over(Writes(c, s), work[c]), db) = Over(Writes(c, s), Over(work[c], db))
        BY OverAssociative
      <4>2. Current(c)' = Over(Over(Writes(c, s), work[c]), db)
        BY <1>1, <1>3, Zenon DEF Current
      <4> QED
        BY <4>1, <4>2, Zenon DEF Current
    <3>4. Intact(Over(Writes(c, s), Current(c)))
      BY <1>1, StatementKeepsIntact DEF TableInv
    <3> QED
      BY <2>1, <3>2, <3>3, <3>4
  <2>2. CASE d # c
    <3>1. Current(d)' = Current(d) /\ work'[d] = work[d]
      BY <1>1, <1>3, <2>2, Zenon DEF Current
    <3> QED
      BY <3>1 DEF TableInv
  <2> QED
    BY <2>1, <2>2
<1> QED
  BY <1>1, <1>2, <1>3, <1>4 DEF TableInv

LEMMA TableFinish ==
    ASSUME TableInv, NEW c \in Clients, finish(c)
    PROVE  TableInv'
<1>1. /\ DOMAIN work' = Clients /\ work'[c] = <<>>
      /\ \A d \in Clients : d # c => work'[d] = work[d]
      /\ db' = Current(c) \/ db' = db
  BY DEF finish, TableInv
<1>2. DOMAIN work'[c] = {}
  BY <1>1
<1>3. Apart'
  <2> SUFFICES ASSUME NEW a \in Clients, NEW b \in Clients, a # b, NEW k \in DOMAIN work'[a]
               PROVE  /\ k \notin DOMAIN work'[b]
                      /\ work'[a][k].up \in DOMAIN work'[b] => work'[b][work'[a][k].up] # Gone
    BY DEF Apart
  <2>1. a # c
    BY <1>2
  <2>2. CASE b = c
    BY <1>2, <2>2
  <2>3. CASE b # c
    BY <1>1, <2>1, <2>3 DEF Apart, TableInv
  <2> QED
    BY <2>2, <2>3
<1>4. IsFiniteSet(DOMAIN db)' /\ Intact(db)'
  BY <1>1, CurrentIsFinite DEF TableInv
<1>5. ASSUME NEW d \in Clients
      PROVE  (IsFiniteSet(DOMAIN work[d]) /\ Intact(Current(d)))'
  <2>1. CASE d = c
    <3>1. IsFiniteSet(DOMAIN work'[c])
      BY <1>2, FS_EmptySet
    <3>2. Current(c)' = Over(work'[c], db')
      BY DEF Current
    <3>3. Intact(Current(c))'
      <4>1. /\ DOMAIN Over(work'[c], db') = DOMAIN work'[c] \cup DOMAIN db'
            /\ \A k \in DOMAIN db' \ DOMAIN work'[c] : Over(work'[c], db')[k] = db'[k]
        BY OverShape
      <4>2. Intact(Over(work'[c], db'))
        BY <1>2, <1>4, <4>1 DEF Intact
      <4> QED
        BY <3>2, <4>2
    <3> QED
      BY <2>1, <3>1, <3>3
  <2>2. CASE d # c
    <3>1. Current(d)' = Over(work[d], db') /\ work'[d] = work[d]
      BY <1>1, <2>2 DEF Current
    <3>2. CASE db' = db
      BY <3>1, <3>2 DEF Current, TableInv
    <3>3. CASE db' = Current(c)
      <4>1. Intact(Over(work[d], Current(c)))
        BY <2>2, CommitKeepsIntact DEF TableInv, Apart
      <4> QED
        BY <3>1, <3>3, <4>1 DEF TableInv
    <3> QED
      BY <1>1, <3>2, <3>3
  <2> QED
    BY <2>1, <2>2
<1> QED
  BY <1>1, <1>3, <1>4, <1>5 DEF TableInv

-----------------------------------------------------------------------------
(* Sequences                                                                 *)

LEMMA IsSequenceOf ==
    ASSUME NEW n \in Nat, NEW f, f = [i \in 1 .. n |-> f[i]]
    PROVE  IsSequence(f) /\ Len(f) = n
<1>1. f \in Seq(Range(f)) /\ Len(f) = n
  <2>1. f \in [1 .. n -> Range(f)]
    BY DEF Range
  <2>2. f \in Seq(Range(f))
    BY <2>1, SeqDef
  <2> QED
    BY <2>1, <2>2
<1> QED
  BY <1>1 DEF IsSequence

LEMMA IsSequenceIsSeq ==
    ASSUME NEW s, IsSequence(s)
    PROVE  s \in Seq(Range(s)) /\ Len(s) \in Nat /\ DOMAIN s = 1 .. Len(s)
<1>1. s \in [1 .. Len(s) -> Range(s)] /\ Len(s) \in Nat
  BY DEF IsSequence, Range
<1> QED
  BY <1>1, SeqDef

LEMMA SeqIsSequence ==
    ASSUME NEW S, NEW s \in Seq(S)
    PROVE  IsSequence(s)
  BY LenProperties DEF IsSequence

LEMMA SequenceConcat ==
    ASSUME NEW s, NEW t, IsSequence(s), IsSequence(t)
    PROVE  /\ IsSequence(s \o t) /\ Len(s \o t) = Len(s) + Len(t)
           /\ \A i \in 1 .. Len(s) : (s \o t)[i] = s[i]
           /\ \A i \in 1 .. Len(t) : (s \o t)[Len(s) + i] = t[i]
<1> DEFINE S == Range(s) \cup Range(t)
<1>1. s \in Seq(S) /\ t \in Seq(S) /\ Len(s) \in Nat /\ Len(t) \in Nat
  <2>1. /\ s \in Seq(Range(s)) /\ Len(s) \in Nat /\ DOMAIN s = 1 .. Len(s)
        /\ t \in Seq(Range(t)) /\ Len(t) \in Nat /\ DOMAIN t = 1 .. Len(t)
    BY IsSequenceIsSeq
  <2>2. Seq(Range(s)) \subseteq Seq(S) /\ Seq(Range(t)) \subseteq Seq(S)
    BY SeqMonotonic
  <2> QED
    BY <2>1, <2>2
<1> HIDE DEF S
<1>2. /\ s \o t \in Seq(S)
      /\ Len(s \o t) = Len(s) + Len(t)
      /\ \A i \in 1 .. Len(s) + Len(t) : (s \o t)[i] = IF i <= Len(s) THEN s[i] ELSE t[i - Len(s)]
  BY <1>1, ConcatProperties
<1>3. IsSequence(s \o t)
  BY <1>2, SeqIsSequence
<1>4. ASSUME NEW i \in 1 .. Len(s) PROVE (s \o t)[i] = s[i]
  BY <1>1, <1>2
<1>5. ASSUME NEW i \in 1 .. Len(t) PROVE (s \o t)[Len(s) + i] = t[i]
  <2>1. Len(s) + i \in 1 .. Len(s) + Len(t) /\ ~(Len(s) + i <= Len(s)) /\ (Len(s) + i) - Len(s) = i
    BY <1>1
  <2> QED
    BY <1>2, <2>1
<1> QED
  BY <1>2, <1>3, <1>4, <1>5

LEMMA SequenceAppend ==
    ASSUME NEW s, IsSequence(s), NEW x
    PROVE  /\ IsSequence(Append(s, x)) /\ Len(Append(s, x)) = Len(s) + 1
           /\ \A i \in 1 .. Len(s) : Append(s, x)[i] = s[i]
           /\ Append(s, x)[Len(s) + 1] = x
<1> DEFINE S == Range(s) \cup {x}
<1>1. s \in Seq(S) /\ x \in S
  BY IsSequenceIsSeq, SeqMonotonic
<1> HIDE DEF S
<1>2. /\ Append(s, x) \in Seq(S)
      /\ Len(Append(s, x)) = Len(s) + 1
      /\ \A i \in 1 .. Len(s) : Append(s, x)[i] = s[i]
      /\ Append(s, x)[Len(s) + 1] = x
  BY <1>1, AppendProperties
<1>3. IsSequence(Append(s, x))
  BY <1>2, SeqIsSequence
<1> QED
  BY <1>2, <1>3

LEMMA SequenceTail ==
    ASSUME NEW s, IsSequence(s), s # <<>>
    PROVE  /\ IsSequence(Tail(s)) /\ Len(Tail(s)) = Len(s) - 1 /\ Len(s) \in Nat \ {0}
           /\ \A i \in 1 .. Len(Tail(s)) : Tail(s)[i] = s[i + 1]
           /\ Head(s) = s[1]
           /\ Len(s) # 1 => Tail(s) # <<>>
<1>1. s \in Seq(Range(s)) /\ Len(s) \in Nat
  BY IsSequenceIsSeq
<1>2. /\ Tail(s) \in Seq(Range(s))
      /\ Len(Tail(s)) = Len(s) - 1
      /\ \A i \in 1 .. Len(Tail(s)) : Tail(s)[i] = s[i + 1]
  BY <1>1, HeadTailProperties
<1>3. Len(s) \in Nat \ {0}
  BY <1>1, EmptySeq
<1>4. IsSequence(Tail(s))
  BY <1>2, SeqIsSequence
<1>5. Head(s) = s[1]
  BY <1>1
<1>6. Len(s) # 1 => Tail(s) # <<>>
  <2>1. Len(<<>>) = 0
    BY EmptySeq
  <2> QED
    BY <1>2, <1>3, <2>1, SMTT(20)
<1> QED
  BY <1>2, <1>3, <1>4, <1>5, <1>6

LEMMA SequenceLast ==
    ASSUME NEW s, IsSequence(s), NEW x
    PROVE  (s \o <<x>>)[Len(s) + 1] = x
<1>1. <<x>> = [i \in 1 .. 1 |-> <<x>>[i]] /\ <<x>>[1] = x
  OBVIOUS
<1>2. IsSequence(<<x>>) /\ Len(<<x>>) = 1
  BY <1>1, IsSequenceOf
<1>3. \A i \in 1 .. 1 : (s \o <<x>>)[Len(s) + i] = <<x>>[i]
  BY <1>2, SequenceConcat
<1> QED
  BY <1>1, <1>3

-----------------------------------------------------------------------------
(* The script                                                                *)

LEMMA StepsConcat ==
    ASSUME NEW m, NEW s, NEW t, NEW base \in Nat,
           Steps(m, s, base), Steps(m, t, base + Len(s))
    PROVE  Steps(m, s \o t, base) /\ Len(s \o t) = Len(s) + Len(t)
<1>1. /\ IsSequence(s) /\ IsSequence(t)
      /\ \A i \in 1 .. Len(s) : Fits(m, s[i], base + i)
      /\ \A i \in 1 .. Len(t) : Fits(m, t[i], (base + Len(s)) + i)
  BY DEF Steps
<1>2. Len(s) \in Nat /\ Len(t) \in Nat
  BY <1>1 DEF IsSequence
<1>3. /\ IsSequence(s \o t) /\ Len(s \o t) = Len(s) + Len(t)
      /\ \A i \in 1 .. Len(s) : (s \o t)[i] = s[i]
      /\ \A i \in 1 .. Len(t) : (s \o t)[Len(s) + i] = t[i]
  BY <1>1, SequenceConcat
<1>4. ASSUME NEW i \in 1 .. Len(s \o t)
      PROVE  Fits(m, (s \o t)[i], base + i)
  <2>1. CASE i <= Len(s)
    BY <1>1, <1>2, <1>3, <2>1
  <2>2. CASE i > Len(s)
    <3>1. PICK j \in 1 .. Len(t) : i = Len(s) + j
      <4>1. i - Len(s) \in 1 .. Len(t) /\ i = Len(s) + (i - Len(s))
        BY <1>2, <1>3, <2>2
      <4> QED
        BY <4>1
    <3>2. base + i = (base + Len(s)) + j
      BY <1>2, <3>1
    <3>3. Fits(m, t[j], (base + Len(s)) + j) /\ (s \o t)[i] = t[j]
      BY <1>1, <1>3, <3>1
    <3> QED
      BY <3>2, <3>3, Zenon
  <2> QED
    BY <1>2, <1>3, <2>1, <2>2
<1> QED
  BY <1>3, <1>4 DEF Steps

LEMMA PrecheckSteps ==
    ASSUME NEW m, NEW n \in Nat, NEW base \in Nat,
           Mutates(m) => m.prechecks \in Nat /\ (base + n <= m.prechecks \/ Root(m) <= base)
    PROVE  Steps(m, add_precheck_queries(n), base) /\ Len(add_precheck_queries(n)) = n
<1> DEFINE s == add_precheck_queries(n)
<1>1. s = [i \in 1 .. n |-> [op |-> "precheck"]]
  BY DEF add_precheck_queries
<1>2. IsSequence(s) /\ Len(s) = n
  BY <1>1, IsSequenceOf
<1>3. ASSUME NEW i \in 1 .. n PROVE Fits(m, s[i], base + i)
  <2>1. s[i].op = "precheck"
    BY <1>1
  <2>2. Mutates(m) => base + i # Root(m)
    BY DEF Root
  <2> QED
    BY <2>1, <2>2 DEF Fits, Ops
<1> QED
  BY <1>2, <1>3 DEF Steps

LEMMA OneStep ==
    ASSUME NEW m, NEW step, NEW base \in Nat, Fits(m, step, base + 1)
    PROVE  Steps(m, <<step>>, base) /\ Len(<<step>>) = 1
<1>1. <<step>> = [i \in 1 .. 1 |-> <<step>>[i]] /\ <<step>>[1] = step
  OBVIOUS
<1>2. IsSequence(<<step>>) /\ Len(<<step>>) = 1
  BY <1>1, IsSequenceOf
<1> QED
  BY <1>1, <1>2 DEF Steps

(* The steps of an insertion refer to each other and to the step around it.  *)
LEMMA InsertSteps ==
    ASSUME NEW m, NEW create, NEW start \in Nat, NEW parent \in 0 .. start, NEW table, NEW read,
           create.prechecks \in Nat, Forest(create.rows, table),
           \A i \in DOMAIN create.rows : Simple(create.rows[i].pk),
           Mutates(m) => table # "venues",
           ~Mutates(m) => parent = 0,
           Mutates(m) => m.prechecks \in Nat /\ Root(m) <= start
    PROVE  /\ Steps(m, insert_script(start, create, parent, read), start)
           /\ Len(insert_script(start, create, parent, read)) \in Nat
<1> DEFINE n == create.prechecks
           rows == create.rows
           base == start + n
           roots == {i \in DOMAIN rows : rows[i].up = 0}
           inserts == insert_row(rows, base, parent)
           last == [op |-> "selectFirst", table |-> rows[1].table, of |-> {base + i : i \in roots},
                    read |-> read]
<1>1. /\ Len(rows) \in Nat /\ DOMAIN rows = 1 .. Len(rows)
      /\ \A i \in 1 .. Len(rows) :
           /\ rows[i].up \in 0 .. i - 1
           /\ IF rows[i].up = 0 THEN rows[i].table = table ELSE rows[i].table # "venues"
  BY DEF Forest, IsSequence
<1>2. Steps(m, add_precheck_queries(n), start) /\ Len(add_precheck_queries(n)) = n
  BY PrecheckSteps
<1>3. Steps(m, inserts, base) /\ Len(inserts) = Len(rows)
  <2>1. inserts = [i \in 1 .. Len(rows) |-> inserts[i]]
    BY <1>1 DEF insert_row
  <2>2. IsSequence(inserts) /\ Len(inserts) = Len(rows)
    BY <1>1, <2>1, IsSequenceOf
  <2>3. ASSUME NEW i \in 1 .. Len(rows) PROVE Fits(m, inserts[i], base + i)
    <3>1. /\ inserts[i].op = "insert"
          /\ inserts[i].prev = IF rows[i].up = 0 THEN parent ELSE base + rows[i].up
          /\ inserts[i].table = rows[i].table /\ inserts[i].pk = rows[i].pk
      BY <1>1 DEF insert_row
    <3>2. inserts[i].prev \in 0 .. (base + i) - 1
      <4>1. rows[i].up \in 0 .. i - 1
        BY <1>1
      <4>2. CASE rows[i].up = 0
        BY <3>1, <4>2
      <4>3. CASE rows[i].up # 0
        <5>1. inserts[i].prev = base + rows[i].up
          BY <3>1, <4>3
        <5> HIDE DEF inserts
        <5> QED
          BY <4>1, <5>1, SMTT(20)
      <4> QED
        BY <4>2, <4>3
    <3>3. Mutates(m) => base + i # Root(m)
      BY <1>1 DEF Root
    <3>4. inserts[i].table = "venues" => ~Mutates(m) /\ inserts[i].prev = 0
      BY <1>1, <3>1
    <3>5. Simple(inserts[i].pk)
      BY <1>1, <3>1
    <3> HIDE DEF inserts, base
    <3> QED
      BY <3>1, <3>2, <3>3, <3>4, <3>5 DEF Fits, Ops
  <2> QED
    BY <2>2, <2>3 DEF Steps
<1>4. Steps(m, <<last>>, base + Len(rows)) /\ Len(<<last>>) = 1
  <2>1. last.op = "selectFirst" /\ last.of = {base + i : i \in roots}
    OBVIOUS
  <2>2. last.of \subseteq 1 .. ((base + Len(rows)) + 1) - 1
    BY <1>1, <2>1, SMTT(20)
  <2>3. Mutates(m) => (base + Len(rows)) + 1 # Root(m)
    BY <1>1 DEF Root
  <2> HIDE DEF last
  <2>4. Fits(m, last, (base + Len(rows)) + 1)
    BY <2>1, <2>2, <2>3 DEF Fits, Ops
  <2>5. base + Len(rows) \in Nat
    BY <1>1
  <2> QED
    BY <2>4, <2>5, OneStep
<1>5. insert_script(start, create, parent, read) = (add_precheck_queries(n) \o inserts) \o <<last>>
  BY DEF insert_script
<1> HIDE DEF inserts, last
<1>6. /\ Steps(m, add_precheck_queries(n) \o inserts, start)
      /\ Len(add_precheck_queries(n) \o inserts) = n + Len(rows)
  <2>1. start + Len(add_precheck_queries(n)) = base
    BY <1>2
  <2>2. Steps(m, inserts, start + Len(add_precheck_queries(n)))
    BY <1>3, <2>1, Zenon
  <2> QED
    BY <1>2, <1>3, <2>2, StepsConcat
<1>7. start + Len(add_precheck_queries(n) \o inserts) = base + Len(rows)
  BY <1>1, <1>6
<1>8. Steps(m, <<last>>, start + Len(add_precheck_queries(n) \o inserts))
  BY <1>4, <1>7, Zenon
<1>9. /\ Steps(m, (add_precheck_queries(n) \o inserts) \o <<last>>, start)
      /\ Len((add_precheck_queries(n) \o inserts) \o <<last>>) = (n + Len(rows)) + 1
  <2> DEFINE s == add_precheck_queries(n) \o inserts
  <2> HIDE DEF s
  <2>1. Steps(m, s \o <<last>>, start) /\ Len(s \o <<last>>) = Len(s) + Len(<<last>>)
    <3>1. Steps(m, s, start) /\ Steps(m, <<last>>, start + Len(s))
      BY <1>6, <1>8 DEF s
    <3> QED
      BY <3>1, StepsConcat
  <2> QED
    BY <1>4, <1>6, <2>1 DEF s
<1> QED
  BY <1>1, <1>5, <1>9

(* Induction, with a set in place of the predicate.                          *)
LEMMA LeastNatural ==
    ASSUME NEW T, T \subseteq Nat, T # {}
    PROVE  \E x \in T : \A y \in T : x <= y
<1>1. PICK x \in T : \A y \in T : ~(<<y, x>> \in OpToRel(<, Nat))
  BY NatLessThanWellFounded, WFMin
<1>2. ASSUME NEW y \in T PROVE x <= y
  <2>1. ~(y < x)
    BY <1>1 DEF OpToRel
  <2> QED
    BY <2>1
<1> QED
  BY <1>2

LEMMA BoundedInduction ==
    ASSUME NEW N \in Nat, NEW Good, 0 \in Good,
           \A n \in 1 .. N : n - 1 \in Good => n \in Good
    PROVE  0 .. N \subseteq Good
<1> SUFFICES ASSUME (0 .. N) \ Good # {} PROVE FALSE
  OBVIOUS
<1>1. PICK x \in (0 .. N) \ Good : \A y \in (0 .. N) \ Good : x <= y
  <2>1. (0 .. N) \ Good \subseteq Nat
    OBVIOUS
  <2> QED
    BY <2>1, LeastNatural
<1>2. x \in 1 .. N
  BY <1>1
<1>3. x - 1 \in Good
  BY <1>1, <1>2
<1> QED
  BY <1>1, <1>2, <1>3

(* The recursion over the creates has a solution.                            *)
With(upto, creates, parent, f, n) ==
    IF n = 0 THEN upto
    ELSE f[n - 1] \o insert_script(Len(f[n - 1]), creates[n], parent, <<>>)

Solves(f, upto, creates, parent, N) ==
    f = [n \in 0 .. N |-> With(upto, creates, parent, f, n)]

LEMMA ScriptWithExists ==
    ASSUME NEW upto, NEW creates, NEW parent, NEW N \in Nat
    PROVE  \E f : Solves(f, upto, creates, parent, N)
<1> DEFINE Good == {k \in Nat : \E f : f = [n \in 0 .. k |-> With(upto, creates, parent, f, n)]}
<1>1. 0 \in Good
  <2> DEFINE f == [n \in 0 .. 0 |-> upto]
  <2>1. f = [n \in 0 .. 0 |-> With(upto, creates, parent, f, n)]
    BY DEF With
  <2> QED
    BY <2>1
<1>2. ASSUME NEW k \in 1 .. N, k - 1 \in Good
      PROVE  k \in Good
  <2>1. PICK f : f = [n \in 0 .. k - 1 |-> With(upto, creates, parent, f, n)]
    BY <1>2
  <2> DEFINE g == [n \in 0 .. k |-> IF n = k THEN With(upto, creates, parent, f, k) ELSE f[n]]
  <2>2. ASSUME NEW n \in 0 .. k
        PROVE  g[n] = With(upto, creates, parent, g, n)
    <3>1. n # 0 => g[n - 1] = f[n - 1]
      OBVIOUS
    <3>2. With(upto, creates, parent, g, n) = With(upto, creates, parent, f, n)
      <4> HIDE DEF g
      <4> QED
        BY <3>1, Zenon DEF With
    <3>3. CASE n = k
      BY <3>2, <3>3
    <3>4. CASE n # k
      <4>1. g[n] = f[n] /\ n \in 0 .. k - 1
        BY <3>4
      <4>2. f[n] = With(upto, creates, parent, f, n)
        <5> HIDE DEF g
        <5> QED
          BY <2>1, <4>1
      <4> QED
        BY <3>2, <4>1, <4>2
    <3> QED
      BY <3>3, <3>4
  <2>3. g = [n \in 0 .. k |-> With(upto, creates, parent, g, n)]
    <3>1. g = [n \in 0 .. k |-> g[n]]
      OBVIOUS
    <3> HIDE DEF g
    <3> QED
      BY <2>2, <3>1
  <2> HIDE DEF g
  <2> QED
    BY <2>3
<1> HIDE DEF Good
<1>3. 0 .. N \subseteq Good
  BY <1>1, <1>2, BoundedInduction
<1>4. N \in Good
  BY <1>3
<1> QED
  BY <1>4 DEF Good, Solves

LEMMA ManyInsertSteps ==
    ASSUME NEW m, NEW upto, NEW creates, IsSequence(creates), NEW parent \in 0 .. Len(upto),
           Steps(m, upto, 0),
           \A i \in DOMAIN creates :
               /\ creates[i].prechecks \in Nat /\ Forest(creates[i].rows, "concerts")
               /\ \A j \in DOMAIN creates[i].rows : Simple(creates[i].rows[j].pk),
           Mutates(m), m.prechecks \in Nat, Root(m) <= Len(upto)
    PROVE  LET s == insert_scripts(upto, creates, parent) IN
           Steps(m, s, 0) /\ Len(s) \in Nat /\ Len(upto) <= Len(s)
<1> DEFINE N == Len(creates)
           script_with == CHOOSE f : f = [n \in 0 .. N |-> With(upto, creates, parent, f, n)]
<1>1. N \in Nat /\ DOMAIN creates = 1 .. N
  BY DEF IsSequence
<1>2. script_with = [n \in 0 .. N |-> With(upto, creates, parent, script_with, n)]
  <2> HIDE DEF N
  <2>1. \E f : Solves(f, upto, creates, parent, N)
    BY <1>1, ScriptWithExists
  <2> QED
    BY <2>1, Zenon DEF Solves
<1>3. insert_scripts(upto, creates, parent) = script_with[N]
  BY Zenon DEF insert_scripts, With
<1> HIDE DEF script_with, N
<1> DEFINE Fine(s) == Steps(m, s, 0) /\ Len(s) \in Nat /\ Len(upto) <= Len(s)
           Good == {n \in 0 .. N : Fine(script_with[n])}
<1>4. 0 \in Good
  <2>1. script_with[0] = upto
    BY <1>1, <1>2 DEF With
  <2>2. Len(upto) \in Nat
    BY DEF Steps, IsSequence
  <2> QED
    BY <1>1, <2>1, <2>2
<1>5. ASSUME NEW n \in 1 .. N, n - 1 \in Good
      PROVE  n \in Good
  <2> DEFINE s == script_with[n - 1]
             more == insert_script(Len(s), creates[n], parent, <<>>)
  <2>1. Steps(m, s, 0) /\ Len(s) \in Nat /\ Len(upto) <= Len(s) /\ n \in 0 .. N
    BY <1>1, <1>5
  <2>2. script_with[n] = s \o more
    <3>1. n # 0 /\ n \in 0 .. N
      BY <1>1
    <3>2. script_with[n] = With(upto, creates, parent, script_with, n)
      BY <1>2, <3>1
    <3> QED
      BY <3>1, <3>2, Zenon DEF With
  <2>3. parent \in 0 .. Len(s)
    <3>1. Len(upto) \in Nat
      BY DEF Steps, IsSequence
    <3> QED
      BY <2>1, <3>1
  <2>4. /\ creates[n].prechecks \in Nat /\ Forest(creates[n].rows, "concerts")
        /\ \A j \in DOMAIN creates[n].rows : Simple(creates[n].rows[j].pk)
    BY <1>1
  <2> HIDE DEF s
  <2>5. Steps(m, more, Len(s)) /\ Len(more) \in Nat
    <3>1. Mutates(m) => m.prechecks \in Nat /\ Root(m) <= Len(s)
      <4>1. Len(upto) \in Nat
        BY DEF Steps, IsSequence
      <4> QED
        BY <2>1, <4>1 DEF Root
    <3>2. "concerts" # "venues"
      OBVIOUS
    <3> QED
      BY <2>1, <2>3, <2>4, <3>1, <3>2, InsertSteps
  <2> HIDE DEF more
  <2>6. Steps(m, s \o more, 0) /\ Len(s \o more) = Len(s) + Len(more)
    <3>1. 0 + Len(s) = Len(s)
      BY <2>1
    <3>2. Steps(m, more, 0 + Len(s))
      BY <2>5, <3>1, Zenon
    <3> QED
      BY <2>1, <3>2, StepsConcat
  <2>7. Fine(s \o more)
    <3>1. Len(upto) \in Nat
      BY DEF Steps, IsSequence
    <3> QED
      BY <2>1, <2>5, <2>6, <3>1
  <2> HIDE DEF Fine
  <2> QED
    BY <2>1, <2>2, <2>7
<1> HIDE DEF Good
<1>6. N \in Good
  <2>1. 0 .. N \subseteq Good
    BY <1>1, <1>4, <1>5, BoundedInduction
  <2> QED
    BY <1>1, <2>1
<1> QED
  BY <1>3, <1>6 DEF Good

LEMMA AppendSteps ==
    ASSUME NEW m, NEW s, NEW t, Steps(m, s, 0), Steps(m, t, Len(s))
    PROVE  /\ Steps(m, s \o t, 0) /\ Len(s \o t) = Len(s) + Len(t)
           /\ Len(s) \in Nat /\ Len(t) \in Nat
<1>1. Len(s) \in Nat /\ Len(t) \in Nat
  BY DEF Steps, IsSequence
<1>2. 0 + Len(s) = Len(s)
  BY <1>1
<1>3. Steps(m, t, 0 + Len(s))
  BY <1>2, Zenon
<1> QED
  BY <1>1, <1>3, StepsConcat

(* What receive hands to to_transaction_script.                              *)
WellFormed(m) ==
    /\ m.kind \in {"create", "update", "delete"} /\ m.prechecks \in Nat
    /\ m.kind = "create" =>
         Forest(m.rows, "venues") /\ \A i \in DOMAIN m.rows : Simple(m.rows[i].pk)
    /\ m.kind = "update" => m.set # Gone.val
    /\ m.kind = "update" /\ m.nested =>
         /\ IsSequence(m.updates) /\ IsSequence(m.creates) /\ IsSequence(m.deletes)
         /\ \A i \in DOMAIN m.creates :
              /\ m.creates[i].prechecks \in Nat /\ Forest(m.creates[i].rows, "concerts")
              /\ \A j \in DOMAIN m.creates[i].rows : Simple(m.creates[i].rows[j].pk)

LEMMA AbstractOperationIsWellFormed ==
    ASSUME NEW r \in Requests, NEW user
    PROVE  WellFormed(abstract_operation(r, user))
<1> DEFINE m == abstract_operation(r, user)
<1>1. r.kind \in {"create", "update", "delete"} /\ r.prechecks \in Nat
  BY RequestsAssumption
<1>2. CASE r.kind = "create"
  <2>1. m.kind = "create" /\ m.prechecks = r.prechecks /\ m.rows = r.rows
    BY <1>2 DEF abstract_operation, create_operation
  <2>2. Forest(r.rows, "venues") /\ \A i \in DOMAIN r.rows : Simple(r.rows[i].pk)
    BY <1>2, RequestsAssumption DEF Simple, OneColumnKeys
  <2> QED
    BY <1>1, <1>2, <2>1, <2>2 DEF WellFormed
<1>3. CASE r.kind = "delete"
  <2>1. m.kind = "delete" /\ m.prechecks = r.prechecks
    BY <1>3 DEF abstract_operation, delete_operation
  <2> QED
    BY <1>1, <2>1 DEF WellFormed
<1>4. CASE r.kind = "update"
  <2> DEFINE arg == r.concerts[1]
  <2>1. m = update_operation(r, user)
    BY <1>4 DEF abstract_operation
  <2>2. /\ m.kind = "update" /\ m.prechecks = r.prechecks /\ m.nested = (r.concerts # <<>>)
        /\ m.set # Gone.val
    BY <1>4, <2>1, RequestsAssumption DEF update_operation
  <2>3. ASSUME m.nested
        PROVE  /\ m.updates = compute_nested_update(arg, user)
               /\ m.creates = arg.create
               /\ m.deletes = compute_nested_delete(arg, user)
    <3>1. r.concerts # <<>>
      BY <2>2, <2>3
    <3> QED
      BY <2>1, <3>1 DEF update_operation
  <2>4. m.nested =>
          /\ IsSequence(arg.create) /\ IsSequence(arg.update) /\ IsSequence(arg.delete)
          /\ \A i \in DOMAIN arg.create :
               /\ arg.create[i].prechecks \in Nat /\ Forest(arg.create[i].rows, "concerts")
               /\ \A j \in DOMAIN arg.create[i].rows : Simple(arg.create[i].rows[j].pk)
    BY <1>4, <2>2, RequestsAssumption DEF Simple, OneColumnKeys
  <2>5. IsSequence(arg.update) => IsSequence(compute_nested_update(arg, user))
    <3> DEFINE f == compute_nested_update(arg, user)
    <3>1. ASSUME IsSequence(arg.update)
          PROVE  Len(arg.update) \in Nat /\ f = [i \in 1 .. Len(arg.update) |-> f[i]]
      BY <3>1 DEF IsSequence, compute_nested_update
    <3> HIDE DEF f
    <3> QED
      BY <3>1, IsSequenceOf DEF f
  <2>6. IsSequence(arg.delete) => IsSequence(compute_nested_delete(arg, user))
    <3> DEFINE f == compute_nested_delete(arg, user)
    <3>1. ASSUME IsSequence(arg.delete)
          PROVE  Len(arg.delete) \in Nat /\ f = [i \in 1 .. Len(arg.delete) |-> f[i]]
      BY <3>1 DEF IsSequence, compute_nested_delete
    <3> HIDE DEF f
    <3> QED
      BY <3>1, IsSequenceOf DEF f
  <2> HIDE DEF m, arg
  <2>7. WellFormed(m)
    BY <1>1, <2>2, <2>3, <2>4, <2>5, <2>6 DEF WellFormed
  <2> QED
    BY <2>7 DEF m
<1> QED
  BY <1>1, <1>2, <1>3, <1>4

(* The nested updates, and the nested deletes.                               *)
LEMMA NestedSteps ==
    ASSUME NEW m, m.kind = "update", m.prechecks \in Nat,
           NEW n \in Nat, NEW s, s = [i \in 1 .. n |-> s[i]],
           \A i \in 1 .. n : /\ s[i].op \in {"nestedUpdate", "nestedDelete"}
                             /\ s[i].prev = Root(m) /\ Asked(m, s[i].id, s[i].rule),
           NEW base \in Nat, Root(m) <= base
    PROVE  Steps(m, s, base) /\ Len(s) = n
<1>1. IsSequence(s) /\ Len(s) = n
  BY IsSequenceOf
<1>2. ASSUME NEW i \in 1 .. n PROVE Fits(m, s[i], base + i)
  <2>1. Root(m) < base + i /\ base + i # Root(m)
    BY DEF Root
  <2> QED
    BY <2>1 DEF Fits, Ops, Mutates
<1> QED
  BY <1>1, <1>2 DEF Steps

LEMMA UpdateSteps ==
    ASSUME NEW m, WellFormed(m), m.kind = "update", m.nested
    PROVE  Steps(m, update_script(m), 0) /\ Ends(m, update_script(m))
<1> DEFINE root == m.prechecks + 1
           prechecks == add_precheck_queries(m.prechecks)
           rootStep == [op |-> IF m.set = Unset THEN "rootSelect" ELSE "update",
                        where |-> m.where, set |-> m.set, read |-> <<>>]
           updates == [i \in DOMAIN m.updates |->
                         [op |-> "nestedUpdate", prev |-> root, id |-> m.updates[i].id,
                          val |-> m.updates[i].val, rule |-> m.updates[i].rule]]
           filter == [op |-> "filter", prev |-> root, allow |-> m.allow]
           upto == ((prechecks \o <<rootStep>>) \o updates) \o <<filter>>
           inserted == insert_scripts(upto, m.creates, Len(upto))
           deletes == [i \in DOMAIN m.deletes |->
                         [op |-> "nestedDelete", prev |-> root, id |-> m.deletes[i].id,
                          rule |-> m.deletes[i].rule]]
           last == [op |-> "selectAll", of |-> root, read |-> <<m.read>>]
<1>1. /\ m.prechecks \in Nat /\ IsSequence(m.updates) /\ IsSequence(m.creates)
      /\ IsSequence(m.deletes) /\ Mutates(m) /\ root = Root(m)
      /\ \A i \in DOMAIN m.creates :
           /\ m.creates[i].prechecks \in Nat /\ Forest(m.creates[i].rows, "concerts")
           /\ \A j \in DOMAIN m.creates[i].rows : Simple(m.creates[i].rows[j].pk)
  BY DEF WellFormed, Mutates, Root
<1>2. update_script(m) = (inserted \o deletes) \o <<last>>
  BY DEF update_script
<1>3. Steps(m, prechecks, 0) /\ Len(prechecks) = m.prechecks
  BY <1>1, PrecheckSteps
<1>4. Steps(m, <<rootStep>>, Len(prechecks)) /\ Len(<<rootStep>>) = 1
  <2>1. /\ rootStep.op \in {"rootSelect", "update"} /\ rootStep.read = <<>>
        /\ rootStep.set # Gone.val
    BY DEF WellFormed
  <2> HIDE DEF rootStep, prechecks
  <2>2. Fits(m, rootStep, Len(prechecks) + 1)
    BY <1>1, <1>3, <2>1 DEF Fits, Ops, Nests
  <2> QED
    BY <1>1, <1>3, <2>2, OneStep
<1>5. /\ Len(m.updates) \in Nat
      /\ \A base \in Nat : Root(m) <= base =>
           Steps(m, updates, base) /\ Len(updates) = Len(m.updates)
  <2>1. /\ Len(m.updates) \in Nat /\ DOMAIN m.updates = 1 .. Len(m.updates)
        /\ updates = [i \in 1 .. Len(m.updates) |-> updates[i]]
    BY <1>1 DEF IsSequence
  <2>2. ASSUME NEW i \in 1 .. Len(m.updates)
        PROVE  /\ updates[i].op \in {"nestedUpdate", "nestedDelete"}
               /\ updates[i].prev = Root(m) /\ Asked(m, updates[i].id, updates[i].rule)
    <3>1. /\ updates[i].op = "nestedUpdate" /\ updates[i].prev = root
          /\ updates[i].id = m.updates[i].id /\ updates[i].rule = m.updates[i].rule
      BY <2>1
    <3>2. m.updates[i] \in Range(m.updates)
      BY <2>1 DEF Range
    <3> HIDE DEF updates
    <3> QED
      BY <1>1, <3>1, <3>2 DEF Asked
  <2> HIDE DEF updates
  <2> QED
    BY <1>1, <2>1, <2>2, NestedSteps
<1>6. /\ Len(m.deletes) \in Nat
      /\ \A base \in Nat : Root(m) <= base =>
           Steps(m, deletes, base) /\ Len(deletes) = Len(m.deletes)
  <2>1. /\ Len(m.deletes) \in Nat /\ DOMAIN m.deletes = 1 .. Len(m.deletes)
        /\ deletes = [i \in 1 .. Len(m.deletes) |-> deletes[i]]
    BY <1>1 DEF IsSequence
  <2>2. ASSUME NEW i \in 1 .. Len(m.deletes)
        PROVE  /\ deletes[i].op \in {"nestedUpdate", "nestedDelete"}
               /\ deletes[i].prev = Root(m) /\ Asked(m, deletes[i].id, deletes[i].rule)
    <3>1. /\ deletes[i].op = "nestedDelete" /\ deletes[i].prev = root
          /\ deletes[i].id = m.deletes[i].id /\ deletes[i].rule = m.deletes[i].rule
      BY <2>1
    <3>2. m.deletes[i] \in Range(m.deletes)
      BY <2>1 DEF Range
    <3> HIDE DEF deletes
    <3> QED
      BY <1>1, <3>1, <3>2 DEF Asked
  <2> HIDE DEF deletes
  <2> QED
    BY <1>1, <2>1, <2>2, NestedSteps
<1> HIDE DEF prechecks, rootStep, updates, deletes
<1>7. Steps(m, prechecks \o <<rootStep>>, 0) /\ Len(prechecks \o <<rootStep>>) = Root(m)
  BY <1>1, <1>3, <1>4, AppendSteps
<1>8. /\ Steps(m, (prechecks \o <<rootStep>>) \o updates, 0)
      /\ Len((prechecks \o <<rootStep>>) \o updates) = Root(m) + Len(m.updates)
  <2> DEFINE head == prechecks \o <<rootStep>>
  <2> HIDE DEF head
  <2>1. Steps(m, updates, Len(head)) /\ Len(updates) = Len(m.updates)
    <3>1. Len(head) = Root(m)
      BY <1>7 DEF head
    <3>2. Root(m) \in Nat /\ Root(m) <= Root(m)
      BY <1>1 DEF Root
    <3> QED
      BY <1>5, <3>1, <3>2
  <2>2. Steps(m, head \o updates, 0) /\ Len(head \o updates) = Len(head) + Len(updates)
    <3>1. Steps(m, head, 0)
      BY <1>7 DEF head
    <3>2. Steps(m, updates, Len(head))
      BY <2>1
    <3> QED
      BY <3>1, <3>2, AppendSteps
  <2> QED
    BY <1>7, <2>1, <2>2 DEF head
<1>9. Steps(m, upto, 0) /\ Len(upto) \in Nat /\ Root(m) < Len(upto)
  <2> DEFINE s == (prechecks \o <<rootStep>>) \o updates
  <2>1. Len(s) \in Nat /\ Root(m) <= Len(s)
    BY <1>1, <1>5, <1>8
  <2>2. filter.op = "filter" /\ filter.prev = Root(m)
    BY <1>1
  <2> HIDE DEF s, filter
  <2>3. Root(m) < Len(s) + 1
    BY <1>1, <2>1
  <2>4. Fits(m, filter, Len(s) + 1)
    BY <1>1, <2>2, <2>3 DEF Fits, Ops
  <2>5. Steps(m, <<filter>>, Len(s)) /\ Len(<<filter>>) = 1
    BY <2>1, <2>4, OneStep
  <2>6. Steps(m, s \o <<filter>>, 0) /\ Len(s \o <<filter>>) = Len(s) + 1
    <3>1. Steps(m, s, 0)
      BY <1>8 DEF s
    <3> QED
      BY <2>5, <3>1, AppendSteps
  <2> QED
    BY <1>1, <2>1, <2>6 DEF s
<1> HIDE DEF upto
<1>10. Steps(m, inserted, 0) /\ Len(inserted) \in Nat /\ Root(m) <= Len(inserted)
  <2>1. Len(upto) \in 0 .. Len(upto)
    BY <1>9
  <2>2. Steps(m, inserted, 0) /\ Len(inserted) \in Nat /\ Len(upto) <= Len(inserted)
    BY <1>1, <1>9, <2>1, ManyInsertSteps
  <2> QED
    BY <1>1, <1>9, <2>2
<1> HIDE DEF inserted
<1>11. /\ Steps(m, inserted \o deletes, 0)
       /\ Len(inserted \o deletes) = Len(inserted) + Len(m.deletes)
  <2>1. Steps(m, deletes, Len(inserted)) /\ Len(deletes) = Len(m.deletes)
    BY <1>6, <1>10
  <2> QED
    BY <1>10, <2>1, AppendSteps
<1>12. /\ Steps(m, (inserted \o deletes) \o <<last>>, 0)
       /\ Ends(m, (inserted \o deletes) \o <<last>>)
  <2> DEFINE s == inserted \o deletes
  <2>1. Len(s) \in Nat /\ Root(m) <= Len(s) /\ Root(m) \in Nat \ {0}
    BY <1>1, <1>6, <1>10, <1>11
  <2>2. last.op = "selectAll" /\ last.of = Root(m) /\ last.read = <<m.read>>
    BY <1>1
  <2> HIDE DEF s, last
  <2>3. Fits(m, last, Len(s) + 1)
    <3>1. last.of \in 1 .. (Len(s) + 1) - 1 /\ Root(m) # Len(s) + 1
      BY <2>1, <2>2
    <3> QED
      BY <2>2, <3>1 DEF Fits, Ops
  <2>4. Steps(m, <<last>>, Len(s)) /\ Len(<<last>>) = 1
    BY <2>1, <2>3, OneStep
  <2>5. Steps(m, s, 0)
    BY <1>11 DEF s
  <2>6. Steps(m, s \o <<last>>, 0) /\ Len(s \o <<last>>) = Len(s) + 1
    BY <2>4, <2>5, AppendSteps
  <2>7. (s \o <<last>>)[Len(s) + 1] = last
    BY <2>4, <2>5, SequenceLast DEF Steps
  <2>8. Ends(m, s \o <<last>>)
    BY <1>1, <2>1, <2>2, <2>6, <2>7 DEF Ends, Nests
  <2> QED
    BY <2>6, <2>8 DEF s
<1> QED
  BY <1>2, <1>12

(* The last step of a create selects what the insertions of venues returned. *)
LEMMA CreateEnds ==
    ASSUME NEW m, ~Mutates(m), m.prechecks \in Nat, Forest(m.rows, "venues")
    PROVE  Ends(m, insert_script(0, m, 0, <<m.read>>))
<1> DEFINE n == m.prechecks
           rows == m.rows
           base == 0 + n
           roots == {i \in DOMAIN rows : rows[i].up = 0}
           first == add_precheck_queries(n)
           inserts == insert_row(rows, base, 0)
           last == [op |-> "selectFirst", table |-> rows[1].table, of |-> {base + i : i \in roots},
                    read |-> <<m.read>>]
           s == (first \o inserts) \o <<last>>
<1>1. /\ Len(rows) \in Nat /\ DOMAIN rows = 1 .. Len(rows) /\ base = n
      /\ \A i \in 1 .. Len(rows) :
           /\ rows[i].up \in 0 .. i - 1
           /\ IF rows[i].up = 0 THEN rows[i].table = "venues" ELSE rows[i].table # "venues"
  BY DEF Forest, IsSequence
<1>2. insert_script(0, m, 0, <<m.read>>) = s
  BY DEF insert_script
<1>3. /\ IsSequence(first) /\ Len(first) = n
      /\ \A i \in 1 .. n : first[i].op = "precheck"
  <2>1. first = [i \in 1 .. n |-> [op |-> "precheck"]]
    BY DEF add_precheck_queries
  <2> QED
    BY <2>1, IsSequenceOf
<1>4. /\ IsSequence(inserts) /\ Len(inserts) = Len(rows)
      /\ \A i \in 1 .. Len(rows) : inserts[i].op = "insert" /\ inserts[i].table = rows[i].table
  <2>1. /\ inserts = [i \in 1 .. Len(rows) |-> inserts[i]]
        /\ \A i \in 1 .. Len(rows) : inserts[i].op = "insert" /\ inserts[i].table = rows[i].table
    BY <1>1 DEF insert_row
  <2> HIDE DEF inserts
  <2> QED
    BY <1>1, <2>1, IsSequenceOf
<1>5. /\ last.op = "selectFirst" /\ last.of = {n + i : i \in roots} /\ last.table = rows[1].table
      /\ last.read = <<m.read>>
  BY <1>1
<1> HIDE DEF first, inserts, last
<1>6. /\ IsSequence(first \o inserts) /\ Len(first \o inserts) = n + Len(rows)
      /\ \A i \in 1 .. n : (first \o inserts)[i] = first[i]
      /\ \A i \in 1 .. Len(rows) : (first \o inserts)[n + i] = inserts[i]
  <2>1. /\ IsSequence(first \o inserts) /\ Len(first \o inserts) = Len(first) + Len(inserts)
        /\ \A i \in 1 .. Len(first) : (first \o inserts)[i] = first[i]
        /\ \A i \in 1 .. Len(inserts) : (first \o inserts)[Len(first) + i] = inserts[i]
    <3>1. IsSequence(first) /\ IsSequence(inserts)
      BY <1>3, <1>4
    <3> QED
      BY <3>1, SequenceConcat
  <2>2. Len(first) = n /\ Len(inserts) = Len(rows)
    BY <1>3, <1>4
  <2> HIDE DEF n, rows
  <2> QED
    BY <2>1, <2>2, Zenon
<1> DEFINE both == first \o inserts
<1> HIDE DEF both
<1>7. /\ Len(s) = (n + Len(rows)) + 1 /\ s[Len(s)] = last
      /\ \A i \in 1 .. n + Len(rows) : s[i] = both[i]
  <2>1. IsSequence(both) /\ Len(both) = n + Len(rows)
    BY <1>6 DEF both
  <2>2. <<last>> = [i \in 1 .. 1 |-> <<last>>[i]]
    OBVIOUS
  <2>3. IsSequence(<<last>>) /\ Len(<<last>>) = 1
    BY <2>2, IsSequenceOf
  <2>4. /\ Len(both \o <<last>>) = Len(both) + 1
        /\ \A i \in 1 .. Len(both) : (both \o <<last>>)[i] = both[i]
    BY <2>1, <2>3, SequenceConcat
  <2>5. (both \o <<last>>)[Len(both) + 1] = last
    BY <2>1, SequenceLast
  <2> QED
    BY <2>1, <2>4, <2>5 DEF both
<1>8. /\ \A i \in 1 .. n : s[i].op = "precheck"
      /\ \A i \in 1 .. Len(rows) : s[n + i] = inserts[i]
  <2>1. ASSUME NEW i \in 1 .. n PROVE s[i].op = "precheck"
    <3>1. i \in 1 .. n + Len(rows)
      BY <1>1
    <3>2. s[i] = first[i]
      BY <1>6, <1>7, <3>1 DEF both
    <3> QED
      BY <1>3, <3>2
  <2>2. ASSUME NEW i \in 1 .. Len(rows) PROVE s[n + i] = inserts[i]
    <3>1. n + i \in 1 .. n + Len(rows)
      BY <1>1
    <3> QED
      BY <1>6, <1>7, <3>1 DEF both
  <2> QED
    BY <2>1, <2>2
<1> HIDE DEF s
<1>9. VenueInserts(s) = {n + i : i \in roots}
  <2>1. ASSUME NEW j \in VenueInserts(s) PROVE j \in {n + i : i \in roots}
    <3>1. j \in 1 .. Len(s) /\ s[j].op = "insert" /\ s[j].table = "venues"
      BY DEF VenueInserts
    <3>2. j # Len(s) /\ j \notin 1 .. n
      BY <1>5, <1>7, <1>8, <3>1
    <3>3. PICK i \in 1 .. Len(rows) : n + i = j
      <4>1. j - n \in 1 .. Len(rows) /\ n + (j - n) = j
        BY <1>1, <1>7, <3>1, <3>2
      <4> QED
        BY <4>1
    <3>4. rows[i].table = "venues"
      BY <1>4, <1>8, <3>1, <3>3
    <3>5. rows[i].up = 0
      BY <1>1, <3>4
    <3> QED
      BY <1>1, <3>3, <3>5
  <2>2. ASSUME NEW i \in roots PROVE n + i \in VenueInserts(s)
    <3>1. i \in 1 .. Len(rows) /\ n + i \in 1 .. Len(s)
      BY <1>1, <1>7, SMTT(20)
    <3>2. s[n + i].op = "insert" /\ s[n + i].table = "venues"
      <4>1. s[n + i].op = "insert" /\ s[n + i].table = rows[i].table
        BY <1>4, <1>8, <3>1
      <4> QED
        BY <1>1, <3>1, <4>1
    <3> QED
      BY <3>1, <3>2 DEF VenueInserts
  <2> QED
    BY <2>1, <2>2
<1>10. last.of # {} => last.table = "venues"
  <2> SUFFICES ASSUME last.of # {} PROVE rows[1].table = "venues"
    BY <1>5
  <2>1. 1 \in 1 .. Len(rows)
    BY <1>1, <1>5
  <2>2. rows[1].up = 0
    BY <1>1, <2>1
  <2> QED
    BY <1>1, <2>1, <2>2
<1>11. Ends(m, s)
  <2>1. Len(s) \in Nat \ {0}
    BY <1>1, <1>7
  <2>2. /\ s[Len(s)] = last /\ last.op = "selectFirst" /\ last.of = VenueInserts(s)
        /\ last.read = <<m.read>>
    BY <1>5, <1>7, <1>9
  <2> QED
    BY <1>10, <2>1, <2>2 DEF Ends
<1> QED
  BY <1>2, <1>11

LEMMA ScriptFits ==
    ASSUME NEW m, WellFormed(m)
    PROVE  Steps(m, to_transaction_script(m), 0) /\ Ends(m, to_transaction_script(m))
<1> DEFINE prechecks == add_precheck_queries(m.prechecks)
<1>1. m.kind \in {"create", "update", "delete"} /\ m.prechecks \in Nat
  BY DEF WellFormed
<1>2. CASE m.kind = "create"
  <2>1. to_transaction_script(m) = insert_script(0, m, 0, <<m.read>>)
    BY <1>2 DEF to_transaction_script
  <2>2. /\ Forest(m.rows, "venues") /\ ~Mutates(m)
        /\ \A i \in DOMAIN m.rows : Simple(m.rows[i].pk)
    BY <1>2 DEF WellFormed, Mutates
  <2>3. 0 \in Nat /\ 0 \in 0 .. 0
    OBVIOUS
  <2>4. Steps(m, insert_script(0, m, 0, <<m.read>>), 0)
    BY <1>1, <2>2, <2>3, InsertSteps
  <2>5. Ends(m, insert_script(0, m, 0, <<m.read>>))
    BY <1>1, <2>2, CreateEnds
  <2> QED
    BY <2>1, <2>4, <2>5
<1>3. CASE m.kind = "update" /\ m.nested
  <2>1. to_transaction_script(m) = update_script(m)
    BY <1>3 DEF to_transaction_script
  <2> QED
    BY <1>3, <2>1, UpdateSteps
<1>4. ASSUME Mutates(m), ~Nests(m), NEW step, step.op \in {"update", "delete"},
             m.kind = "delete" <=> step.op = "delete", step.read = <<m.read>>,
             step.op = "update" => step.set # Gone.val
      PROVE  Steps(m, prechecks \o <<step>>, 0) /\ Ends(m, prechecks \o <<step>>)
  <2>1. Steps(m, prechecks, 0) /\ Len(prechecks) = m.prechecks
    <3>1. 0 + m.prechecks <= m.prechecks
      BY <1>1
    <3> QED
      BY <1>1, <3>1, PrecheckSteps
  <2>2. Fits(m, step, Len(prechecks) + 1)
    BY <1>1, <1>4, <2>1 DEF Fits, Ops, Root
  <2>3. Steps(m, <<step>>, Len(prechecks)) /\ Len(<<step>>) = 1
    BY <1>1, <2>1, <2>2, OneStep
  <2> HIDE DEF prechecks
  <2>4. Steps(m, prechecks \o <<step>>, 0) /\ Len(prechecks \o <<step>>) = Len(prechecks) + 1
    BY <2>1, <2>3, AppendSteps
  <2>5. Ends(m, prechecks \o <<step>>)
    BY <1>1, <1>4, <2>1, <2>4 DEF Ends, Root
  <2> QED
    BY <2>4, <2>5
<1>5. CASE m.kind = "update" /\ ~m.nested
  <2> DEFINE step == [op |-> "update", where |-> m.where, set |-> m.set, read |-> <<m.read>>]
  <2>1. to_transaction_script(m) = prechecks \o <<step>>
    BY <1>5 DEF to_transaction_script
  <2>2. /\ step.op = "update" /\ Mutates(m) /\ ~Nests(m) /\ m.kind # "delete"
        /\ step.read = <<m.read>> /\ step.set # Gone.val
    BY <1>5 DEF Mutates, Nests, WellFormed
  <2> HIDE DEF step, prechecks
  <2> QED
    BY <1>4, <2>1, <2>2
<1>6. CASE m.kind = "delete"
  <2> DEFINE step == [op |-> "delete", where |-> m.where, read |-> <<m.read>>]
  <2>1. to_transaction_script(m) = prechecks \o <<step>>
    BY <1>6 DEF to_transaction_script
  <2>2. /\ step.op = "delete" /\ Mutates(m) /\ ~Nests(m) /\ m.kind = "delete"
        /\ step.read = <<m.read>>
    BY <1>6 DEF Mutates, Nests
  <2> HIDE DEF step, prechecks
  <2> QED
    BY <1>4, <2>1, <2>2
<1> QED
  BY <1>1, <1>2, <1>3, <1>5, <1>6

-----------------------------------------------------------------------------
(* The statements                                                            *)

LEMMA StatementsCome ==
    ASSUME NEW c \in Clients, Scripted(c), Resulted(c),
           NEW n, n = Len(results[c]) + 1, n <= Len(script[c])
    PROVE  LET statements == resolve(script[c][n], results[c]) IN
           /\ IsSequence(statements)
           /\ \A j \in 1 .. Len(statements) : Comes(mutation[c], statements[j], n, matched[c])
<1> DEFINE m == mutation[c]
           step == script[c][n]
           rs == results[c]
           statements == resolve(step, rs)
<1>1. /\ n \in 1 .. Len(script[c]) /\ n \in Nat /\ Len(rs) = n - 1
      /\ Fits(m, step, n)
      /\ Mutates(m) => m.prechecks \in Nat
  <2>1. Len(rs) \in Nat /\ Len(script[c]) \in Nat
    BY DEF Scripted, Resulted, Steps, IsSequence
  <2>2. n \in 1 .. Len(script[c]) /\ n \in Nat /\ Len(rs) = n - 1 /\ 0 + n = n
    BY <2>1
  <2>3. Fits(m, step, 0 + n)
    BY <2>2 DEF Scripted, Steps
  <2> QED
    BY <2>2, <2>3 DEF Scripted
<1>2. \A i \in 1 .. n - 1 : IsSequence(rs[i])
  BY <1>1 DEF Resulted
<1> HIDE DEF m, step, rs
<1> SUFFICES /\ IsSequence(statements)
             /\ \A j \in 1 .. Len(statements) : Comes(m, statements[j], n, matched[c])
  BY DEF m, step, rs
<1>3. ASSUME NEW s, statements = <<s>>, Comes(m, s, n, matched[c])
      PROVE  /\ IsSequence(statements)
             /\ \A j \in 1 .. Len(statements) : Comes(m, statements[j], n, matched[c])
  <2> HIDE DEF statements
  <2>1. <<s>> = [i \in 1 .. 1 |-> <<s>>[i]] /\ <<s>>[1] = s
    OBVIOUS
  <2>2. IsSequence(<<s>>) /\ Len(<<s>>) = 1
    BY <2>1, IsSequenceOf
  <2> QED
    BY <1>3, <2>1, <2>2
<1>4. CASE step.op \in {"nestedUpdate", "nestedDelete"}
  <2> DEFINE prev == rs[Root(m)]
             Statement(j) == [do |-> step.op, key |-> <<"concerts", step.id>>, rule |-> step.rule,
                              up |-> <<"venues", prev[j]>>,
                              val |-> IF step.op = "nestedUpdate" THEN step.val ELSE "gone"]
  <2>1. /\ Mutates(m) /\ step.prev = Root(m) /\ Root(m) < n /\ Asked(m, step.id, step.rule)
        /\ n # Root(m)
    BY <1>1, <1>4 DEF Fits, Root
  <2>2. Root(m) \in 1 .. n - 1
    BY <1>1, <2>1 DEF Root
  <2>3. Len(prev) \in Nat /\ DOMAIN prev = 1 .. Len(prev)
    BY <1>2, <2>2 DEF IsSequence
  <2>4. \A k \in Range(prev) : <<"venues", k>> \in matched[c]
    <3>1. Root(m) <= Len(rs)
      BY <1>1, <2>2
    <3>2. Mutates(m) /\ Root(m) <= Len(rs) => \A k \in Range(prev) : <<"venues", k>> \in matched[c]
      BY Zenon DEF Resulted, m, rs
    <3> QED
      BY <2>1, <3>1, <3>2
  <2>5. statements = [j \in 1 .. Len(prev) |-> Statement(j)]
    BY <1>4, <2>1, <2>3 DEF resolve
  <2> HIDE DEF statements
  <2>6. IsSequence(statements) /\ Len(statements) = Len(prev)
    <3>1. statements = [j \in 1 .. Len(prev) |-> statements[j]]
      BY <2>5
    <3> QED
      BY <2>3, <3>1, IsSequenceOf
  <2>7. ASSUME NEW j \in 1 .. Len(prev) PROVE Comes(m, statements[j], n, matched[c])
    <3>1. statements[j] = Statement(j)
      BY <2>5
    <3>2. prev[j] \in Range(prev)
      BY <2>3 DEF Range
    <3>3. /\ Statement(j).do = step.op /\ Statement(j).up = <<"venues", prev[j]>>
          /\ Statement(j).key[1] = "concerts" /\ Statement(j).key[2] = step.id
          /\ Statement(j).rule = step.rule
      OBVIOUS
    <3> HIDE DEF Statement
    <3> QED
      BY <1>4, <2>1, <2>4, <3>1, <3>2, <3>3 DEF Comes
  <2> QED
    BY <2>6, <2>7
<1>5. CASE step.op = "filter"
  <2> DEFINE s == [do |-> "filter", keys |-> Range(rs[step.prev]), allow |-> step.allow]
  <2>1. statements = <<s>>
    BY <1>5 DEF resolve
  <2>2. s.do = "filter" /\ ~(Mutates(m) /\ n = Root(m))
    BY <1>1, <1>5 DEF Fits
  <2> HIDE DEF s, statements
  <2>3. Comes(m, s, n, matched[c])
    BY <2>2 DEF Comes
  <2> QED
    BY <1>3, <2>1, <2>3
<1>6. CASE step.op = "insert" /\ step.prev = 0
  <2> DEFINE s == [do |-> "insert", table |-> step.table, pk |-> step.pk, val |-> step.val,
                   ups |-> <<<<>>>>]
  <2>1. statements = <<s>>
    BY <1>6 DEF resolve
  <2>2. /\ s.do = "insert" /\ s.ups = <<<<>>>> /\ Len(s.ups) = 1 /\ ~(Mutates(m) /\ n = Root(m))
        /\ Simple(s.pk) /\ (s.table = "venues" => ~Mutates(m))
    BY <1>1, <1>6 DEF Fits
  <2>3. IsSequence(<<<<>>>>)
    <3>1. <<<<>>>> = [i \in 1 .. 1 |-> <<<<>>>>[i]]
      OBVIOUS
    <3> QED
      BY <3>1, IsSequenceOf
  <2> HIDE DEF s, statements
  <2>4. Comes(m, s, n, matched[c])
    BY <2>2, <2>3 DEF Comes
  <2> QED
    BY <1>3, <2>1, <2>4
<1>7. CASE step.op = "insert" /\ step.prev # 0
  <2> DEFINE prev == rs[step.prev]
             ups == [j \in DOMAIN prev |-> <<ParentTable(step.table), prev[j]>>]
             s == [do |-> "insert", table |-> step.table, pk |-> step.pk, val |-> step.val,
                   ups |-> ups]
  <2>1. statements = IF prev = <<>> THEN <<>> ELSE <<s>>
    BY <1>7 DEF resolve
  <2>2. /\ step.prev \in 1 .. n - 1 /\ ~(Mutates(m) /\ n = Root(m))
        /\ Simple(step.pk) /\ step.table # "venues"
    BY <1>1, <1>7 DEF Fits
  <2>3. IsSequence(ups)
    <3>1. Len(prev) \in Nat /\ ups = [j \in 1 .. Len(prev) |-> ups[j]]
      BY <1>2, <2>2 DEF IsSequence
    <3> HIDE DEF ups
    <3> QED
      BY <3>1, IsSequenceOf
  <2>4. s.do = "insert" /\ s.ups = ups /\ s.pk = step.pk /\ s.table = step.table
    OBVIOUS
  <2> HIDE DEF s, ups, statements
  <2>5. Comes(m, s, n, matched[c])
    BY <2>2, <2>3, <2>4 DEF Comes
  <2>6. CASE prev = <<>>
    <3>1. <<>> \in Seq({}) /\ Len(<<>>) = 0
      BY EmptySeq
    <3>2. IsSequence(<<>>)
      BY <3>1, SeqIsSequence
    <3> QED
      BY <2>1, <2>6, <3>1, <3>2
  <2>7. CASE prev # <<>>
    BY <1>3, <2>1, <2>5, <2>7
  <2> QED
    BY <2>6, <2>7
<1>8. CASE step.op = "selectFirst"
  <2> DEFINE s == [do |-> "select", table |-> step.table, keys |-> {rs[i][1] : i \in step.of},
                   read |-> step.read]
  <2>1. statements = <<s>>
    BY <1>8 DEF resolve
  <2>2. s.do = "select" /\ ~(Mutates(m) /\ n = Root(m))
    BY <1>1, <1>8 DEF Fits
  <2> HIDE DEF s, statements
  <2>3. Comes(m, s, n, matched[c])
    BY <2>2 DEF Comes
  <2> QED
    BY <1>3, <2>1, <2>3
<1>9. CASE step.op = "selectAll"
  <2> DEFINE s == [do |-> "select", table |-> "venues", keys |-> Range(rs[step.of]),
                   read |-> step.read]
  <2>1. statements = <<s>>
    BY <1>9 DEF resolve
  <2>2. s.do = "select" /\ ~(Mutates(m) /\ n = Root(m))
    BY <1>1, <1>9 DEF Fits
  <2> HIDE DEF s, statements
  <2>3. Comes(m, s, n, matched[c])
    BY <2>2 DEF Comes
  <2> QED
    BY <1>3, <2>1, <2>3
<1>10. CASE step.op = "precheck"
  <2> DEFINE s == [do |-> "precheck"]
  <2>1. statements = <<s>>
    BY <1>10 DEF resolve
  <2>2. s.do = "precheck" /\ ~(Mutates(m) /\ n = Root(m))
    BY <1>1, <1>10 DEF Fits
  <2> HIDE DEF s, statements
  <2>3. Comes(m, s, n, matched[c])
    BY <2>2 DEF Comes
  <2> QED
    BY <1>3, <2>1, <2>3
<1>11. CASE step.op \in {"rootSelect", "delete"}
  <2> DEFINE s == [do |-> step.op, where |-> step.where, read |-> step.read]
  <2>1. statements = <<s>>
    BY <1>11 DEF resolve
  <2>2. s.do = step.op /\ Mutates(m) /\ n = Root(m)
    BY <1>1, <1>11 DEF Fits
  <2> HIDE DEF s, statements
  <2>3. Comes(m, s, n, matched[c])
    BY <1>11, <2>2 DEF Comes
  <2> QED
    BY <1>3, <2>1, <2>3
<1>12. CASE step.op = "update"
  <2> DEFINE s == [do |-> "update", where |-> step.where, set |-> step.set, read |-> step.read]
  <2>1. statements = <<s>>
    BY <1>12 DEF resolve
  <2>2. s.do = "update" /\ Mutates(m) /\ n = Root(m)
    BY <1>1, <1>12 DEF Fits
  <2> HIDE DEF s, statements
  <2>3. Comes(m, s, n, matched[c])
    BY <2>2 DEF Comes
  <2> QED
    BY <1>3, <2>1, <2>3
<1>13. step.op \in Ops
  BY <1>1 DEF Fits
<1> HIDE DEF statements
<1> QED
  BY <1>4, <1>5, <1>6, <1>7, <1>8, <1>9, <1>10, <1>11, <1>12, <1>13 DEF Ops

LEMMA SingleStatement ==
    ASSUME NEW step, NEW rs, step.op \in Ops, step.op \notin {"nestedUpdate", "nestedDelete"},
           resolve(step, rs) # <<>>
    PROVE  Len(resolve(step, rs)) = 1
<1>1. \E s : resolve(step, rs) = <<s>>
  BY DEF resolve, Ops
<1>2. \A s : Len(<<s>>) = 1
  OBVIOUS
<1> QED
  BY <1>1, <1>2, Zenon

LEMMA NestedStatements ==
    ASSUME NEW step, NEW rs, step.op \in {"nestedUpdate", "nestedDelete"}
    PROVE  \A j \in DOMAIN resolve(step, rs) : resolve(step, rs)[j].do = step.op
  BY DEF resolve

LEMMA SetToSeqIsSequence ==
    ASSUME NEW S, IsFiniteSet(S)
    PROVE  IsSequence(SetToSeq(S)) /\ Range(SetToSeq(S)) = S
<1> DEFINE n == Cardinality(S)
           f == SetToSeq(S)
<1>1. n \in Nat /\ ExistsBijection(1 .. n, S)
  BY FS_CardinalityType
<1>2. PICK g \in [1 .. n -> S] : IsInjective(g)
  BY <1>1 DEF ExistsBijection, Bijection, Injection
<1>3. f \in [1 .. n -> S] /\ IsInjective(f)
  <2> HIDE DEF n
  <2>1. \E h \in [1 .. n -> S] : IsInjective(h)
    BY <1>2
  <2> QED
    BY <2>1, Zenon DEF SetToSeq, n
<1> HIDE DEF f, n
<1>4. IsSequence(f)
  <2>1. f = [i \in 1 .. n |-> f[i]]
    BY <1>3
  <2> QED
    BY <1>1, <2>1, IsSequenceOf
<1>5. f \in Surjection(1 .. n, S)
  <2>1. f \in Injection(1 .. n, S)
    BY <1>3 DEF Injection
  <2>2. Cardinality(1 .. n) = n
    BY <1>1, FS_Interval
  <2> QED
    BY <2>1, <2>2, FS_Injection DEF n
<1>6. Range(f) = S
  BY <1>3, <1>5 DEF Surjection, Range
<1> QED
  BY <1>4, <1>6 DEF f

(* What a statement returns is a list of keys.                               *)
LEMMA SelectedIsFinite ==
    ASSUME TableInv, NEW c \in Clients, NEW s
    PROVE  IsFiniteSet(Selected(c, s))
<1>1. ASSUME NEW T, T \subseteq Live(c)
      PROVE  IsFiniteSet({k[2] : k \in T})
  <2> DEFINE f == [k \in T |-> k[2]]
  <2>1. IsFiniteSet(T)
    BY <1>1, CurrentIsFinite, FS_Subset
  <2>2. DOMAIN f = T /\ Range(f) = {k[2] : k \in T}
    BY DEF Range
  <2> HIDE DEF f
  <2> QED
    BY <2>1, <2>2, RangeIsFinite
<1>2. CASE s.do = "filter"
  <2> DEFINE T == {v \in Venues(c, s.allow) : EqAny(v[2], s.keys)}
  <2>1. T \subseteq Live(c)
    BY DEF Venues
  <2>2. Selected(c, s) = {k[2] : k \in T}
    BY <1>2 DEF Selected
  <2> QED
    BY <1>1, <2>1, <2>2
<1>3. CASE s.do = "select"
  <2> DEFINE T == {l \in Live(c) : /\ l[1] = s.table /\ EqAny(l[2], s.keys)
                                  /\ Readable(s.read, Current(c)[l].val)}
  <2>1. T \subseteq Live(c)
    OBVIOUS
  <2>2. Selected(c, s) = {k[2] : k \in T}
    BY <1>3 DEF Selected
  <2> QED
    BY <1>1, <2>1, <2>2
<1>4. CASE s.do \notin {"filter", "select"}
  <2> DEFINE T == {v \in Venues(c, s.where) :
                     Readable(s.read, IF s.do = "update" THEN s.set ELSE Current(c)[v].val)}
  <2>1. T \subseteq Live(c)
    BY DEF Venues
  <2>2. Selected(c, s) = {k[2] : k \in T}
    BY <1>4 DEF Selected
  <2> QED
    BY <1>1, <2>1, <2>2
<1> QED
  BY <1>2, <1>3, <1>4

LEMMA ReturnedIsSequence ==
    ASSUME TableInv, NEW c \in Clients, NEW s, s.do = "insert" => IsSequence(s.ups)
    PROVE  IsSequence(Returned(c, s))
<1>1. CASE s.do \in {"nestedUpdate", "nestedDelete"}
  <2>1. Returned(c, s) = <<>> /\ <<>> \in Seq({})
    BY <1>1 DEF Returned
  <2> QED
    BY <2>1, SeqIsSequence
<1>2. CASE s.do = "insert"
  <2> DEFINE rows == [j \in DOMAIN s.ups |-> NewKeys(s)[j][2]]
  <2>1. Len(s.ups) \in Nat /\ rows = [j \in 1 .. Len(s.ups) |-> rows[j]]
    BY <1>2 DEF IsSequence
  <2>2. Returned(c, s) = rows
    BY <1>2 DEF Returned
  <2> HIDE DEF rows
  <2> QED
    BY <2>1, <2>2, IsSequenceOf
<1>3. CASE s.do \notin {"nestedUpdate", "nestedDelete", "insert"}
  <2>1. Returned(c, s) = SetToSeq(Selected(c, s))
    BY <1>3 DEF Returned
  <2> QED
    BY <2>1, SelectedIsFinite, SetToSeqIsSequence
<1> QED
  BY <1>1, <1>2, <1>3

-----------------------------------------------------------------------------
(* The actions                                                               *)

(* Only c moves.                                                             *)
LEMMA OnlyOneMoves ==
    ASSUME ScriptInv, Domains', NEW c \in Clients,
           \A d \in Clients : d # c =>
               /\ at'[d] = at[d] /\ mutation'[d] = mutation[d] /\ script'[d] = script[d]
               /\ results'[d] = results[d] /\ pending'[d] = pending[d]
               /\ matched'[d] = matched[d] /\ admitted'[d] = admitted[d],
           Scripted(c)', Resulted(c)', Running(c)'
    PROVE  ScriptInv'
<1>1. ASSUME NEW d \in Clients, d # c
      PROVE  (Scripted(d) /\ Resulted(d) /\ Running(d))'
  <2>1. Scripted(d) /\ Resulted(d) /\ Running(d)
    BY DEF ScriptInv
  <2>2. /\ at'[d] = at[d] /\ mutation'[d] = mutation[d] /\ script'[d] = script[d]
        /\ results'[d] = results[d] /\ pending'[d] = pending[d]
        /\ matched'[d] = matched[d] /\ admitted'[d] = admitted[d]
    BY <1>1
  <2>3. Scripted(d)'
    BY <2>1, <2>2, Zenon DEF Scripted
  <2>4. Resulted(d)'
    BY <2>1, <2>2, Zenon DEF Resulted
  <2>5. Running(d)'
    BY <2>1, <2>2, ZenonT(40) DEF Running, Pending, CurrentStep
  <2> QED
    BY <2>3, <2>4, <2>5
<1> QED
  BY <1>1 DEF ScriptInv

(* The empty script and results of a request that has not started or is over.*)
LEMMA NothingIsScripted ==
    ASSUME NEW m, ~Mutates(m)
    PROVE  Steps(m, <<>>, 0) /\ IsSequence(<<>>) /\ Len(<<>>) = 0
<1>1. <<>> \in Seq({}) /\ Len(<<>>) = 0
  BY EmptySeq
<1>2. IsSequence(<<>>)
  BY <1>1, SeqIsSequence
<1> QED
  BY <1>1, <1>2 DEF Steps

LEMMA ReceiveKeeps ==
    ASSUME ScriptInv, NEW c \in Clients, receive(c)
    PROVE  ScriptInv'
<1>1. PICK r \in Requests, user \in Users :
        LET m == abstract_operation(r, user) IN
        /\ mutation' = [mutation EXCEPT ![c] = m]
        /\ script' = [script EXCEPT ![c] = to_transaction_script(m)]
  BY DEF receive
<1> DEFINE m == abstract_operation(r, user)
<1>2. /\ at' = [at EXCEPT ![c] = "next"]
      /\ results' = results /\ pending' = pending /\ matched' = matched /\ admitted' = admitted
      /\ work' = work
  BY DEF receive
<1>3. WellFormed(m) /\ Steps(m, to_transaction_script(m), 0)
  BY AbstractOperationIsWellFormed, ScriptFits
<1> HIDE DEF m
<1>4. /\ mutation' = [mutation EXCEPT ![c] = m]
      /\ script' = [script EXCEPT ![c] = to_transaction_script(m)]
  BY <1>1 DEF m
<1>5. Domains'
  BY <1>2, <1>4 DEF ScriptInv, Domains
<1>6. mutation'[c] = m /\ script'[c] = to_transaction_script(m) /\ at'[c] = "next"
  BY <1>2, <1>4 DEF ScriptInv, Domains
<1>7. Scripted(c)'
  BY <1>3, <1>6 DEF Scripted, WellFormed
<1>8. Resulted(c)'
  <2>1. Len(results'[c]) = 0 /\ IsSequence(results'[c])
    <3>1. results[c] = <<>> /\ IsSequence(results[c])
      BY DEF receive, ScriptInv, Running, Resulted
    <3> QED
      BY <1>2, <3>1, EmptySeq
  <2>2. Len(script'[c]) \in Nat /\ Root(m) \in Nat \ {0}
    BY <1>3, <1>6 DEF Steps, IsSequence, Root, WellFormed
  <2> QED
    BY <1>6, <2>1, <2>2 DEF Resulted
<1>9. Running(c)'
  BY <1>2, <1>6 DEF ScriptInv, Running
<1> QED
  BY <1>2, <1>4, <1>5, <1>7, <1>8, <1>9, OnlyOneMoves

(* A request that only changes where it is, to an end.                       *)
LEMMA StopKeeps ==
    ASSUME ScriptInv, NEW c \in Clients, NEW where, where \in {"failed", "panicked"},
           at' = [at EXCEPT ![c] = where],
           UNCHANGED <<mutation, script, results, pending, work, matched, admitted>>
    PROVE  ScriptInv'
<1>1. at'[c] = where /\ Domains'
  BY DEF ScriptInv, Domains
<1>2. Scripted(c) /\ Resulted(c) /\ Running(c)
  BY DEF ScriptInv
<1>3. Scripted(c)'
  BY <1>2 DEF Scripted
<1>4. Resulted(c)'
  BY <1>2 DEF Resulted
<1>5. Running(c)'
  BY <1>1, <1>2 DEF Running
<1> QED
  BY <1>1, <1>3, <1>4, <1>5, OnlyOneMoves

LEMMA NextStepKeeps ==
    ASSUME ScriptInv, NEW c \in Clients, next_step(c)
    PROVE  ScriptInv'
<1> DEFINE n == Len(results[c]) + 1
           statements == resolve(script[c][n], results[c])
<1>1. /\ at[c] = "next" /\ n <= Len(script[c])
      /\ pending' = [pending EXCEPT ![c] = statements]
      /\ results' = [results EXCEPT ![c] = IF statements = <<>> THEN Append(@, <<>>) ELSE @]
      /\ at' = [at EXCEPT ![c] = IF statements = <<>> THEN "next" ELSE "run"]
      /\ mutation' = mutation /\ script' = script /\ work' = work
      /\ matched' = matched /\ admitted' = admitted
  BY DEF next_step
<1>2. Domains' /\ pending'[c] = statements
  BY <1>1 DEF ScriptInv, Domains
<1>3. Scripted(c) /\ Resulted(c) /\ Running(c) /\ Scripted(c)'
  BY <1>1 DEF ScriptInv, Scripted
<1>4. /\ IsSequence(statements)
      /\ \A j \in 1 .. Len(statements) : Comes(mutation[c], statements[j], n, matched[c])
  BY <1>1, <1>3, StatementsCome
<1>5. IsSequence(results[c]) /\ Len(results[c]) \in Nat /\ Len(script[c]) \in Nat
  BY <1>3 DEF Scripted, Resulted, Steps, IsSequence
<1> HIDE DEF statements
<1>6. CASE statements = <<>>
  <2>1. results'[c] = Append(results[c], <<>>) /\ at'[c] = "next"
    BY <1>1, <1>6 DEF ScriptInv, Domains
  <2>2. /\ IsSequence(results'[c]) /\ Len(results'[c]) = Len(results[c]) + 1
        /\ \A i \in 1 .. Len(results[c]) : results'[c][i] = results[c][i]
        /\ results'[c][n] = <<>>
    BY <1>5, <2>1, SequenceAppend
  <2>3. Range(<<>>) = {} /\ IsSequence(<<>>)
    BY <1>4, <1>6 DEF Range
  <2>4. ASSUME NEW i \in 1 .. Len(results'[c]) PROVE IsSequence(results'[c][i])
    <3>1. i \in 1 .. Len(results[c]) \/ i = n
      BY <1>5, <2>2
    <3> QED
      BY <1>3, <2>2, <2>3, <3>1 DEF Resulted
  <2>5. ASSUME Mutates(mutation[c]), Root(mutation[c]) <= Len(results'[c]),
               NEW k \in Range(results'[c][Root(mutation[c])])
        PROVE  <<"venues", k>> \in matched[c]
    <3>1. Root(mutation[c]) \in Nat \ {0}
      BY <1>3, <2>5 DEF Scripted, Root
    <3>2. Root(mutation[c]) # n
      BY <2>2, <2>3, <2>5
    <3>3. Root(mutation[c]) \in 1 .. Len(results[c])
      BY <1>5, <2>2, <2>5, <3>1, <3>2
    <3> QED
      BY <1>3, <2>2, <2>5, <3>3 DEF Resulted
  <2>6. Resulted(c)'
    BY <1>1, <1>5, <2>2, <2>4, <2>5 DEF Resulted
  <2>7. Running(c)'
    BY <1>1, <1>3, <2>1 DEF Running
  <2> QED
    BY <1>1, <1>2, <1>3, <2>6, <2>7, OnlyOneMoves
<1>7. CASE statements # <<>>
  <2>1. (\A d \in Clients : results'[d] = results[d]) /\ at'[c] = "run"
    BY <1>1, <1>7 DEF ScriptInv, Domains
  <2>2. Resulted(c)'
    BY <1>1, <1>3, <2>1 DEF Resulted
  <2>3. Len(results[c]) < Len(script[c])
    BY <1>1, <1>5
  <2>4. Pending(c)'
    BY <1>1, <1>2, <2>1 DEF Pending, CurrentStep, statements
  <2>5. Running(c)'
    BY <1>1, <1>2, <1>3, <1>4, <1>7, <2>1, <2>3, <2>4 DEF Running
  <2> QED
    BY <1>1, <1>2, <1>3, <2>2, <2>5, OnlyOneMoves
<1> QED
  BY <1>6, <1>7

(* The end of a statement.                                                   *)
LEMMA DoneKeeps ==
    ASSUME ScriptInv, NEW c \in Clients, at[c] = "run", NEW rows, IsSequence(rows), Done(c, rows),
           mutation' = mutation, script' = script, DOMAIN work' = Clients,
           DOMAIN matched' = Clients, DOMAIN admitted' = Clients,
           \A d \in Clients : d # c => matched'[d] = matched[d] /\ admitted'[d] = admitted[d],
           matched[c] \subseteq matched'[c], admitted'[c] \subseteq matched'[c],
           Mutates(mutation[c]) /\ Len(results[c]) + 1 = Root(mutation[c]) =>
               \A k \in Range(rows) : <<"venues", k>> \in matched'[c]
    PROVE  ScriptInv'
<1> DEFINE n == Len(results[c]) + 1
           m == mutation[c]
<1>1. Scripted(c) /\ Resulted(c) /\ Running(c) /\ Domains
  BY DEF ScriptInv
<1>2. /\ IsSequence(pending[c]) /\ pending[c] # <<>> /\ Len(results[c]) < Len(script[c])
      /\ \A j \in 1 .. Len(pending[c]) : Comes(m, pending[c][j], n, matched[c])
  BY <1>1 DEF Running
<1>3. /\ pending' = [pending EXCEPT ![c] = Tail(@)]
      /\ results' = [results EXCEPT ![c] = IF Len(pending[c]) = 1 THEN Append(@, rows) ELSE @]
      /\ at' = [at EXCEPT ![c] = IF Len(pending[c]) = 1 THEN "next" ELSE "run"]
  BY DEF Done
<1>4. Domains' /\ pending'[c] = Tail(pending[c])
  BY <1>1, <1>3 DEF Domains
<1>5. Scripted(c)'
  BY <1>1 DEF Scripted
<1>6. IsSequence(results[c]) /\ Len(results[c]) \in Nat /\ Len(script[c]) \in Nat
  BY <1>1 DEF Scripted, Resulted, Steps, IsSequence
<1>7. \A d \in Clients : d # c =>
         /\ at'[d] = at[d] /\ mutation'[d] = mutation[d] /\ script'[d] = script[d]
         /\ results'[d] = results[d] /\ pending'[d] = pending[d]
         /\ matched'[d] = matched[d] /\ admitted'[d] = admitted[d]
  BY <1>1, <1>3 DEF Domains
<1>8. CASE Len(pending[c]) = 1
  <2>1. results'[c] = Append(results[c], rows) /\ at'[c] = "next"
    BY <1>1, <1>3, <1>8 DEF Domains
  <2>2. /\ IsSequence(results'[c]) /\ Len(results'[c]) = Len(results[c]) + 1
        /\ \A i \in 1 .. Len(results[c]) : results'[c][i] = results[c][i]
        /\ results'[c][n] = rows
    BY <1>6, <2>1, SequenceAppend
  <2>3. ASSUME NEW i \in 1 .. Len(results'[c]) PROVE IsSequence(results'[c][i])
    <3>1. i \in 1 .. Len(results[c]) \/ i = n
      BY <1>6, <2>2
    <3> QED
      BY <1>1, <2>2, <3>1 DEF Resulted
  <2>4. ASSUME Mutates(m), Root(m) <= Len(results'[c]), NEW k \in Range(results'[c][Root(m)])
        PROVE  <<"venues", k>> \in matched'[c]
    <3>1. Root(m) \in Nat \ {0}
      BY <1>1, <2>4 DEF Scripted, Root
    <3>2. CASE Root(m) = n
      BY <2>2, <2>4, <3>2
    <3>3. CASE Root(m) # n
      <4>1. Root(m) \in 1 .. Len(results[c]) /\ Root(m) <= Len(results[c])
        BY <1>6, <2>2, <2>4, <3>1, <3>3
      <4>2. k \in Range(results[c][Root(m)])
        BY <2>2, <2>4, <4>1
      <4>3. <<"venues", k>> \in matched[c]
        BY <1>1, <2>4, <4>1, <4>2 DEF Resulted
      <4> QED
        BY <4>3
    <3> QED
      BY <3>2, <3>3
  <2>5. Resulted(c)'
    BY <1>2, <1>6, <2>2, <2>3, <2>4 DEF Resulted
  <2>6. Running(c)'
    BY <2>1 DEF Running
  <2> QED
    BY <1>4, <1>5, <1>7, <2>5, <2>6, OnlyOneMoves
<1>9. CASE Len(pending[c]) # 1
  <2>1. results'[c] = results[c] /\ at'[c] = "run"
    BY <1>1, <1>3, <1>9 DEF Domains
  <2>2. Resulted(c)'
    <3>1. ASSUME Mutates(m), Root(m) <= Len(results[c]), NEW k \in Range(results[c][Root(m)])
          PROVE  <<"venues", k>> \in matched'[c]
      BY <1>1, <3>1 DEF Resulted
    <3> QED
      BY <1>1, <2>1, <3>1 DEF Resulted
  <2>3. /\ IsSequence(pending'[c]) /\ pending'[c] # <<>>
        /\ Len(pending'[c]) = Len(pending[c]) - 1 /\ Len(pending[c]) \in Nat
        /\ \A j \in 1 .. Len(pending'[c]) : pending'[c][j] = pending[c][j + 1]
    <3>1. IsSequence(pending[c]) /\ pending[c] # <<>> /\ pending'[c] = Tail(pending[c])
      BY <1>2, <1>4
    <3> HIDE DEF Pending
    <3> QED
      BY <1>9, <3>1, SequenceTail
  <2>4. ASSUME NEW j \in 1 .. Len(pending'[c])
        PROVE  Comes(m, pending'[c][j], n, matched'[c])
    <3>1. j + 1 \in 1 .. Len(pending[c]) /\ pending'[c][j] = pending[c][j + 1]
      BY <2>3
    <3>2. Comes(m, pending'[c][j], n, matched[c])
      BY <1>2, <3>1
    <3> QED
      BY <3>2 DEF Comes
  <2>5. Pending(c)'
    <3>1. CurrentStep(c).op \in Ops
      <4>1. n \in 1 .. Len(script[c])
        BY <1>2, <1>6
      <4> QED
        BY <1>1, <4>1 DEF Scripted, Steps, Fits, CurrentStep
    <3>2. CurrentStep(c).op \in {"nestedUpdate", "nestedDelete"}
      BY <1>1, <1>2, <1>9, <3>1, SingleStatement DEF Running, Pending
    <3>3. CurrentStep(c)' = CurrentStep(c)
      BY <2>1 DEF CurrentStep
    <3>4. \A j \in 1 .. Len(pending[c]) : pending[c][j].do = CurrentStep(c).op
      BY <1>1, <1>2, <3>2, NestedStatements DEF Running, Pending, IsSequence
    <3>5. ASSUME NEW j \in 1 .. Len(pending'[c])
          PROVE  pending'[c][j].do = CurrentStep(c).op
      <4>1. j + 1 \in 1 .. Len(pending[c]) /\ pending'[c][j] = pending[c][j + 1]
        BY <2>3
      <4> QED
        BY <3>4, <4>1, Zenon
    <3> QED
      BY <3>2, <3>3, <3>5 DEF Pending
  <2>6. Running(c)'
    BY <1>2, <2>1, <2>3, <2>4, <2>5 DEF Running
  <2> QED
    BY <1>4, <1>5, <1>7, <2>2, <2>6, OnlyOneMoves
<1> QED
  BY <1>8, <1>9

(* The statement that is run.                                                *)
LEMMA HeadComes ==
    ASSUME ScriptInv, NEW c \in Clients, at[c] = "run"
    PROVE  Comes(mutation[c], Head(pending[c]), Len(results[c]) + 1, matched[c])
<1>1. /\ IsSequence(pending[c]) /\ pending[c] # <<>>
      /\ \A j \in 1 .. Len(pending[c]) :
           Comes(mutation[c], pending[c][j], Len(results[c]) + 1, matched[c])
  BY DEF ScriptInv, Running
<1>2. Head(pending[c]) = pending[c][1] /\ 1 \in 1 .. Len(pending[c])
  BY <1>1, SequenceTail
<1> QED
  BY <1>1, <1>2

LEMMA PrecheckKeeps ==
    ASSUME ScriptInv, NEW c \in Clients, precheck(c)
    PROVE  ScriptInv'
<1>1. CASE Fail(c)
  BY <1>1, StopKeeps DEF Fail
<1>2. CASE /\ Done(c, <<<<"true">>>>)
           /\ UNCHANGED <<db, serial, mutation, script, work, matched, admitted>>
  <2>1. at[c] = "run" /\ Head(pending[c]).do = "precheck"
    BY DEF precheck
  <2>2. ~(Mutates(mutation[c]) /\ Len(results[c]) + 1 = Root(mutation[c]))
    BY <2>1, HeadComes DEF Comes
  <2> DEFINE rows == <<<<"true">>>>
  <2>3. IsSequence(rows)
    <3>1. rows \in Seq({<<"true">>})
      OBVIOUS
    <3> QED
      BY <3>1, SeqIsSequence
  <2> HIDE DEF rows
  <2>4. /\ Done(c, rows) /\ mutation' = mutation /\ script' = script
        /\ matched' = matched /\ admitted' = admitted /\ work' = work
    BY <1>2 DEF rows
  <2>5. /\ admitted[c] \subseteq matched[c] /\ DOMAIN matched = Clients
        /\ DOMAIN admitted = Clients /\ DOMAIN work = Clients
    BY DEF ScriptInv, Running, Domains
  <2> QED
    BY <2>1, <2>2, <2>3, <2>4, <2>5, DoneKeeps
<1> QED
  BY <1>1, <1>2 DEF precheck

(* A root statement returns venues that it matched, all of them when it has  *)
(* no rule for reading.                                                      *)
LEMMA ReturnedAreMatches ==
    ASSUME TableInv, NEW c \in Clients, NEW s, s.do \in {"rootSelect", "update", "delete"}
    PROVE  LET keys == {<<"venues", k>> : k \in Range(Returned(c, s))}
           IN  keys \subseteq Matches(c, s) /\ (s.read = <<>> => keys = Matches(c, s))
<1> DEFINE found == {v \in Venues(c, s.where) :
                       Readable(s.read, IF s.do = "update" THEN s.set ELSE Current(c)[v].val)}
<1>1. Returned(c, s) = SetToSeq(Selected(c, s)) /\ Selected(c, s) = {v[2] : v \in found}
  BY DEF Returned, Selected
<1>2. s.read = <<>> => found = Venues(c, s.where)
  BY DEF Readable
<1>3. found \subseteq Venues(c, s.where)
  OBVIOUS
<1> HIDE DEF found
<1>4. Range(Returned(c, s)) = {v[2] : v \in found}
  BY <1>1, SelectedIsFinite, SetToSeqIsSequence
<1> QED
  BY <1>2, <1>3, <1>4 DEF Matches

LEMMA RunQueryKeeps ==
    ASSUME ScriptInv, TableInv, NEW c \in Clients, run_query(c)
    PROVE  ScriptInv'
<1> DEFINE s == Head(pending[c])
           rows == Returned(c, s)
           keys == {<<"venues", k>> : k \in Range(rows)}
<1>1. /\ at[c] = "run" /\ Done(c, rows) /\ mutation' = mutation /\ script' = script
      /\ work' = [work EXCEPT ![c] = Over(Writes(c, s), @)]
      /\ matched' = [matched EXCEPT ![c] =
            IF s.do \in {"rootSelect", "update", "delete"} THEN @ \cup Matches(c, s)
            ELSE IF s.do = "insert" /\ s.table = "venues" THEN @ \cup Range(NewKeys(s))
            ELSE @]
      /\ admitted' = [admitted EXCEPT ![c] =
            IF s.do = "filter" THEN matched[c] \cap Venues(c, s.allow) ELSE @]
  BY DEF run_query
<1>2. Comes(mutation[c], s, Len(results[c]) + 1, matched[c])
  BY <1>1, HeadComes
<1>3. /\ IsSequence(rows)
      /\ s.do \in {"rootSelect", "update", "delete"} => keys \subseteq Matches(c, s)
  BY <1>2, ReturnedIsSequence, ReturnedAreMatches DEF Comes
<1> HIDE DEF s, rows
<1>4. /\ DOMAIN work' = Clients /\ DOMAIN matched' = Clients /\ DOMAIN admitted' = Clients
      /\ \A d \in Clients : d # c => matched'[d] = matched[d] /\ admitted'[d] = admitted[d]
  BY <1>1 DEF ScriptInv, Domains
<1>5. /\ matched[c] \subseteq matched'[c]
      /\ s.do \in {"rootSelect", "update", "delete"} => keys \subseteq matched'[c]
      /\ admitted'[c] \subseteq matched[c] \cup admitted[c]
  BY <1>1, <1>3 DEF ScriptInv, Domains
<1>6. admitted'[c] \subseteq matched'[c]
  BY <1>5 DEF ScriptInv, Running
<1>7. Mutates(mutation[c]) /\ Len(results[c]) + 1 = Root(mutation[c]) =>
        \A k \in Range(rows) : <<"venues", k>> \in matched'[c]
  BY <1>2, <1>5 DEF Comes
<1> QED
  BY <1>1, <1>3, <1>4, <1>5, <1>6, <1>7, DoneKeeps

LEMMA FinishKeeps ==
    ASSUME ScriptInv, NEW c \in Clients, finish(c)
    PROVE  ScriptInv'
<1>1. /\ at' = [at EXCEPT ![c] = "done"] /\ work' = [work EXCEPT ![c] = <<>>]
      /\ mutation' = [mutation EXCEPT ![c] = NoMutation] /\ script' = [script EXCEPT ![c] = <<>>]
      /\ results' = [results EXCEPT ![c] = <<>>] /\ pending' = [pending EXCEPT ![c] = <<>>]
      /\ matched' = [matched EXCEPT ![c] = {}] /\ admitted' = [admitted EXCEPT ![c] = {}]
  BY DEF finish
<1>2. Domains'
  BY <1>1 DEF ScriptInv, Domains
<1>3. /\ at'[c] = "done" /\ mutation'[c] = NoMutation /\ script'[c] = <<>>
      /\ results'[c] = <<>> /\ matched'[c] = {} /\ admitted'[c] = {}
  BY <1>1 DEF ScriptInv, Domains
<1>4. /\ ~Mutates(NoMutation) /\ Steps(NoMutation, <<>>, 0)
      /\ IsSequence(<<>>) /\ Len(<<>>) = 0
  BY NothingIsScripted DEF Mutates, NoMutation
<1>5. Scripted(c)'
  BY <1>3, <1>4 DEF Scripted
<1>6. Resulted(c)'
  BY <1>3, <1>4 DEF Resulted
<1>7. Running(c)'
  BY <1>3 DEF Running
<1>8. \A d \in Clients : d # c =>
         /\ at'[d] = at[d] /\ mutation'[d] = mutation[d] /\ script'[d] = script[d]
         /\ results'[d] = results[d] /\ pending'[d] = pending[d]
         /\ matched'[d] = matched[d] /\ admitted'[d] = admitted[d]
  BY <1>1 DEF ScriptInv, Domains
<1> QED
  BY <1>2, <1>5, <1>6, <1>7, <1>8, OnlyOneMoves

-----------------------------------------------------------------------------
(* Putting it together                                                       *)

(* The scripts, and the tables they run on.                                  *)
Inv == ScriptInv /\ TableInv

LEMMA InitInv == Init => Inv
<1> SUFFICES ASSUME Init PROVE Inv
  OBVIOUS
<1>1. Domains
  BY DEF Init, Domains
<1>2. /\ ~Mutates(NoMutation) /\ Steps(NoMutation, <<>>, 0)
      /\ IsSequence(<<>>) /\ Len(<<>>) = 0
  BY NothingIsScripted DEF Mutates, NoMutation
<1>3. ASSUME NEW c \in Clients PROVE Scripted(c) /\ Resulted(c) /\ Running(c)
  <2>1. /\ at[c] = "idle" /\ mutation[c] = NoMutation /\ script[c] = <<>>
        /\ results[c] = <<>> /\ matched[c] = {} /\ admitted[c] = {}
    BY DEF Init
  <2>2. Scripted(c)
    BY <1>2, <2>1 DEF Scripted
  <2>3. Resulted(c)
    BY <1>2, <2>1 DEF Resulted
  <2>4. Running(c)
    BY <2>1 DEF Running
  <2> QED
    BY <2>2, <2>3, <2>4
<1>4. TableInv
  <2>1. IsFiniteSet(DOMAIN db) /\ Intact(db) /\ DOMAIN work = Clients
    BY DatabasesAssumption DEF Init
  <2>2. \A c \in Clients : work[c] = <<>>
    BY DEF Init
  <2>3. DOMAIN <<>> = {}
    OBVIOUS
  <2>4. Apart
    BY <2>2, <2>3 DEF Apart
  <2>5. ASSUME NEW c \in Clients PROVE IsFiniteSet(DOMAIN work[c]) /\ Intact(Current(c))
    <3>1. IsFiniteSet(DOMAIN work[c])
      BY <2>2, <2>3, FS_EmptySet
    <3>2. /\ DOMAIN Current(c) = DOMAIN work[c] \cup DOMAIN db
          /\ \A k \in DOMAIN db \ DOMAIN work[c] : Current(c)[k] = db[k]
      BY OverShape DEF Current
    <3>3. Intact(Current(c))
      BY <2>1, <2>2, <2>3, <3>2 DEF Intact
    <3> QED
      BY <3>1, <3>3
  <2> QED
    BY <2>1, <2>4, <2>5 DEF TableInv
<1> QED
  BY <1>1, <1>3, <1>4 DEF Inv, ScriptInv

LEMMA TableUnchanged ==
    ASSUME TableInv, UNCHANGED <<db, work>>
    PROVE  TableInv'
<1>1. Apart'
  BY DEF TableInv, Apart
<1>2. ASSUME NEW c \in Clients PROVE Current(c)' = Current(c)
  BY DEF Current
<1> QED
  BY <1>1, <1>2 DEF TableInv

LEMMA NextInv == Inv /\ [Next]_vars => Inv'
<1> SUFFICES ASSUME Inv, [Next]_vars PROVE Inv'
  OBVIOUS
<1> USE DEF Inv
<1>1. ASSUME NEW c \in Clients, receive(c) PROVE Inv'
  BY <1>1, ReceiveKeeps, TableUnchanged DEF receive
<1>2. ASSUME NEW c \in Clients, refuse(c) PROVE Inv'
  BY <1>2, StopKeeps, TableUnchanged DEF refuse
<1>3. ASSUME NEW c \in Clients, next_step(c) PROVE Inv'
  BY <1>3, NextStepKeeps, TableUnchanged DEF next_step
<1>4. ASSUME NEW c \in Clients, panic(c) PROVE Inv'
  BY <1>4, StopKeeps, TableUnchanged DEF panic
<1>5. ASSUME NEW c \in Clients, precheck(c) PROVE Inv'
  <2>1. UNCHANGED <<db, work>>
    BY <1>5 DEF precheck, Fail
  <2> QED
    BY <1>5, <2>1, PrecheckKeeps, TableUnchanged
<1>6. ASSUME NEW c \in Clients, run_query(c) PROVE Inv'
  <2>1. Head(pending[c]).do = "insert" => IsSequence(Head(pending[c]).ups)
    BY <1>6, HeadComes DEF run_query, Comes
  <2> QED
    BY <1>6, <2>1, RunQueryKeeps, TableRun
<1>7. ASSUME NEW c \in Clients, Fail(c) PROVE Inv'
  BY <1>7, StopKeeps, TableUnchanged DEF Fail
<1>8. ASSUME NEW c \in Clients, finish(c) PROVE Inv'
  BY <1>8, FinishKeeps, TableFinish
<1>9. ASSUME UNCHANGED vars PROVE Inv'
  <2>1. UNCHANGED <<db, work>> /\ UNCHANGED <<mutation, script, results, pending, at, matched, admitted>>
    BY <1>9 DEF vars
  <2>2. ScriptInv'
    BY <2>1 DEF ScriptInv, Domains, Scripted, Resulted, Running, Pending, CurrentStep
  <2> QED
    BY <2>1, <2>2, TableUnchanged
<1> QED
  BY <1>1, <1>2, <1>3, <1>4, <1>5, <1>6, <1>7, <1>8, <1>9
     DEF Next, AllDone, violation, deadlock

(* The inductive invariant holds: each script is what to_transaction_script  *)
(* can produce, each result what run_query can return, and each transaction  *)
(* sees intact tables that no other has written to.                          *)
THEOREM Invariance == Spec => []Inv
<1>1. Init => Inv
  BY InitInv
<1>2. Inv /\ [Next]_vars => Inv'
  BY NextInv
<1> QED
  BY <1>1, <1>2, PTL DEF Spec

(* Type correctness: a script is never overrun, a step that is being run has *)
(* a statement left, only matched venues are admitted, and every reference   *)
(* in the committed tables is to a row, whichever requests are interleaved   *)
(* (execute_transaction_script and its steps).                               *)
THEOREM TypeCorrect == Spec => []TypeOK
<1>1. Inv => TypeOK
  BY DEF Inv, ScriptInv, TableInv, Resulted, Running, TypeOK
<1> QED
  BY <1>1, Invariance, PTL

-----------------------------------------------------------------------------
(* What a step touches                                                       *)

(* TouchesOwnOnly, for one request and one step.                             *)
OwnOnly(c) ==
    \A k \in DOMAIN work'[c] \cap Live(c) :
        LET m == mutation[c]
            row == Current(c)[k]
        IN  k[1] = "concerts" /\ work'[c][k] # row =>
              /\ row.up \in matched[c]
              /\ \E n \in Range(m.updates) \cup Range(m.deletes) :
                   n.id = k[2] /\ row.val \in n.rule

LEMMA UntouchedIsOwn ==
    ASSUME NEW c, work'[c] = work[c]
    PROVE  OwnOnly(c)
<1>1. \A k \in DOMAIN work[c] : Current(c)[k] = work[c][k]
  BY OverShape DEF Current
<1> QED
  BY <1>1 DEF OwnOnly

LEMMA RunTouchesOwn ==
    ASSUME Inv, NEW c \in Clients, run_query(c)
    PROVE  OwnOnly(c)
<1> DEFINE s == Head(pending[c])
           m == mutation[c]
           writes == Writes(c, s)
<1>1. /\ at[c] = "run" /\ ~Violates(c, s)
      /\ work' = [work EXCEPT ![c] = Over(Writes(c, s), @)]
  BY DEF run_query
<1>2. Comes(m, s, Len(results[c]) + 1, matched[c])
  BY <1>1, HeadComes DEF Inv
<1>3. work'[c] = Over(writes, work[c])
  BY <1>1 DEF Inv, TableInv
<1>4. s.do = "insert" => DOMAIN writes \cap Live(c) = {}
  BY <1>1 DEF Violates
<1>5. s.do \in {"update", "delete"} => DOMAIN writes = Venues(c, s.where)
  BY DEF Writes
<1>6. s.do \in {"nestedUpdate", "nestedDelete"} => DOMAIN writes = Nested(c, s)
  BY DEF Writes
<1>7. s.do \notin {"update", "delete", "nestedUpdate", "nestedDelete", "insert"} =>
        DOMAIN writes = {}
  <2>1. DOMAIN <<>> = {}
    OBVIOUS
  <2> QED
    BY <2>1 DEF Writes
<1> HIDE DEF s, m, writes
<1> SUFFICES ASSUME NEW k \in DOMAIN work'[c] \cap Live(c), k[1] = "concerts",
                    work'[c][k] # Current(c)[k]
             PROVE  /\ Current(c)[k].up \in matched[c]
                    /\ \E n \in Range(m.updates) \cup Range(m.deletes) :
                         n.id = k[2] /\ Current(c)[k].val \in n.rule
  BY DEF OwnOnly, m
<1>8. k \in DOMAIN writes
  <2>1. /\ DOMAIN Over(writes, work[c]) = DOMAIN writes \cup DOMAIN work[c]
        /\ \A x \in DOMAIN work[c] \ DOMAIN writes : Over(writes, work[c])[x] = work[c][x]
    BY OverShape, ZenonT(40)
  <2>2. \A x \in DOMAIN work[c] : Current(c)[x] = work[c][x]
    BY OverShape DEF Current
  <2> QED
    BY <1>3, <2>1, <2>2
<1>9. s.do \notin {"update", "delete"}
  BY <1>5, <1>8 DEF Venues
<1>10. k \in Nested(c, s) /\ s.do \in {"nestedUpdate", "nestedDelete"}
  BY <1>4, <1>6, <1>7, <1>8, <1>9
<1>11. k = s.key /\ Current(c)[k].up = s.up /\ Current(c)[k].val \in s.rule
  BY <1>10 DEF Nested
<1> QED
  BY <1>2, <1>10, <1>11 DEF Comes, Asked

LEMMA FinishTouchesNothing ==
    ASSUME Inv, NEW c \in Clients, finish(c)
    PROVE  OwnOnly(c)
<1>1. work'[c] = <<>>
  BY DEF finish, Inv, TableInv
<1>2. DOMAIN work'[c] = {}
  BY <1>1
<1> QED
  BY <1>2 DEF OwnOnly

LEMMA StepTouchesOwn ==
    ASSUME Inv, [Next]_vars, NEW c \in Clients
    PROVE  OwnOnly(c)
<1>1. ASSUME NEW d \in Clients, run_query(d) \/ finish(d)
      PROVE  OwnOnly(c)
  <2>1. CASE d = c
    BY <1>1, <2>1, RunTouchesOwn, FinishTouchesNothing
  <2>2. CASE d # c
    <3>1. work'[c] = work[c]
      BY <1>1, <2>2 DEF run_query, finish, Inv, TableInv
    <3> QED
      BY <3>1, UntouchedIsOwn
  <2> QED
    BY <2>1, <2>2
<1>2. CASE work' = work
  BY <1>2, UntouchedIsOwn
<1>3. (\E d \in Clients : run_query(d) \/ finish(d)) \/ work' = work
  BY DEF Next, AllDone, vars, receive, refuse, next_step, panic, precheck, violation, deadlock, Fail
<1> QED
  BY <1>1, <1>2, <1>3

(* Nested updates and deletes reach only the concerts that the input names,  *)
(* that hang from a matched venue and that the rule admits, in every         *)
(* interleaving (TemplateUpdate::resolve, TemplateDelete::resolve).          *)
THEOREM TouchesOwn == Spec => TouchesOwnOnly
<1>1. Inv /\ [Next]_vars =>
        [\A c \in Clients : \A k \in DOMAIN work'[c] \cap Live(c) :
           LET m == mutation[c]
               row == Current(c)[k]
           IN  k[1] = "concerts" /\ work'[c][k] # row =>
                 /\ row.up \in matched[c]
                 /\ \E n \in Range(m.updates) \cup Range(m.deletes) :
                      n.id = k[2] /\ row.val \in n.rule]_vars
  BY StepTouchesOwn DEF OwnOnly
<1> QED
  BY <1>1, Invariance, PTL DEF Spec, TouchesOwnOnly

-----------------------------------------------------------------------------
(* The answer                                                                *)

(* The statement that is run, and the step it comes from.                    *)
LEMMA HeadOfStep ==
    ASSUME ScriptInv, NEW c \in Clients, at[c] = "run"
    PROVE  LET s == Head(pending[c])
               step == CurrentStep(c)
           IN  /\ Len(results[c]) + 1 \in 1 .. Len(script[c])
               /\ Fits(mutation[c], step, Len(results[c]) + 1)
               /\ step.op \in {"nestedUpdate", "nestedDelete"} => s.do = step.op
               /\ step.op \notin {"nestedUpdate", "nestedDelete"} =>
                    Len(pending[c]) = 1 /\ resolve(step, results[c]) = <<s>>
<1> DEFINE s == Head(pending[c])
           step == CurrentStep(c)
           n == Len(results[c]) + 1
<1>1. /\ Scripted(c) /\ Resulted(c) /\ IsSequence(pending[c]) /\ pending[c] # <<>>
      /\ Len(results[c]) < Len(script[c]) /\ Pending(c)
  BY DEF ScriptInv, Running
<1>2. Len(results[c]) \in Nat /\ Len(script[c]) \in Nat
  BY <1>1 DEF Scripted, Resulted, Steps, IsSequence
<1>3. n \in 1 .. Len(script[c]) /\ 0 + n = n
  BY <1>1, <1>2
<1>4. Fits(mutation[c], step, n)
  <2>1. Fits(mutation[c], script[c][n], 0 + n)
    BY <1>1, <1>3 DEF Scripted, Steps
  <2> QED
    BY <1>3, <2>1, Zenon DEF CurrentStep
<1>5. /\ s = pending[c][1] /\ Len(pending[c]) \in Nat \ {0} /\ 1 \in 1 .. Len(pending[c])
      /\ DOMAIN pending[c] = 1 .. Len(pending[c])
  BY <1>1, SequenceTail, IsSequenceIsSeq
<1>6. ASSUME step.op \in {"nestedUpdate", "nestedDelete"} PROVE s.do = step.op
  BY <1>1, <1>5, <1>6, NestedStatements DEF Pending
<1>7. ASSUME step.op \notin {"nestedUpdate", "nestedDelete"}
      PROVE  Len(pending[c]) = 1 /\ resolve(step, results[c]) = <<s>>
  <2>1. pending[c] = resolve(step, results[c])
    BY <1>1, <1>7 DEF Pending
  <2>2. step.op \in Ops
    BY <1>4 DEF Fits
  <2>3. Len(pending[c]) = 1
    BY <1>1, <1>7, <2>1, <2>2, SingleStatement
  <2>4. pending[c] = <<s>>
    <3>1. pending[c] = [i \in 1 .. 1 |-> pending[c][i]]
      BY <1>1, <2>3 DEF IsSequence
    <3>2. <<s>> = [i \in 1 .. 1 |-> s]
      OBVIOUS
    <3> HIDE DEF s
    <3> QED
      BY <1>5, <3>1, <3>2
  <2> QED
    BY <2>1, <2>3, <2>4
<1> QED
  BY <1>3, <1>4, <1>6, <1>7

LEMMA AppendKeepsMatched ==
    ASSUME NEW c \in Clients, Scripted(c), Resulted(c), Matched(c),
           NEW n, n = Len(results[c]) + 1, NEW rows,
           results'[c] = Append(results[c], rows),
           mutation'[c] = mutation[c], script'[c] = script[c], matched'[c] = matched[c],
           Mutates(mutation[c]) => n # Root(mutation[c]),
           n \notin VenueInserts(script[c])
    PROVE  Matched(c)'
<1> DEFINE m == mutation[c]
<1>1. IsSequence(results[c]) /\ Len(results[c]) \in Nat
  BY DEF Resulted, IsSequence
<1>2. /\ Len(results'[c]) = n
      /\ \A i \in 1 .. Len(results[c]) : results'[c][i] = results[c][i]
  BY <1>1, SequenceAppend
<1>3. CASE Mutates(m)
  <2>1. Root(m) \in Nat \ {0}
    BY <1>3 DEF Scripted, Root
  <2>2. CASE Len(results[c]) < Root(m)
    <3>1. Len(results'[c]) < Root(m)
      BY <1>1, <1>2, <1>3, <2>1, <2>2
    <3> QED
      BY <1>3, <2>2, <3>1 DEF Matched
  <2>3. CASE ~(Len(results[c]) < Root(m))
    <3>1. ~(Len(results'[c]) < Root(m)) /\ Root(m) \in 1 .. Len(results[c])
      BY <1>1, <1>2, <2>1, <2>3
    <3>2. results'[c][Root(m)] = results[c][Root(m)]
      BY <1>2, <3>1
    <3> QED
      BY <1>3, <2>3, <3>1, <3>2 DEF Matched
  <2> QED
    BY <2>2, <2>3
<1>4. CASE ~Mutates(m)
  <2>1. VenueInserts(script[c]) \subseteq 1 .. Len(script[c]) /\ Len(script[c]) \in Nat
    BY DEF VenueInserts, Scripted, Steps, IsSequence
  <2>2. ASSUME NEW i \in VenueInserts(script[c])
        PROVE  i <= Len(results'[c]) <=> i <= Len(results[c])
    BY <1>1, <1>2, <2>1
  <2>3. Inserted(c)' = Inserted(c)
    BY <2>2 DEF Inserted
  <2>4. \A i \in Inserted(c) : results'[c][i] = results[c][i]
    BY <1>1, <1>2, <2>1 DEF Inserted
  <2> QED
    BY <1>4, <2>3, <2>4 DEF Matched
<1> QED
  BY <1>3, <1>4

(* Nothing that the answer depends on changes.                               *)
LEMMA SameAnswer ==
    ASSUME NEW c, Ended(c), Matched(c),
           mutation'[c] = mutation[c], script'[c] = script[c], results'[c] = results[c],
           matched'[c] = matched[c]
    PROVE  Ended(c)' /\ Matched(c)'
<1>1. Ended(c)'
  BY DEF Ended
<1>2. Inserted(c)' = Inserted(c)
  BY DEF Inserted
<1>3. Matched(c)'
  BY <1>2 DEF Matched
<1> QED
  BY <1>1, <1>3

LEMMA AnswerFrame ==
    ASSUME AnswerInv, NEW c \in Clients,
           \A d \in Clients : d # c =>
               /\ mutation'[d] = mutation[d] /\ script'[d] = script[d]
               /\ results'[d] = results[d] /\ matched'[d] = matched[d],
           Ended(c)', Matched(c)', \A d \in Clients : Keyed(d)'
    PROVE  AnswerInv'
<1>1. ASSUME NEW d \in Clients, d # c PROVE Ended(d)' /\ Matched(d)'
  BY <1>1, SameAnswer DEF AnswerInv
<1> QED
  BY <1>1 DEF AnswerInv

LEMMA KeyedSame ==
    ASSUME AnswerInv, UNCHANGED <<db, work, matched>>, NEW d \in Clients
    PROVE  Keyed(d)'
  BY DEF AnswerInv, Keyed

LEMMA AnswerReceive ==
    ASSUME Inv, AnswerInv, NEW c \in Clients, receive(c)
    PROVE  AnswerInv'
<1>1. PICK r \in Requests, user \in Users :
        LET m == abstract_operation(r, user) IN
        /\ mutation' = [mutation EXCEPT ![c] = m]
        /\ script' = [script EXCEPT ![c] = to_transaction_script(m)]
  BY DEF receive
<1> DEFINE m == abstract_operation(r, user)
<1>2. /\ at[c] = "idle" /\ results' = results /\ matched' = matched
      /\ UNCHANGED <<db, work, matched>>
  BY DEF receive
<1>3. WellFormed(m) /\ Ends(m, to_transaction_script(m))
  BY AbstractOperationIsWellFormed, ScriptFits
<1> HIDE DEF m
<1>4. /\ mutation' = [mutation EXCEPT ![c] = m]
      /\ script' = [script EXCEPT ![c] = to_transaction_script(m)]
  BY <1>1 DEF m
<1>5. mutation'[c] = m /\ script'[c] = to_transaction_script(m)
  BY <1>4 DEF Inv, ScriptInv, Domains
<1>6. \A d \in Clients : d # c =>
         /\ mutation'[d] = mutation[d] /\ script'[d] = script[d]
         /\ results'[d] = results[d] /\ matched'[d] = matched[d]
  BY <1>2, <1>4 DEF Inv, ScriptInv, Domains
<1>7. Ended(c)'
  BY <1>3, <1>5 DEF Ended
<1>8. results[c] = <<>> /\ Len(results[c]) = 0
  BY <1>2, EmptySeq DEF Inv, ScriptInv, Running
<1>9. matched[c] = {}
  <2>1. CASE Mutates(mutation[c])
    <3>1. Len(results[c]) < Root(mutation[c])
      BY <1>8, <2>1 DEF Inv, ScriptInv, Scripted, Root
    <3> QED
      BY <2>1, <3>1 DEF AnswerInv, Matched
  <2>2. CASE ~Mutates(mutation[c])
    <3>1. Inserted(c) = {}
      BY <1>8 DEF Inserted, VenueInserts
    <3> QED
      BY <2>2, <3>1 DEF AnswerInv, Matched
  <2> QED
    BY <2>1, <2>2
<1>10. Matched(c)'
  <2>1. Root(m) \in Nat \ {0}
    BY <1>3 DEF WellFormed, Root
  <2>2. CASE Mutates(m)
    <3>1. Len(results'[c]) < Root(m)
      BY <1>2, <1>8, <2>1
    <3> QED
      BY <1>2, <1>5, <1>9, <2>2, <3>1 DEF Matched
  <2>3. CASE ~Mutates(m)
    <3>1. Inserted(c)' = {}
      BY <1>2, <1>8 DEF Inserted, VenueInserts
    <3> QED
      BY <1>2, <1>5, <1>9, <2>3, <3>1 DEF Matched
  <2> QED
    BY <2>2, <2>3
<1> QED
  BY <1>2, <1>6, <1>7, <1>10, KeyedSame, AnswerFrame

LEMMA AnswerNextStep ==
    ASSUME Inv, AnswerInv, NEW c \in Clients, next_step(c)
    PROVE  AnswerInv'
<1> DEFINE n == Len(results[c]) + 1
           step == script[c][n]
           statements == resolve(step, results[c])
<1>1. /\ n <= Len(script[c])
      /\ results' = [results EXCEPT ![c] = IF statements = <<>> THEN Append(@, <<>>) ELSE @]
      /\ mutation' = mutation /\ script' = script /\ UNCHANGED <<db, work, matched>>
  BY DEF next_step
<1>2. /\ results'[c] = IF statements = <<>> THEN Append(results[c], <<>>) ELSE results[c]
      /\ \A d \in Clients : d # c => results'[d] = results[d]
  BY <1>1 DEF Inv, ScriptInv, Domains
<1>3. Scripted(c) /\ Resulted(c) /\ Ended(c) /\ Matched(c)
  BY DEF Inv, ScriptInv, AnswerInv
<1>4. Ended(c)'
  BY <1>1, <1>3 DEF Ended
<1>5. Matched(c)'
  <2>1. CASE statements = <<>>
    <3>1. n \in 1 .. Len(script[c]) /\ 0 + n = n
      BY <1>1, <1>3 DEF Scripted, Resulted, Steps, IsSequence
    <3>2. Fits(mutation[c], step, n)
      <4>1. Fits(mutation[c], script[c][n], 0 + n)
        BY <1>3, <3>1 DEF Scripted, Steps
      <4> QED
        BY <3>1, <4>1, Zenon
    <3>3. \A x : <<x>> # <<>>
      OBVIOUS
    <3> HIDE DEF step, n
    <3>4. step.op \in {"nestedUpdate", "nestedDelete"} \/ (step.op = "insert" /\ step.prev # 0)
      BY <2>1, <3>2, <3>3 DEF resolve, Fits, Ops
    <3>5. Mutates(mutation[c]) => n # Root(mutation[c])
      BY <3>2, <3>4 DEF Fits
    <3>6. n \notin VenueInserts(script[c])
      BY <3>2, <3>4 DEF Fits, VenueInserts, step
    <3> HIDE DEF statements
    <3> QED
      BY <1>1, <1>2, <1>3, <2>1, <3>5, <3>6, AppendKeepsMatched DEF n
  <2>2. CASE statements # <<>>
    BY <1>1, <1>2, <1>3, <2>2, SameAnswer
  <2> QED
    BY <2>1, <2>2
<1> QED
  BY <1>1, <1>2, <1>4, <1>5, KeyedSame, AnswerFrame

LEMMA AnswerSame ==
    ASSUME AnswerInv, UNCHANGED <<db, mutation, script, results, work, matched>>
    PROVE  AnswerInv'
<1>1. ASSUME NEW c \in Clients PROVE Ended(c)' /\ Matched(c)' /\ Keyed(c)'
  BY SameAnswer, KeyedSame DEF AnswerInv
<1> QED
  BY <1>1 DEF AnswerInv

LEMMA AnswerPrecheck ==
    ASSUME Inv, AnswerInv, NEW c \in Clients, precheck(c)
    PROVE  AnswerInv'
<1>1. CASE Fail(c)
  BY <1>1, AnswerSame DEF Fail
<1>2. CASE /\ Done(c, <<<<"true">>>>)
           /\ UNCHANGED <<db, serial, mutation, script, work, matched, admitted>>
  <2> DEFINE n == Len(results[c]) + 1
             rows == <<<<"true">>>>
             s == Head(pending[c])
             step == CurrentStep(c)
  <2>1. at[c] = "run" /\ s.do = "precheck"
    BY DEF precheck
  <2>2. /\ n \in 1 .. Len(script[c]) /\ Fits(mutation[c], step, n)
        /\ step.op \in {"nestedUpdate", "nestedDelete"} => s.do = step.op
        /\ step.op \notin {"nestedUpdate", "nestedDelete"} =>
             Len(pending[c]) = 1 /\ resolve(step, results[c]) = <<s>>
    BY <2>1, HeadOfStep DEF Inv
  <2>3. Len(pending[c]) = 1 /\ resolve(step, results[c]) = <<s>>
    BY <2>1, <2>2
  <2>4. /\ results'[c] = Append(results[c], rows)
        /\ \A d \in Clients : d # c => results'[d] = results[d]
    BY <1>2, <2>3 DEF Done, Inv, ScriptInv, Domains
  <2>5. Mutates(mutation[c]) => n # Root(mutation[c])
    BY <2>1, HeadComes DEF Inv, Comes
  <2>6. n \notin VenueInserts(script[c])
    <3>1. \A x, y : <<x>> = <<y>> => x = y
      OBVIOUS
    <3>2. step.op # "insert"
      BY <2>1, <2>3, <3>1 DEF resolve
    <3> QED
      BY <3>2 DEF VenueInserts, CurrentStep
  <2>7. Scripted(c) /\ Resulted(c) /\ Ended(c) /\ Matched(c)
    BY DEF Inv, ScriptInv, AnswerInv
  <2>8. Ended(c)'
    BY <1>2, <2>7 DEF Ended
  <2>9. Matched(c)'
    <3> HIDE DEF rows
    <3> QED
      BY <1>2, <2>4, <2>5, <2>6, <2>7, AppendKeepsMatched
  <2> QED
    BY <1>2, <2>4, <2>8, <2>9, KeyedSame, AnswerFrame
<1> QED
  BY <1>1, <1>2 DEF precheck

(* Keys that are found or given have one column when those there are do.     *)
LEMMA WritesAreKeyed ==
    ASSUME OneColumnKeys, NEW c \in Clients, NEW s, Keyed(c),
           s.do = "insert" => Simple(s.pk),
           NEW k \in DOMAIN Writes(c, s)
    PROVE  OneColumn(k)
<1>1. ASSUME NEW x \in Live(c) PROVE OneColumn(x)
  <2>1. DOMAIN Current(c) = DOMAIN work[c] \cup DOMAIN db
    BY OverShape DEF Current
  <2> QED
    BY <2>1 DEF Live, Keyed
<1>2. CASE s.do \in {"update", "delete"}
  <2>1. k \in Venues(c, s.where)
    BY <1>2 DEF Writes
  <2> QED
    BY <1>1, <2>1 DEF Venues
<1>3. CASE s.do \in {"nestedUpdate", "nestedDelete"}
  <2>1. k \in Nested(c, s)
    BY <1>3 DEF Writes
  <2> QED
    BY <1>1, <2>1 DEF Nested
<1>4. CASE s.do = "insert"
  <2>1. k \in Range(NewKeys(s))
    BY <1>4 DEF Writes
  <2>2. PICK j \in DOMAIN s.ups : k = <<s.table, IF s.pk = <<>> THEN <<serial + j>> ELSE s.pk>>
    BY <2>1 DEF Range, NewKeys
  <2>3. CASE s.pk = <<>>
    BY <2>2, <2>3 DEF OneColumn
  <2>4. CASE s.pk # <<>>
    <3>1. k = <<s.table, s.pk>> /\ s.pk = <<s.pk[1]>>
      BY <1>4, <2>2, <2>4 DEF Simple, SimpleKey
    <3>2. k[1] = s.table /\ k[2] = s.pk
      BY <3>1
    <3> QED
      BY <3>1, <3>2, Zenon DEF OneColumn
  <2> QED
    BY <2>3, <2>4
<1>5. CASE s.do \notin {"update", "delete", "nestedUpdate", "nestedDelete", "insert"}
  <2>1. Writes(c, s) = <<>>
    BY <1>5 DEF Writes
  <2>2. DOMAIN <<>> = {}
    OBVIOUS
  <2> QED
    BY <2>1, <2>2
<1> QED
  BY <1>2, <1>3, <1>4, <1>5

(* So do the keys of venues that a root statement, or an insertion, returns. *)
(* A key of one column is the pair of its table and of that column.          *)
LEMMA OneColumnShape ==
    ASSUME NEW k, OneColumn(k)
    PROVE  k = <<k[1], k[2]>> /\ k[2] = <<k[2][1]>>
<1> DEFINE a == k[1]
           b == <<k[2][1]>>
<1>1. k = <<a, b>>
  BY DEF OneColumn
<1> HIDE DEF a, b
<1>2. k[2] = b
  BY <1>1
<1> QED
  BY <1>1, <1>2 DEF a, b

LEMMA LiveIsKeyed ==
    ASSUME OneColumnKeys, NEW c, Keyed(c), NEW k \in Live(c)
    PROVE  OneColumn(k)
<1>1. DOMAIN Current(c) = DOMAIN work[c] \cup DOMAIN db
  BY OverShape DEF Current
<1> QED
  BY <1>1 DEF Live, Keyed

LEMMA MatchesAreKeyed ==
    ASSUME OneColumnKeys, NEW c, Keyed(c), NEW s
    PROVE  Matches(c, s) = Venues(c, s.where) /\ \A k \in Matches(c, s) : OneColumn(k)
<1>1. ASSUME NEW k \in Venues(c, s.where) PROVE OneColumn(k) /\ k = <<"venues", k[2]>>
  <2>1. k \in Live(c) /\ k[1] = "venues"
    BY DEF Venues
  <2>2. OneColumn(k)
    BY <2>1, LiveIsKeyed
  <2>3. k = <<k[1], k[2]>>
    BY <2>2, OneColumnShape
  <2> QED
    BY <2>1, <2>2, <2>3
<1>2. Matches(c, s) = Venues(c, s.where)
  BY <1>1 DEF Matches
<1> QED
  BY <1>1, <1>2

LEMMA NewAreKeyed ==
    ASSUME OneColumnKeys, NEW s, Simple(s.pk), NEW k \in Range(NewKeys(s))
    PROVE  OneColumn(k)
<1>1. PICK j \in DOMAIN s.ups : k = <<s.table, IF s.pk = <<>> THEN <<serial + j>> ELSE s.pk>>
  BY DEF NewKeys, Range
<1>2. k[2] = IF s.pk = <<>> THEN <<serial + j>> ELSE s.pk
  BY <1>1
<1>3. k[2] = <<k[2][1]>> /\ k = <<k[1], k[2]>>
  BY <1>1, <1>2 DEF Simple, SimpleKey
<1> QED
  BY <1>3 DEF OneColumn

LEMMA AnswerRun ==
    ASSUME Inv, AnswerInv, NEW c \in Clients, run_query(c)
    PROVE  AnswerInv'
<1> DEFINE n == Len(results[c]) + 1
           m == mutation[c]
           s == Head(pending[c])
           rows == Returned(c, s)
           keys == {<<"venues", k>> : k \in Range(rows)}
           step == CurrentStep(c)
           Roots == {"rootSelect", "update", "delete"}
           Matching(old) == IF s.do \in Roots THEN old \cup Matches(c, s)
                            ELSE IF s.do = "insert" /\ s.table = "venues"
                            THEN old \cup Range(NewKeys(s))
                            ELSE old
<1>1. /\ at[c] = "run" /\ Done(c, rows) /\ mutation' = mutation /\ script' = script /\ db' = db
      /\ work' = [work EXCEPT ![c] = Over(Writes(c, s), @)]
      /\ matched' = [matched EXCEPT ![c] = Matching(@)]
  BY DEF run_query
<1>2. Comes(m, s, n, matched[c])
  BY <1>1, HeadComes DEF Inv
<1>3. Scripted(c) /\ Resulted(c) /\ Ended(c) /\ Matched(c) /\ Keyed(c) /\ TableInv
  BY DEF Inv, ScriptInv, AnswerInv
<1>4. /\ matched'[c] = Matching(matched[c])
      /\ results'[c] = IF Len(pending[c]) = 1 THEN Append(results[c], rows) ELSE results[c]
      /\ work'[c] = Over(Writes(c, s), work[c])
      /\ \A d \in Clients : d # c =>
           matched'[d] = matched[d] /\ results'[d] = results[d] /\ work'[d] = work[d]
  BY <1>1 DEF Done, Inv, ScriptInv, Domains
<1>5. /\ n \in 1 .. Len(script[c]) /\ Fits(m, step, n)
      /\ step.op \in {"nestedUpdate", "nestedDelete"} => s.do = step.op
      /\ step.op \notin {"nestedUpdate", "nestedDelete"} =>
           Len(pending[c]) = 1 /\ resolve(step, results[c]) = <<s>>
  BY <1>1, HeadOfStep DEF Inv
<1>6. ASSUME NEW d \in Clients PROVE Keyed(d)'
  <2> SUFFICES ASSUME OneColumnKeys, NEW k \in DOMAIN db \cup DOMAIN work'[d] \cup matched'[d]
               PROVE  OneColumn(k)
    BY <1>1 DEF Keyed
  <2>1. CASE d # c
    BY <1>4, <2>1 DEF AnswerInv, Keyed
  <2>2. CASE d = c
    <3>1. DOMAIN work'[c] = DOMAIN Writes(c, s) \cup DOMAIN work[c]
      <4>1. DOMAIN Over(Writes(c, s), work[c]) = DOMAIN Writes(c, s) \cup DOMAIN work[c]
        BY OverShape
      <4> QED
        BY <1>4, <4>1, Zenon
    <3>2. CASE k \in DOMAIN Writes(c, s)
      BY <1>2, <1>3, <3>2, WritesAreKeyed DEF Comes
    <3>3. CASE k \in DOMAIN db \cup DOMAIN work[c] \cup matched[c]
      BY <1>3, <3>3 DEF Keyed
    <3>4. CASE k \in Matches(c, s)
      BY <1>3, <3>4, MatchesAreKeyed
    <3>5. CASE s.do = "insert" /\ k \in Range(NewKeys(s))
      BY <1>2, <3>5, NewAreKeyed DEF Comes
    <3> HIDE DEF s
    <3> QED
      BY <1>4, <2>2, <3>1, <3>2, <3>3, <3>4, <3>5
  <2> QED
    BY <2>1, <2>2
<1>7. Ended(c)'
  BY <1>1, <1>3 DEF Ended
<1>8. \A d \in Clients : d # c =>
         /\ mutation'[d] = mutation[d] /\ script'[d] = script[d]
         /\ results'[d] = results[d] /\ matched'[d] = matched[d]
  BY <1>1, <1>4
<1>9. \A x, y : <<x>> = <<y>> => x = y
  OBVIOUS
<1>10. /\ IsSequence(results[c]) /\ Len(results[c]) \in Nat
       /\ Mutates(m) => Root(m) \in Nat \ {0}
       /\ IsSequence(rows)
  <2>1. IsSequence(rows)
    BY <1>2, <1>3, ReturnedIsSequence DEF Comes
  <2> QED
    BY <1>3, <2>1 DEF Resulted, Scripted, IsSequence, Root
<1>11. s.do \in Roots /\ s.read = <<>> => keys = Matches(c, s)
  BY <1>3, ReturnedAreMatches
<1> HIDE DEF s, rows, step
<1>12. Matched(c)'
  <2>1. CASE s.do \in Roots
    <3>1. Mutates(m) /\ n = Root(m)
      BY <1>2, <2>1 DEF Comes
    <3>2. step.op \notin {"nestedUpdate", "nestedDelete"}
      BY <1>5, <2>1
    <3>3. /\ results'[c] = Append(results[c], rows)
          /\ matched'[c] = matched[c] \cup Matches(c, s)
          /\ resolve(step, results[c]) = <<s>>
      BY <1>4, <1>5, <2>1, <3>2
    <3>4. results'[c][n] = rows /\ Len(results'[c]) = n
      BY <1>10, <3>3, SequenceAppend
    <3>5. matched[c] = {}
      <4>1. Len(results[c]) < Root(m)
        BY <1>10, <3>1
      <4> QED
        BY <1>3, <3>1, <4>1 DEF Matched
    <3>6. ~(Len(results'[c]) < Root(m)) /\ results'[c][Root(m)] = rows
      BY <1>10, <3>1, <3>4
    <3>7. ASSUME Nests(m) PROVE keys = Matches(c, s)
      <4>1. step.op \in Roots
        BY <1>5, <3>1 DEF Fits
      <4>2. step.read = <<>>
        BY <1>5, <3>7, <4>1 DEF Fits
      <4>3. s.read = step.read
        BY <1>9, <3>3, <4>1 DEF resolve
      <4> QED
        BY <1>11, <2>1, <4>2, <4>3
    <3> QED
      BY <1>1, <3>1, <3>3, <3>5, <3>6, <3>7 DEF Matched
  <2>2. CASE s.do = "insert" /\ s.table = "venues"
    <3>1. ~Mutates(m) /\ Len(s.ups) = 1 /\ IsSequence(s.ups)
      BY <1>2, <2>2 DEF Comes
    <3>2. step.op \notin {"nestedUpdate", "nestedDelete"}
      BY <1>5, <2>2
    <3>3. /\ results'[c] = Append(results[c], rows)
          /\ matched'[c] = matched[c] \cup Range(NewKeys(s))
          /\ resolve(step, results[c]) = <<s>>
      BY <1>4, <1>5, <2>2, <3>2
    <3>4. /\ results'[c][n] = rows /\ Len(results'[c]) = n
          /\ \A i \in 1 .. Len(results[c]) : results'[c][i] = results[c][i]
      BY <1>10, <3>3, SequenceAppend
    <3>5. step.op = "insert" /\ step.table = "venues"
      BY <1>5, <1>9, <2>2, <3>3 DEF resolve, Fits, Ops
    <3>6. n \in VenueInserts(script[c])
      BY <1>5, <3>5 DEF VenueInserts, CurrentStep, step
    <3>7. Range(NewKeys(s)) = {<<"venues", rows[1]>>}
      <4>1. DOMAIN s.ups = 1 .. 1
        BY <3>1 DEF IsSequence
      <4> DEFINE pk == IF s.pk = <<>> THEN <<serial + 1>> ELSE s.pk
      <4>2. DOMAIN NewKeys(s) = 1 .. 1 /\ NewKeys(s)[1] = <<"venues", pk>>
        BY <2>2, <4>1 DEF NewKeys
      <4>3. rows = [j \in 1 .. 1 |-> NewKeys(s)[j][2]]
        BY <2>2, <4>1 DEF Returned, rows
      <4> HIDE DEF pk
      <4>4. rows[1] = pk
        BY <4>2, <4>3
      <4>5. Range(NewKeys(s)) = {NewKeys(s)[1]}
        BY <4>2 DEF Range
      <4> QED
        BY <4>2, <4>4, <4>5
    <3>8. Inserted(c)' = Inserted(c) \cup {n}
      <4>1. VenueInserts(script[c]) \subseteq Int
        BY DEF VenueInserts
      <4>2. \A i \in VenueInserts(script[c]) :
              i <= Len(results'[c]) <=> i <= Len(results[c]) \/ i = n
        BY <1>10, <3>4, <4>1
      <4> QED
        BY <1>1, <3>6, <4>2 DEF Inserted
    <3>9. \A i \in Inserted(c) : results'[c][i] = results[c][i]
      BY <1>10, <3>4 DEF Inserted, VenueInserts
    <3>10. matched'[c] = {<<"venues", results'[c][i][1]>> : i \in Inserted(c) \cup {n}}
      <4>1. matched[c] = {<<"venues", results[c][i][1]>> : i \in Inserted(c)}
        BY <1>3, <3>1 DEF Matched
      <4> QED
        BY <3>3, <3>4, <3>7, <3>9, <4>1
    <3> QED
      BY <1>1, <3>1, <3>8, <3>10 DEF Matched
  <2>3. CASE s.do \notin Roots /\ ~(s.do = "insert" /\ s.table = "venues")
    <3>1. matched'[c] = matched[c]
      BY <1>4, <2>3
    <3>2. Mutates(m) => n # Root(m)
      BY <1>2, <2>3 DEF Comes
    <3>3. n \notin VenueInserts(script[c])
      <4> SUFFICES ASSUME step.op = "insert", step.table = "venues" PROVE FALSE
        BY DEF VenueInserts, CurrentStep, step
      <4>1. resolve(step, results[c]) = <<s>> /\ step.prev = 0
        BY <1>5 DEF Fits
      <4>2. s.do = "insert" /\ s.table = "venues"
        BY <1>9, <4>1 DEF resolve
      <4> QED
        BY <2>3, <4>2
    <3>4. CASE Len(pending[c]) = 1
      <4>1. results'[c] = Append(results[c], rows)
        BY <1>4, <3>4
      <4> QED
        BY <1>1, <1>3, <3>1, <3>2, <3>3, <4>1, AppendKeepsMatched
    <3>5. CASE Len(pending[c]) # 1
      BY <1>1, <1>3, <1>4, <3>1, <3>5, SameAnswer
    <3> QED
      BY <3>4, <3>5
  <2> QED
    BY <2>1, <2>2, <2>3
<1> QED
  BY <1>6, <1>7, <1>8, <1>12, AnswerFrame

LEMMA AnswerFinish ==
    ASSUME Inv, AnswerInv, NEW c \in Clients, finish(c)
    PROVE  AnswerInv'
<1>1. /\ mutation'[c] = NoMutation /\ script'[c] = <<>> /\ results'[c] = <<>>
      /\ matched'[c] = {} /\ work'[c] = <<>> /\ (db' = Current(c) \/ db' = db)
      /\ \A d \in Clients : d # c =>
           /\ mutation'[d] = mutation[d] /\ script'[d] = script[d]
           /\ results'[d] = results[d] /\ matched'[d] = matched[d] /\ work'[d] = work[d]
  BY DEF finish, Inv, ScriptInv, Domains
<1>2. Ended(c)'
  BY <1>1 DEF Ended
<1>3. Matched(c)'
  <2>1. Len(<<>>) = 0 /\ ~Mutates(NoMutation)
    BY EmptySeq DEF Mutates, NoMutation
  <2>2. Inserted(c)' = {}
    BY <1>1, <2>1 DEF Inserted, VenueInserts
  <2> QED
    BY <1>1, <2>1, <2>2 DEF Matched
<1>4. ASSUME NEW d \in Clients PROVE Keyed(d)'
  <2> SUFFICES ASSUME OneColumnKeys, NEW k \in DOMAIN db' \cup DOMAIN work'[d] \cup matched'[d]
               PROVE  OneColumn(k)
    BY DEF Keyed
  <2>1. DOMAIN Current(c) = DOMAIN work[c] \cup DOMAIN db
    BY OverShape DEF Current
  <2>2. DOMAIN db' \subseteq DOMAIN work[c] \cup DOMAIN db
    BY <1>1, <2>1
  <2>3. DOMAIN <<>> = {}
    OBVIOUS
  <2>4. k \in DOMAIN work[c] \cup DOMAIN db \cup DOMAIN work[d] \cup matched[d]
    BY <1>1, <2>2, <2>3
  <2> QED
    BY <2>4 DEF AnswerInv, Keyed
<1> QED
  BY <1>1, <1>2, <1>3, <1>4, AnswerFrame

LEMMA AnswerInit == Init => AnswerInv
<1> SUFFICES ASSUME Init, NEW c \in Clients PROVE Ended(c) /\ Matched(c) /\ Keyed(c)
  BY DEF AnswerInv
<1>1. /\ mutation[c] = NoMutation /\ script[c] = <<>> /\ results[c] = <<>>
      /\ matched[c] = {} /\ work[c] = <<>> /\ db \in Databases
  BY DEF Init
<1>2. Len(<<>>) = 0 /\ ~Mutates(NoMutation) /\ DOMAIN <<>> = {}
  BY EmptySeq DEF Mutates, NoMutation
<1>3. Ended(c)
  BY <1>1 DEF Ended
<1>4. Matched(c)
  <2>1. Inserted(c) = {}
    BY <1>1, <1>2 DEF Inserted, VenueInserts
  <2> QED
    BY <1>1, <1>2, <2>1 DEF Matched
<1>5. Keyed(c)
  BY <1>1, <1>2 DEF Keyed, OneColumnKeys
<1> QED
  BY <1>3, <1>4, <1>5

LEMMA AnswerNext == Inv /\ AnswerInv /\ [Next]_vars => AnswerInv'
<1> SUFFICES ASSUME Inv, AnswerInv, [Next]_vars PROVE AnswerInv'
  OBVIOUS
<1>1. ASSUME NEW c \in Clients, receive(c) PROVE AnswerInv'
  BY <1>1, AnswerReceive
<1>2. ASSUME NEW c \in Clients, refuse(c) PROVE AnswerInv'
  BY <1>2, AnswerSame DEF refuse
<1>3. ASSUME NEW c \in Clients, next_step(c) PROVE AnswerInv'
  BY <1>3, AnswerNextStep
<1>4. ASSUME NEW c \in Clients, panic(c) PROVE AnswerInv'
  BY <1>4, AnswerSame DEF panic
<1>5. ASSUME NEW c \in Clients, precheck(c) PROVE AnswerInv'
  BY <1>5, AnswerPrecheck
<1>6. ASSUME NEW c \in Clients, run_query(c) PROVE AnswerInv'
  BY <1>6, AnswerRun
<1>7. ASSUME NEW c \in Clients, Fail(c) PROVE AnswerInv'
  BY <1>7, AnswerSame DEF Fail
<1>8. ASSUME NEW c \in Clients, finish(c) PROVE AnswerInv'
  BY <1>8, AnswerFinish
<1>9. ASSUME UNCHANGED vars PROVE AnswerInv'
  BY <1>9, AnswerSame DEF vars
<1> QED
  BY <1>1, <1>2, <1>3, <1>4, <1>5, <1>6, <1>7, <1>8, <1>9
     DEF Next, AllDone, violation, deadlock

(* What a selection by the matched keys finds.                               *)
LEMMA SelectAnswers ==
    ASSUME OneColumnKeys, TableInv, NEW c \in Clients, Keyed(c), NEW s, s.do = "select",
           NEW read, s.read = <<read>>,
           matched[c] = {<<"venues", x>> : x \in s.keys},
           s.keys # {} => s.table = "venues"
    PROVE  {<<"venues", k>> : k \in Range(Returned(c, s))} =
           {k \in matched[c] : k \in Live(c) /\ Current(c)[k].val \in read}
<1> DEFINE found == {l \in Live(c) : /\ l[1] = s.table /\ EqAny(l[2], s.keys)
                                   /\ Readable(s.read, Current(c)[l].val)}
           shown == {k \in matched[c] : k \in Live(c) /\ Current(c)[k].val \in read}
<1>1. Range(Returned(c, s)) = {l[2] : l \in found}
  <2>1. Returned(c, s) = SetToSeq(Selected(c, s)) /\ Selected(c, s) = {l[2] : l \in found}
    BY DEF Returned, Selected
  <2> HIDE DEF found
  <2>2. Range(SetToSeq(Selected(c, s))) = Selected(c, s)
    BY SelectedIsFinite, SetToSeqIsSequence
  <2> QED
    BY <2>1, <2>2
<1>2. \A val : Readable(s.read, val) <=> val \in read
  BY DEF Readable
<1>3. ASSUME NEW l \in found PROVE <<"venues", l[2]>> \in shown
  <2>1. OneColumn(l)
    BY LiveIsKeyed
  <2>2. l[2] = <<l[2][1]>> /\ l = <<l[1], l[2]>>
    BY <2>1, OneColumnShape
  <2>3. 1 \in DOMAIN l[2]
    BY <2>2
  <2>4. PICK key \in s.keys : l[2][1] = key[1]
    BY <2>3 DEF EqAny
  <2>5. <<"venues", key>> \in matched[c] /\ OneColumn(<<"venues", key>>)
    BY DEF Keyed
  <2>6. <<"venues", key>>[2] = key
    OBVIOUS
  <2>7. key = <<key[1]>>
    BY <2>5, <2>6, OneColumnShape
  <2>8. l[2] = key /\ l[1] = "venues"
    BY <2>2, <2>4, <2>7
  <2>9. l = <<"venues", key>>
    BY <2>2, <2>8
  <2>10. l \in Live(c) /\ Current(c)[l].val \in read
    BY <1>2
  <2> HIDE DEF found
  <2> QED
    BY <2>5, <2>8, <2>9, <2>10
<1>4. ASSUME NEW v \in shown PROVE \E l \in found : v = <<"venues", l[2]>>
  <2>1. PICK x \in s.keys : v = <<"venues", x>>
    OBVIOUS
  <2>2. v[1] = "venues" /\ v[2] = x
    BY <2>1
  <2>3. EqAny(v[2], s.keys) /\ s.table = "venues"
    BY <2>1, <2>2 DEF EqAny
  <2>4. v \in found
    BY <1>2, <2>2, <2>3
  <2> HIDE DEF found
  <2> QED
    BY <2>1, <2>2, <2>4
<1> HIDE DEF found, shown
<1>5. {<<"venues", k>> : k \in Range(Returned(c, s))} = shown
  BY <1>1, <1>3, <1>4
<1> QED
  BY <1>5 DEF shown

(* The same for a statement that is the root of the script and its last.     *)
LEMMA RootAnswers ==
    ASSUME OneColumnKeys, TableInv, NEW c \in Clients, Keyed(c), NEW s,
           s.do \in {"update", "delete"}, NEW read, s.read = <<read>>
    PROVE  {<<"venues", k>> : k \in Range(Returned(c, s))} =
           {k \in Matches(c, s) :
              IF s.do = "update" THEN s.set \in read ELSE Current(c)[k].val \in read}
<1> DEFINE found == {v \in Venues(c, s.where) :
                       Readable(s.read, IF s.do = "update" THEN s.set ELSE Current(c)[v].val)}
<1>1. Returned(c, s) = SetToSeq(Selected(c, s)) /\ Selected(c, s) = {v[2] : v \in found}
  BY DEF Returned, Selected
<1>2. \A val : Readable(s.read, val) <=> val \in read
  BY DEF Readable
<1>3. found = {k \in Matches(c, s) :
                 IF s.do = "update" THEN s.set \in read ELSE Current(c)[k].val \in read}
  BY <1>2, MatchesAreKeyed
<1>4. ASSUME NEW k \in found PROVE k = <<"venues", k[2]>>
  <2>1. k[1] = "venues" /\ OneColumn(k)
    BY MatchesAreKeyed DEF Venues
  <2>2. k = <<k[1], k[2]>>
    BY <2>1, OneColumnShape
  <2> QED
    BY <2>1, <2>2
<1> HIDE DEF found
<1>5. Range(Returned(c, s)) = {v[2] : v \in found}
  BY <1>1, SelectedIsFinite, SetToSeqIsSequence
<1>6. {<<"venues", k>> : k \in Range(Returned(c, s))} = found
  BY <1>4, <1>5
<1> QED
  BY <1>3, <1>6

(* The statement that completes a script.                                    *)
LEMMA LastStatement ==
    ASSUME Inv, AnswerInv, NEW c \in Clients, at[c] = "run",
           Len(results[c]) + 1 = Len(script[c])
    PROVE  LET s == Head(pending[c])
               m == mutation[c]
           IN  /\ s.read = <<m.read>>
               /\ \/ /\ matched[c] = {} /\ s.do \in {"update", "delete"}
                     /\ m.kind = "delete" <=> s.do = "delete"
                     /\ s.do = "update" => s.set # Gone.val
                  \/ /\ s.do = "select" /\ matched[c] = {<<"venues", x>> : x \in s.keys}
                     /\ s.keys # {} => s.table = "venues"
                     /\ m.kind # "delete"
<1> DEFINE n == Len(results[c]) + 1
           m == mutation[c]
           s == Head(pending[c])
           step == CurrentStep(c)
           rs == results[c]
<1>1. /\ n \in 1 .. Len(script[c]) /\ Fits(m, step, n)
      /\ step.op \in {"nestedUpdate", "nestedDelete"} => s.do = step.op
      /\ step.op \notin {"nestedUpdate", "nestedDelete"} =>
           Len(pending[c]) = 1 /\ resolve(step, rs) = <<s>>
  BY HeadOfStep DEF Inv
<1>2. Scripted(c) /\ Resulted(c) /\ Matched(c) /\ Comes(m, s, n, matched[c])
  BY HeadComes DEF Inv, ScriptInv, AnswerInv
<1>3. Ends(m, script[c])
  <2>1. Len(<<>>) = 0
    BY EmptySeq
  <2>2. script[c] # <<>>
    BY <1>1, <2>1
  <2> QED
    BY <2>2 DEF AnswerInv, Ended
<1>4. step = script[c][Len(script[c])]
  BY DEF CurrentStep
<1>5. Len(rs) \in Nat /\ Len(rs) = n - 1
  BY <1>2 DEF Resulted, IsSequence
<1>6. \A x, y : <<x>> = <<y>> => x = y
  OBVIOUS
<1> HIDE DEF s, step, rs
<1>7. CASE Mutates(m) /\ ~Nests(m)
  <2>1. n = Root(m)
    BY <1>3, <1>7 DEF Ends
  <2>2. Len(rs) < Root(m)
    BY <1>5, <2>1
  <2>3. matched[c] = {}
    BY <1>2, <1>7, <2>2 DEF Matched, rs
  <2>4. step.op \in {"rootSelect", "update", "delete"}
    BY <1>1, <1>7, <2>1 DEF Fits
  <2>5. /\ step.op \in {"update", "delete"} /\ step.read = <<m.read>>
        /\ m.kind = "delete" <=> step.op = "delete"
        /\ step.op = "update" => step.set # Gone.val
    BY <1>1, <1>7, <2>4 DEF Fits
  <2>6. /\ s.do = step.op /\ s.read = step.read
        /\ step.op = "update" => s.set = step.set
    BY <1>1, <1>6, <2>5 DEF resolve
  <2> QED
    BY <2>3, <2>5, <2>6 DEF s
<1>8. CASE Mutates(m) /\ Nests(m)
  <2>1. step.op = "selectAll" /\ step.of = Root(m) /\ step.read = <<m.read>>
    BY <1>3, <1>4, <1>8 DEF Ends
  <2>2. s = [do |-> "select", table |-> "venues", keys |-> Range(rs[step.of]), read |-> step.read]
    BY <1>1, <1>6, <2>1 DEF resolve
  <2>3. /\ s.do = "select" /\ s.table = "venues" /\ s.keys = Range(rs[Root(m)])
        /\ s.read = <<m.read>> /\ m.kind # "delete"
    BY <1>8, <2>1, <2>2 DEF Nests
  <2>4. ~(Len(rs) < Root(m))
    <3>1. Root(m) \in 1 .. n - 1
      BY <1>1, <2>1 DEF Fits
    <3> QED
      BY <1>5, <3>1
  <2>5. matched[c] = {<<"venues", x>> : x \in Range(rs[Root(m)])}
    BY <1>2, <1>8, <2>4 DEF Matched, rs
  <2> QED
    BY <2>3, <2>5 DEF s
<1>9. CASE ~Mutates(m)
  <2>1. /\ step.op = "selectFirst" /\ step.of = VenueInserts(script[c])
        /\ step.of # {} => step.table = "venues"
        /\ step.read = <<m.read>>
    BY <1>3, <1>4, <1>9 DEF Ends
  <2>2. s = [do |-> "select", table |-> step.table, keys |-> {rs[i][1] : i \in step.of},
             read |-> step.read]
    BY <1>1, <1>6, <2>1 DEF resolve
  <2>3. /\ s.do = "select" /\ s.table = step.table /\ s.keys = {rs[i][1] : i \in step.of}
        /\ s.read = <<m.read>> /\ m.kind # "delete"
    BY <1>9, <2>1, <2>2 DEF Mutates
  <2>4. Inserted(c) = step.of
    <3>1. step.of \subseteq 1 .. n - 1
      BY <1>1, <2>1 DEF Fits
    <3> QED
      BY <1>5, <2>1, <3>1 DEF Inserted, rs
  <2>5. matched[c] = {<<"venues", rs[i][1]>> : i \in step.of}
    BY <1>2, <1>9, <2>4 DEF Matched, rs
  <2> QED
    BY <2>1, <2>3, <2>5 DEF s
<1> QED
  BY <1>7, <1>8, <1>9

(* AnswersMatched, for one request and the step that completes its script.   *)
Answered(c) ==
    LET read == mutation[c].read
        Shown(k) == IF mutation[c].kind = "delete" THEN Current(c)[k].val \in read
                    ELSE k \in Live(c)' /\ Current(c)'[k].val \in read
    IN  {<<"venues", k>> : k \in Range(Last(results'[c]))} = {k \in matched'[c] : Shown(k)}

LEMMA RunAnswers ==
    ASSUME OneColumnKeys, Inv, AnswerInv, NEW c \in Clients, run_query(c), Complete(c)'
    PROVE  Answered(c)
<1> DEFINE s == Head(pending[c])
           m == mutation[c]
           rows == Returned(c, s)
           answer == {<<"venues", k>> : k \in Range(rows)}
           Roots == {"rootSelect", "update", "delete"}
           Matching(old) == IF s.do \in Roots THEN old \cup Matches(c, s)
                            ELSE IF s.do = "insert" /\ s.table = "venues"
                            THEN old \cup Range(NewKeys(s))
                            ELSE old
<1>1. /\ at[c] = "run" /\ Done(c, rows) /\ script' = script /\ db' = db
      /\ work' = [work EXCEPT ![c] = Over(Writes(c, s), @)]
      /\ matched' = [matched EXCEPT ![c] = Matching(@)]
  BY DEF run_query
<1>2. /\ matched'[c] = Matching(matched[c])
      /\ at'[c] = IF Len(pending[c]) = 1 THEN "next" ELSE "run"
      /\ results'[c] = IF Len(pending[c]) = 1 THEN Append(results[c], rows) ELSE results[c]
      /\ work'[c] = Over(Writes(c, s), work[c])
  BY <1>1 DEF Done, Inv, ScriptInv, Domains
<1>3. at'[c] = "next" /\ Len(results'[c]) = Len(script[c])
  BY <1>1 DEF Complete
<1>4. results'[c] = Append(results[c], rows)
  BY <1>2, <1>3
<1> HIDE DEF rows
<1>5. /\ Len(results'[c]) = Len(results[c]) + 1 /\ Last(results'[c]) = rows
  <2>1. IsSequence(results[c])
    BY DEF Inv, ScriptInv, Resulted
  <2>2. Len(results'[c]) = Len(results[c]) + 1 /\ results'[c][Len(results[c]) + 1] = rows
    BY <1>4, <2>1, SequenceAppend
  <2> QED
    BY <2>2 DEF Last
<1>6. Len(results[c]) + 1 = Len(script[c])
  BY <1>3, <1>5
<1>7. /\ s.read = <<m.read>>
      /\ \/ /\ matched[c] = {} /\ s.do \in {"update", "delete"}
            /\ m.kind = "delete" <=> s.do = "delete"
            /\ s.do = "update" => s.set # Gone.val
         \/ /\ s.do = "select" /\ matched[c] = {<<"venues", x>> : x \in s.keys}
            /\ s.keys # {} => s.table = "venues"
            /\ m.kind # "delete"
  BY <1>1, <1>6, LastStatement
<1>8. Keyed(c) /\ TableInv
  BY DEF Inv, AnswerInv
<1>9. ASSUME s.do \in {"update", "delete"}
      PROVE  answer = {k \in Matches(c, s) :
                         IF s.do = "update" THEN s.set \in m.read ELSE Current(c)[k].val \in m.read}
  BY <1>7, <1>8, <1>9, RootAnswers DEF rows
<1>10. CASE matched[c] = {} /\ s.do = "delete" /\ m.kind = "delete"
  <2>1. matched'[c] = Matches(c, s)
    BY <1>2, <1>10
  <2>2. answer = {k \in matched'[c] : Current(c)[k].val \in m.read}
    BY <1>9, <1>10, <2>1
  <2> QED
    BY <1>5, <1>10, <2>2 DEF Answered
<1>11. CASE matched[c] = {} /\ s.do = "update" /\ m.kind # "delete" /\ s.set # Gone.val
  <2>1. matched'[c] = Matches(c, s)
    BY <1>2, <1>11
  <2>2. ASSUME NEW k \in Matches(c, s)
        PROVE  k \in Live(c)' /\ Current(c)'[k].val = s.set
    <3> DEFINE new == Writes(c, s)
    <3>1. k \in Venues(c, s.where)
      BY <1>8, MatchesAreKeyed
    <3>2. k \in DOMAIN new /\ new[k] = [val |-> s.set, up |-> Current(c)[k].up]
      BY <1>11, <3>1 DEF Writes
    <3>3. new[k].val = s.set /\ new[k] # Gone
      BY <1>11, <3>2 DEF Gone
    <3> HIDE DEF new
    <3>4. /\ k \in DOMAIN Over(new, work[c]) /\ Over(new, work[c])[k] = new[k]
      BY <3>2 DEF Over
    <3>5. k \in DOMAIN work'[c] /\ work'[c][k] = new[k]
      BY <1>2, <3>4, Zenon DEF new
    <3>6. k \in DOMAIN Current(c)' /\ Current(c)'[k] = new[k]
      BY <3>5 DEF Current, Over
    <3> QED
      BY <3>3, <3>6 DEF Live
  <2>3. answer = {k \in Matches(c, s) : s.set \in m.read}
    BY <1>9, <1>11
  <2>4. answer = {k \in matched'[c] : k \in Live(c)' /\ Current(c)'[k].val \in m.read}
    BY <2>1, <2>2, <2>3
  <2> QED
    BY <1>5, <1>11, <2>4 DEF Answered
<1>12. CASE /\ s.do = "select" /\ matched[c] = {<<"venues", x>> : x \in s.keys}
            /\ s.keys # {} => s.table = "venues"
            /\ m.kind # "delete"
  <2>1. matched'[c] = matched[c]
    BY <1>2, <1>12
  <2>2. answer = {k \in matched[c] : k \in Live(c) /\ Current(c)[k].val \in m.read}
    BY <1>7, <1>8, <1>12, SelectAnswers DEF rows
  <2>3. Current(c)' = Current(c)
    <3> DEFINE none == Writes(c, s)
    <3>1. DOMAIN none = {}
      BY <1>12 DEF Writes
    <3> HIDE DEF none
    <3>2. /\ DOMAIN Over(none, work[c]) = DOMAIN work[c]
          /\ \A k \in DOMAIN work[c] : Over(none, work[c])[k] = work[c][k]
      <4>1. /\ DOMAIN Over(none, work[c]) = DOMAIN none \cup DOMAIN work[c]
            /\ \A k \in DOMAIN work[c] \ DOMAIN none : Over(none, work[c])[k] = work[c][k]
        BY OverShape
      <4> QED
        BY <3>1, <4>1, Zenon
    <3>3. /\ DOMAIN work'[c] = DOMAIN work[c]
          /\ \A k \in DOMAIN work[c] : work'[c][k] = work[c][k]
      BY <1>2, <3>2, Zenon DEF none
    <3> QED
      BY <1>1, <3>3 DEF Current, Over
  <2>4. Live(c)' = Live(c)
    BY <2>3 DEF Live
  <2>5. answer = {k \in matched'[c] : k \in Live(c)' /\ Current(c)'[k].val \in m.read}
    BY <2>1, <2>2, <2>3, <2>4
  <2> QED
    BY <1>5, <1>12, <2>5 DEF Answered
<1> HIDE DEF s, m, answer
<1> QED
  BY <1>7, <1>10, <1>11, <1>12

(* No other step completes a script.                                         *)
LEMMA NextStepCompletesNothing ==
    ASSUME Inv, AnswerInv, NEW c \in Clients, next_step(c), Complete(c)'
    PROVE  FALSE
<1> DEFINE n == Len(results[c]) + 1
           m == mutation[c]
           step == script[c][n]
           statements == resolve(step, results[c])
<1>1. /\ n <= Len(script[c]) /\ script' = script
      /\ results' = [results EXCEPT ![c] = IF statements = <<>> THEN Append(@, <<>>) ELSE @]
      /\ at' = [at EXCEPT ![c] = IF statements = <<>> THEN "next" ELSE "run"]
  BY DEF next_step
<1>2. /\ results'[c] = IF statements = <<>> THEN Append(results[c], <<>>) ELSE results[c]
      /\ at'[c] = IF statements = <<>> THEN "next" ELSE "run"
  BY <1>1 DEF Inv, ScriptInv, Domains
<1>3. statements = <<>> /\ Len(results'[c]) = Len(script[c])
  BY <1>1, <1>2 DEF Complete
<1>4. n = Len(script[c])
  <2>1. IsSequence(results[c])
    BY DEF Inv, ScriptInv, Resulted
  <2>2. Len(results'[c]) = n
    BY <1>2, <1>3, <2>1, SequenceAppend
  <2> QED
    BY <1>3, <2>2
<1>5. Fits(m, step, n) /\ Ends(m, script[c])
  <2>1. n \in 1 .. Len(script[c]) /\ 0 + n = n
    BY <1>1 DEF Inv, ScriptInv, Resulted, Scripted, Steps, IsSequence
  <2>2. Fits(m, script[c][n], 0 + n)
    BY <2>1 DEF Inv, ScriptInv, Scripted, Steps
  <2>3. script[c] # <<>>
    BY <2>1, EmptySeq
  <2> QED
    BY <2>1, <2>2, <2>3 DEF AnswerInv, Ended
<1>6. step = script[c][Len(script[c])]
  BY <1>4
<1>7. \A x : <<x>> # <<>>
  OBVIOUS
<1>8. \/ Mutates(m) /\ n = Root(m)
      \/ step.op \in {"selectFirst", "selectAll"}
  BY <1>4, <1>5, <1>6 DEF Ends
<1> HIDE DEF step, n
<1>9. step.op \in {"rootSelect", "update", "delete", "selectFirst", "selectAll"}
  BY <1>5, <1>8 DEF Fits
<1> QED
  BY <1>3, <1>7, <1>9 DEF resolve

LEMMA PrecheckCompletesNothing ==
    ASSUME Inv, AnswerInv, NEW c \in Clients, precheck(c), Complete(c)'
    PROVE  FALSE
<1>1. at[c] = "run" /\ Head(pending[c]).do = "precheck"
  BY DEF precheck
<1>2. at'[c] = "next" /\ Len(results'[c]) = Len(script'[c])
  BY DEF Complete
<1>3. ~Fail(c)
  BY <1>2 DEF Fail, Inv, ScriptInv, Domains
<1> DEFINE rows == <<<<"true">>>>
<1>4. Done(c, rows) /\ script' = script
  BY <1>3 DEF precheck
<1> HIDE DEF rows
<1>5. results'[c] = Append(results[c], rows)
  BY <1>2, <1>4 DEF Done, Inv, ScriptInv, Domains
<1>6. Len(results[c]) + 1 = Len(script[c])
  <2>1. IsSequence(results[c])
    BY DEF Inv, ScriptInv, Resulted
  <2> QED
    BY <1>2, <1>4, <1>5, <2>1, SequenceAppend
<1> QED
  BY <1>1, <1>6, LastStatement

LEMMA ReceiveCompletesNothing ==
    ASSUME Inv, AnswerInv', NEW c \in Clients, receive(c), Complete(c)'
    PROVE  FALSE
<1>1. results[c] = <<>> /\ results' = results
  BY DEF receive, Inv, ScriptInv, Running
<1>2. Len(results'[c]) = 0
  BY <1>1, EmptySeq
<1>3. Len(script'[c]) \in Nat \ {0}
  BY DEF AnswerInv, Ended, Ends, Complete
<1> QED
  BY <1>2, <1>3 DEF Complete

LEMMA StepAnswers ==
    ASSUME OneColumnKeys, Inv, AnswerInv, AnswerInv', [Next]_vars,
           NEW c \in Clients, ~Complete(c), Complete(c)'
    PROVE  Answered(c)
<1>1. at'[c] = "next"
  BY DEF Complete
<1>2. ASSUME at'[c] = at[c], script'[c] = script[c], results'[c] = results[c] PROVE FALSE
  BY <1>2 DEF Complete
<1>3. ASSUME NEW d \in Clients, receive(d) PROVE Answered(c)
  <2>1. CASE d = c
    BY <1>3, <2>1, ReceiveCompletesNothing
  <2>2. CASE d # c
    BY <1>2, <1>3, <2>2 DEF receive, Inv, ScriptInv, Domains
  <2> QED
    BY <2>1, <2>2
<1>4. ASSUME NEW d \in Clients, NEW where, where # "next", at' = [at EXCEPT ![d] = where],
             UNCHANGED <<script, results>>
      PROVE  Answered(c)
  <2>1. d # c
    BY <1>1, <1>4 DEF Inv, ScriptInv, Domains
  <2> QED
    BY <1>2, <1>4, <2>1 DEF Inv, ScriptInv, Domains
<1>5. ASSUME NEW d \in Clients, next_step(d) PROVE Answered(c)
  <2>1. CASE d = c
    BY <1>5, <2>1, NextStepCompletesNothing
  <2>2. CASE d # c
    BY <1>2, <1>5, <2>2 DEF next_step, Inv, ScriptInv, Domains
  <2> QED
    BY <2>1, <2>2
<1>6. ASSUME NEW d \in Clients, precheck(d) PROVE Answered(c)
  <2>1. CASE d = c
    BY <1>6, <2>1, PrecheckCompletesNothing
  <2>2. CASE d # c
    BY <1>2, <1>6, <2>2 DEF precheck, Done, Fail, Inv, ScriptInv, Domains
  <2> QED
    BY <2>1, <2>2
<1>7. ASSUME NEW d \in Clients, run_query(d) PROVE Answered(c)
  <2>1. CASE d = c
    BY <1>7, <2>1, RunAnswers
  <2>2. CASE d # c
    BY <1>2, <1>7, <2>2 DEF run_query, Done, Inv, ScriptInv, Domains
  <2> QED
    BY <2>1, <2>2
<1>8. ASSUME NEW d \in Clients, finish(d) PROVE Answered(c)
  <2>1. d # c
    BY <1>1, <1>8 DEF finish, Inv, ScriptInv, Domains
  <2> QED
    BY <1>2, <1>8, <2>1 DEF finish, Inv, ScriptInv, Domains
<1>9. ASSUME UNCHANGED vars PROVE Answered(c)
  BY <1>2, <1>9 DEF vars
<1>10. ASSUME NEW d \in Clients, refuse(d) \/ panic(d) \/ Fail(d) PROVE Answered(c)
  <2>1. "failed" # "next" /\ "panicked" # "next"
    OBVIOUS
  <2> QED
    BY <1>4, <1>10, <2>1 DEF refuse, panic, Fail
<1> QED
  BY <1>3, <1>5, <1>6, <1>7, <1>8, <1>9, <1>10 DEF Next, AllDone, violation, deadlock

(* When keys have one column, the answer of a completed script has, of the   *)
(* venues that were created, matched or deleted, exactly those that are      *)
(* there and that the user may read.  With more columns it need not: the     *)
(* selection compares the keys column by column                              *)
(* (update/multi_statement_strategy.rs).                                     *)
THEOREM AnswersAreMatched ==
    ASSUME OneColumnKeys
    PROVE  Spec => AnswersMatched
<1>1. Init => AnswerInv
  BY AnswerInit
<1>2. Inv /\ AnswerInv /\ [Next]_vars => AnswerInv'
  BY AnswerNext
<1>3. Inv /\ AnswerInv /\ AnswerInv' /\ [Next]_vars =>
        [\A c \in Clients : ~Complete(c) /\ Complete(c)' =>
           LET read == mutation[c].read
               Shown(k) == IF mutation[c].kind = "delete" THEN Current(c)[k].val \in read
                           ELSE k \in Live(c)' /\ Current(c)'[k].val \in read
           IN  {<<"venues", k>> : k \in Range(Last(results'[c]))} =
               {k \in matched'[c] : Shown(k)}]_vars
  BY StepAnswers, Zenon DEF Answered
<1> QED
  BY <1>1, <1>2, <1>3, Invariance, PTL DEF Spec, AnswersMatched
=============================================================================
