--------------------------- MODULE AtomicRequests ---------------------------
(***************************************************************************)
(* What the server promises the sender of a request: the writes of a       *)
(* request reach the store together or not at all, they do so before the   *)
(* answer, and the answer "ok" is given only when they have.  Clients,     *)
(* pools, transactions and failures are not visible at this level.         *)
(***************************************************************************)
EXTENDS Naturals

CONSTANTS Requests, Answers

VARIABLES
    work,    \* how many writes each request has performed
    store,   \* the writes others can see, <<r, n>> being the nth of r
    answer   \* the set of outcomes in the response to each request

vars == <<work, store, answer>>

Init ==
    /\ work = [r \in Requests |-> 0]
    /\ store = {}
    /\ answer = [r \in Requests |-> {}]

All(r) == {<<r, n>> : n \in 1..work[r]}

(* Nothing of r is visible yet and r is unanswered.                        *)
Private(r) == answer[r] = {} /\ \A w \in store : w[1] # r

(* Another write of r; the first may be published as it is made.           *)
Perform(r) ==
    /\ Private(r)
    /\ work' = [work EXCEPT ![r] = @ + 1]
    /\ \/ store' = store
       \/ work[r] = 0 /\ store' = store \cup {<<r, 1>>}
    /\ UNCHANGED answer

(* The answer to r, and with it at the latest the publication of its work. *)
Answer(r, a) ==
    /\ answer[r] = {}
    /\ \/ store' = store
       \/ Private(r) /\ store' = store \cup All(r)
    /\ "ok" \in a => All(r) \subseteq store'
    /\ answer' = [answer EXCEPT ![r] = a]
    /\ UNCHANGED work

Next == \E r \in Requests : Perform(r) \/ \E a \in Answers : Answer(r, a)

Spec == Init /\ [][Next]_vars
=============================================================================
