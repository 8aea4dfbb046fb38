-------------------------- MODULE CatalogueProofs --------------------------
(***************************************************************************)
(* What the steps of PaymentRoutes preserve, for every number of gateways  *)
(* and of requests at once, and on that what the steps of Catalogue do,    *)
(* for every number of requests, gateways and amounts: the history of a    *)
(* price, what an order is charged.                                        *)
(***************************************************************************)
EXTENDS Catalogue, FiniteSetTheorems, SequenceTheorems, TLAPS
-----------------------------------------------------------------------------
(* Routes and requests.                                                    *)

Table == [Gateways -> Route \cup {NoRoute}]

Ids      == Nat \ {0}
Creating == [op : {"create"}, g : Gateways, id : Ids, to : Ids, shifts : BOOLEAN,
             enabled : BOOLEAN]
Switching == [op : {"switch"}, g : Gateways, id : Ids, sets : {"enable", "disable"}]
Moving   == [op : {"move"}, g : Gateways, id : Ids, from : Ids, to : Ids,
             sets : {"enable", "disable", "keep"}]
Numbers  == UNION {[D -> Ids] : D \in SUBSET Gateways}
Reordering == {q \in [op : {"reorder"}, steps : Numbers, ids : Numbers] :
                  DOMAIN q.ids = DOMAIN q.steps}
Deleting == [op : {"delete"}, g : Gateways, id : Ids, from : Ids]
Requests == Creating \cup Switching \cup Moving \cup Reordering \cup Deleting

Checked  == [pc : {"checked"}, q : Requests]
Held     == [pc : {"written"}, q : Requests,
             writes : UNION {[D -> Route \cup {NoRoute}] : D \in SUBSET Gateways}]

\* The step that q gives the route of g, which is at step n (0 for no route).
NewStep(q, g, n) ==
    CASE q.op = "create" -> IF g = q.g THEN q.to
                            ELSE IF q.shifts /\ q.to <= n THEN n + 1 ELSE n
      [] q.op = "switch" -> n
      [] q.op = "move"   -> IF g = q.g THEN q.to
                            ELSE IF q.to < q.from
                            THEN IF q.to <= n /\ n < q.from THEN n + 1 ELSE n
                            ELSE IF q.from < n /\ n <= q.to THEN n - 1 ELSE n
      [] q.op = "reorder" -> IF g \in DOMAIN q.steps THEN q.steps[g] ELSE n
      [] q.op = "delete"  -> IF g = q.g THEN 0 ELSE IF q.from < n THEN n - 1 ELSE n

LEMMA Rows ==
    ASSUME NEW x \in Route \cup {NoRoute}
    PROVE  /\ x.priority \in Nat /\ x.id \in Nat /\ x.enabled \in BOOLEAN
           /\ x = NoRoute <=> x.priority = 0
           /\ x = NoRoute <=> x.id = 0
           /\ x = NoRoute => ~x.enabled
           /\ x # NoRoute => x \in Route
<1>1. CASE x = NoRoute
  <2>1. x.priority = 0 /\ x.id = 0 /\ x.enabled = FALSE
    BY <1>1 DEF NoRoute
  <2>2. ~x.enabled /\ x.enabled \in BOOLEAN
    BY <2>1, Zenon
  <2>3. x.priority \in Nat /\ x.id \in Nat
    BY <2>1
  <2> QED
    BY <1>1, <2>1, <2>2, <2>3, Zenon
<1>2. CASE x \in Route
  <2>1. x.id \in Nat \ {0} /\ x.priority \in Nat \ {0} /\ x.enabled \in BOOLEAN
    BY <1>2 DEF Route
  <2>2. NoRoute.id = 0
    BY DEF NoRoute
  <2>3. x # NoRoute
    BY <2>1, <2>2
  <2> QED
    BY <1>2, <2>1, <2>3
<1> QED
  BY <1>1, <1>2

LEMMA RequestFields ==
    ASSUME NEW q \in Requests
    PROVE  /\ q.op \in Ops
           /\ q.op = "create" => q \in Creating
           /\ q.op = "switch" => q \in Switching
           /\ q.op = "move" => q \in Moving
           /\ q.op = "reorder" => q \in Reordering
           /\ q.op = "delete" => q \in Deleting
BY DEF Requests, Creating, Switching, Moving, Reordering, Deleting, Ops

\* A row at another step.
LEMMA Stepped ==
    ASSUME NEW x \in Route, NEW n \in Ids
    PROVE  LET y == [x EXCEPT !.priority = n]
           IN /\ y \in Route /\ y.priority = n /\ y.id = x.id /\ y.enabled = x.enabled
BY DEF Route, Ids

LEMMA SwitchedRow ==
    ASSUME NEW x \in Route, NEW on \in BOOLEAN
    PROVE  LET y == [x EXCEPT !.enabled = on]
           IN /\ y \in Route /\ y.priority = x.priority /\ y.id = x.id /\ y.enabled = on
BY DEF Route

LEMMA UpRows ==
    ASSUME NEW r \in Table, NEW steps
    PROVE  /\ Up(r, steps) \in Table
           /\ \A g \in Gateways :
                 /\ Up(r, steps)[g].priority = IF r[g] # NoRoute /\ r[g].priority \in steps
                                               THEN r[g].priority + 1 ELSE r[g].priority
                 /\ Up(r, steps)[g].enabled = r[g].enabled
                 /\ Up(r, steps)[g].id = r[g].id
<1>1. ASSUME NEW g \in Gateways
      PROVE  /\ Up(r, steps)[g] \in Route \cup {NoRoute}
             /\ Up(r, steps)[g].priority = IF r[g] # NoRoute /\ r[g].priority \in steps
                                           THEN r[g].priority + 1 ELSE r[g].priority
             /\ Up(r, steps)[g].enabled = r[g].enabled
             /\ Up(r, steps)[g].id = r[g].id
  <2>1. r[g] \in Route \cup {NoRoute}
    BY DEF Table
  <2>2. CASE r[g] # NoRoute /\ r[g].priority \in steps
    <3>1. Up(r, steps)[g] = [r[g] EXCEPT !.priority = r[g].priority + 1]
      BY <2>2 DEF Up
    <3>2. r[g] \in Route /\ r[g].priority + 1 \in Ids
      BY <2>1, <2>2, Rows DEF Ids
    <3> QED
      BY <2>2, <3>1, <3>2, Stepped
  <2>3. CASE ~(r[g] # NoRoute /\ r[g].priority \in steps)
    <3>1. Up(r, steps)[g] = r[g]
      BY <2>3 DEF Up
    <3> QED
      BY <2>1, <2>3, <3>1
  <2> QED
    BY <2>2, <2>3
<1>2. Up(r, steps) \in Table
  BY <1>1 DEF Up, Table
<1> QED
  BY <1>1, <1>2

LEMMA DownRows ==
    ASSUME NEW r \in Table, NEW steps, 0 \notin steps, 1 \notin steps
    PROVE  /\ Down(r, steps) \in Table
           /\ \A g \in Gateways :
                 /\ Down(r, steps)[g].priority = IF r[g] # NoRoute /\ r[g].priority \in steps
                                                 THEN r[g].priority - 1 ELSE r[g].priority
                 /\ Down(r, steps)[g].enabled = r[g].enabled
                 /\ Down(r, steps)[g].id = r[g].id
<1>1. ASSUME NEW g \in Gateways
      PROVE  /\ Down(r, steps)[g] \in Route \cup {NoRoute}
             /\ Down(r, steps)[g].priority = IF r[g] # NoRoute /\ r[g].priority \in steps
                                             THEN r[g].priority - 1 ELSE r[g].priority
             /\ Down(r, steps)[g].enabled = r[g].enabled
             /\ Down(r, steps)[g].id = r[g].id
  <2>1. r[g] \in Route \cup {NoRoute}
    BY DEF Table
  <2>2. CASE r[g] # NoRoute /\ r[g].priority \in steps
    <3>1. Down(r, steps)[g] = [r[g] EXCEPT !.priority = r[g].priority - 1]
      BY <2>2 DEF Down
    <3>2. r[g] \in Route /\ r[g].priority - 1 \in Ids
      BY <2>1, <2>2, Rows DEF Ids
    <3> QED
      BY <2>2, <3>1, <3>2, Stepped
  <2>3. CASE ~(r[g] # NoRoute /\ r[g].priority \in steps)
    <3>1. Down(r, steps)[g] = r[g]
      BY <2>3 DEF Down
    <3> QED
      BY <2>1, <2>3, <3>1
  <2> QED
    BY <2>2, <2>3
<1>2. Down(r, steps) \in Table
  BY <1>1 DEF Down, Table
<1> QED
  BY <1>1, <1>2

-----------------------------------------------------------------------------
(* What a transaction makes of the rows.                                   *)

\* Steps, types and switches, by kind of request.  A row keeps its switch unless the
\* request is about it.
Rewrites(r, q, w) ==
    /\ w \in Table
    /\ \A g \in Gateways : /\ w[g].priority = NewStep(q, g, r[g].priority)
                           /\ q.op = "reorder" \/ g # q.g => w[g].enabled = r[g].enabled

LEMMA CreateRewrites ==
    ASSUME NEW r \in Table, NEW q \in Creating
    PROVE  Rewrites(r, q, Written(r, q)) /\ Written(r, q)[q.g].enabled = q.enabled
<1> DEFINE steps == IF q.shifts THEN From(q.to) ELSE {}
           row   == [id |-> q.id, priority |-> q.to, enabled |-> q.enabled]
           u     == Up(r, steps)
<1>1. /\ u \in Table
      /\ \A g \in Gateways :
            /\ u[g].priority = IF r[g] # NoRoute /\ r[g].priority \in steps
                               THEN r[g].priority + 1 ELSE r[g].priority
            /\ u[g].enabled = r[g].enabled
  BY UpRows
<1>2. row \in Route /\ row.priority = q.to /\ row.enabled = q.enabled /\ q.g \in Gateways
  BY DEF Creating, Route, Ids
<1>3. Written(r, q) = [u EXCEPT ![q.g] = row]
  BY DEF Written, Creating
<1>4. q.op = "create" /\ q.to \in Nat \ {0} /\ q.shifts \in BOOLEAN
  BY DEF Creating, Ids
<1> HIDE DEF u, row
<1>5. Written(r, q) \in Table /\ Written(r, q)[q.g] = row
      /\ \A g \in Gateways \ {q.g} : Written(r, q)[g] = u[g]
  BY <1>1, <1>2, <1>3 DEF Table
<1>6. ASSUME NEW g \in Gateways \ {q.g}
      PROVE  Written(r, q)[g].priority = NewStep(q, g, r[g].priority)
  <2>1. r[g].priority \in Nat /\ (r[g] = NoRoute <=> r[g].priority = 0)
    BY Rows DEF Table
  <2>2. CASE q.shifts
    <3>1. r[g].priority \in steps <=> q.to <= r[g].priority
      BY <2>1, <2>2 DEF From
    <3> QED
      BY <1>1, <1>4, <1>5, <2>1, <2>2, <3>1 DEF NewStep
  <2>3. CASE ~q.shifts
    <3>1. r[g].priority \notin steps
      BY <2>3
    <3> QED
      BY <1>1, <1>4, <1>5, <2>3, <3>1 DEF NewStep
  <2> QED
    BY <2>2, <2>3
<1>7. Written(r, q)[q.g].priority = NewStep(q, q.g, r[q.g].priority)
  BY <1>2, <1>4, <1>5 DEF NewStep
<1>8. \A g \in Gateways : g # q.g => Written(r, q)[g].enabled = r[g].enabled
  BY <1>1, <1>5
<1> QED
  BY <1>2, <1>4, <1>5, <1>6, <1>7, <1>8 DEF Rewrites

LEMMA SwitchRewrites ==
    ASSUME NEW r \in Table, NEW q \in Switching, Found(r, q)
    PROVE  /\ Rewrites(r, q, Written(r, q))
           /\ q.sets # "disable" => Written(r, q)[q.g].enabled
<1>1. q.op = "switch" /\ q.g \in Gateways /\ q.id \in Ids /\ q.sets \in {"enable", "disable"}
  BY DEF Switching
<1>2. r[q.g].id = q.id
  BY <1>1 DEF Found
<1>3. r[q.g] \in Route
  BY <1>1, <1>2, Rows DEF Table, Ids
<1>4. PICK on \in BOOLEAN : on = Switched(r, q)
  BY DEF Switched
<1> DEFINE row == [r[q.g] EXCEPT !.enabled = on]
<1>5. row \in Route /\ row.priority = r[q.g].priority /\ row.enabled = on
  BY <1>3, SwitchedRow
<1>6. Written(r, q) = [r EXCEPT ![q.g] = row]
  BY <1>1, <1>4 DEF Written
<1> HIDE DEF row
<1>7. Written(r, q) \in Table /\ Written(r, q)[q.g] = row
      /\ \A g \in Gateways \ {q.g} : Written(r, q)[g] = r[g]
  BY <1>1, <1>5, <1>6 DEF Table
<1>8. q.sets # "disable" => on
  BY <1>1, <1>4, Zenon DEF Switched
<1>9. q.sets # "disable" => Written(r, q)[q.g].enabled
  BY <1>5, <1>7, <1>8, Zenon
<1>10. \A g \in Gateways : Written(r, q)[g].priority = NewStep(q, g, r[g].priority)
  BY <1>1, <1>5, <1>7 DEF NewStep
<1>11. \A g \in Gateways : g # q.g => Written(r, q)[g].enabled = r[g].enabled
  BY <1>7
<1>12. Rewrites(r, q, Written(r, q))
  BY <1>1, <1>7, <1>10, <1>11 DEF Rewrites
<1> QED
  BY <1>9, <1>12, Zenon

LEMMA MoveRewrites ==
    ASSUME NEW r \in Table, NEW q \in Moving, Found(r, q)
    PROVE  /\ Rewrites(r, q, Written(r, q))
           /\ q.sets = "enable" => Written(r, q)[q.g].enabled
           /\ q.sets = "keep" => Written(r, q)[q.g].enabled = r[q.g].enabled
<1>1. /\ q.op = "move" /\ q.g \in Gateways /\ q.id \in Ids
      /\ q.from \in Nat \ {0} /\ q.to \in Nat \ {0} /\ q.sets \in {"enable", "disable", "keep"}
  BY DEF Moving, Ids
<1>2. r[q.g].id = q.id
  BY <1>1 DEF Found
<1>3. r[q.g] \in Route
  BY <1>1, <1>2, Rows DEF Table, Ids
<1>4. PICK on \in BOOLEAN : on = Switched(r, q)
  BY DEF Switched
<1> DEFINE u == IF q.to < q.from THEN Up(r, q.to .. q.from - 1) ELSE Down(r, q.from + 1 .. q.to)
<1>5. /\ u \in Table
      /\ \A g \in Gateways :
            /\ u[g].priority = IF q.to < q.from
                               THEN IF q.to <= r[g].priority /\ r[g].priority < q.from
                                    THEN r[g].priority + 1 ELSE r[g].priority
                               ELSE IF q.from < r[g].priority /\ r[g].priority <= q.to
                                    THEN r[g].priority - 1 ELSE r[g].priority
            /\ u[g].enabled = r[g].enabled
            /\ u[g].id = r[g].id
  <2>1. \A g \in Gateways : r[g].priority \in Nat /\ (r[g] = NoRoute <=> r[g].priority = 0)
    BY Rows DEF Table
  <2>2. CASE q.to < q.from
    BY <1>1, <2>1, <2>2, UpRows
  <2>3. CASE ~(q.to < q.from)
    <3>1. 0 \notin q.from + 1 .. q.to /\ 1 \notin q.from + 1 .. q.to
      BY <1>1
    <3> QED
      BY <1>1, <2>1, <2>3, <3>1, DownRows
  <2> QED
    BY <2>2, <2>3
<1>6. u[q.g] \in Route
  <2>1. u[q.g] \in Route \cup {NoRoute} /\ u[q.g].id # 0
    BY <1>1, <1>2, <1>5 DEF Table, Ids
  <2> QED
    BY <2>1, Rows
<1>7. Written(r, q) = [u EXCEPT ![q.g].priority = q.to, ![q.g].enabled = on]
  BY <1>1, <1>4 DEF Written
<1> HIDE DEF u
<1> DEFINE row == [[u[q.g] EXCEPT !.priority = q.to] EXCEPT !.enabled = on]
<1>8. row \in Route /\ row.priority = q.to /\ row.enabled = on
  <2>1. PICK y : y = [u[q.g] EXCEPT !.priority = q.to]
    OBVIOUS
  <2>2. y \in Route /\ y.priority = q.to
    BY <1>1, <1>6, <2>1, Stepped DEF Ids
  <2> QED
    BY <2>1, <2>2, SwitchedRow
<1>9. Written(r, q) = [u EXCEPT ![q.g] = row]
  BY <1>1, <1>5, <1>7 DEF Table
<1> HIDE DEF row
<1>10. Written(r, q) \in Table /\ Written(r, q)[q.g] = row
       /\ \A g \in Gateways \ {q.g} : Written(r, q)[g] = u[g]
  BY <1>1, <1>5, <1>8, <1>9 DEF Table
<1>11. q.sets = "enable" => on
  BY <1>4, Zenon DEF Switched
<1>12. q.sets = "keep" => on = r[q.g].enabled
  <2>1. r[q.g].enabled \in BOOLEAN
    BY <1>3, Rows
  <2>2. q.sets = "keep" => q.sets # "enable"
    OBVIOUS
  <2> QED
    BY <1>4, <2>1, <2>2, Zenon DEF Switched
<1>13. \A g \in Gateways : Written(r, q)[g].priority = NewStep(q, g, r[g].priority)
  BY <1>1, <1>5, <1>8, <1>10 DEF NewStep
<1>14. \A g \in Gateways : g # q.g => Written(r, q)[g].enabled = r[g].enabled
  BY <1>5, <1>10
<1>15. q.sets = "enable" => Written(r, q)[q.g].enabled
  BY <1>8, <1>10, <1>11, Zenon
<1> QED
  BY <1>1, <1>8, <1>10, <1>12, <1>13, <1>14, <1>15 DEF Rewrites

LEMMA ReorderRewrites ==
    ASSUME NEW r \in Table, NEW q \in Reordering, Found(r, q)
    PROVE  Rewrites(r, q, Written(r, q))
<1>1. /\ q.op = "reorder" /\ q.steps \in Numbers /\ q.ids \in Numbers
      /\ DOMAIN q.ids = DOMAIN q.steps
  BY DEF Reordering
<1>2. /\ DOMAIN q.steps \subseteq Gateways
      /\ \A g \in DOMAIN q.steps : q.steps[g] \in Ids /\ q.ids[g] \in Ids
  BY <1>1 DEF Numbers
<1>3. \A g \in DOMAIN q.steps : r[g].id = q.ids[g]
  BY <1>1 DEF Found
<1>4. Written(r, q) = [g \in Gateways |-> IF g \in DOMAIN q.steps
                         THEN [r[g] EXCEPT !.priority = q.steps[g]] ELSE r[g]]
  BY <1>1 DEF Written
<1>5. ASSUME NEW g \in Gateways
      PROVE  /\ Written(r, q)[g] \in Route \cup {NoRoute}
             /\ Written(r, q)[g].priority = NewStep(q, g, r[g].priority)
             /\ Written(r, q)[g].enabled = r[g].enabled
  <2>1. r[g] \in Route \cup {NoRoute}
    BY DEF Table
  <2>2. CASE g \in DOMAIN q.steps
    <3>1. r[g] \in Route
      BY <1>2, <1>3, <2>1, <2>2, Rows DEF Ids
    <3>2. Written(r, q)[g] = [r[g] EXCEPT !.priority = q.steps[g]]
      BY <1>4, <2>2
    <3>3. q.steps[g] \in Ids
      BY <1>2, <2>2
    <3>4. NewStep(q, g, r[g].priority) = q.steps[g]
      BY <1>1, <2>2 DEF NewStep
    <3> QED
      BY <3>1, <3>2, <3>3, <3>4, Stepped
  <2>3. CASE g \notin DOMAIN q.steps
    <3>1. Written(r, q)[g] = r[g]
      BY <1>4, <2>3
    <3>2. NewStep(q, g, r[g].priority) = r[g].priority
      BY <1>1, <2>3 DEF NewStep
    <3> QED
      BY <2>1, <3>1, <3>2
  <2> QED
    BY <2>2, <2>3
<1>6. Written(r, q) \in Table
  BY <1>4, <1>5 DEF Table
<1> QED
  BY <1>5, <1>6 DEF Rewrites

LEMMA DeleteRewrites ==
    ASSUME NEW r \in Table, NEW q \in Deleting
    PROVE  Rewrites(r, q, Written(r, q))
<1>1. q.op = "delete" /\ q.g \in Gateways /\ q.from \in Nat \ {0}
  BY DEF Deleting, Ids
<1> DEFINE s == [r EXCEPT ![q.g] = NoRoute]
           steps == From(q.from + 1)
<1>2. /\ s \in Table /\ s[q.g] = NoRoute
      /\ \A g \in Gateways \ {q.g} : s[g] = r[g]
  BY <1>1 DEF Table
<1>3. Written(r, q) = Down(s, steps)
  BY <1>1 DEF Written, Remaining
<1>4. 0 \notin steps /\ 1 \notin steps
  BY <1>1 DEF From
<1> HIDE DEF s
<1>5. /\ Down(s, steps) \in Table
      /\ \A g \in Gateways :
            /\ Down(s, steps)[g].priority = IF s[g] # NoRoute /\ s[g].priority \in steps
                                            THEN s[g].priority - 1 ELSE s[g].priority
            /\ Down(s, steps)[g].enabled = s[g].enabled
  BY <1>2, <1>4, DownRows
<1>6. ASSUME NEW g \in Gateways \ {q.g}
      PROVE  Written(r, q)[g].priority = NewStep(q, g, r[g].priority)
  <2>1. r[g].priority \in Nat /\ (r[g] = NoRoute <=> r[g].priority = 0)
    BY Rows DEF Table
  <2>2. r[g].priority \in steps <=> q.from < r[g].priority
    BY <1>1, <2>1 DEF From
  <2> HIDE DEF steps
  <2> QED
    BY <1>1, <1>2, <1>3, <1>5, <2>1, <2>2 DEF NewStep
<1>7. Written(r, q)[q.g].priority = NewStep(q, q.g, r[q.g].priority)
  <2>1. NoRoute.priority = 0
    BY DEF NoRoute
  <2> HIDE DEF steps
  <2> QED
    BY <1>1, <1>2, <1>3, <1>5, <2>1 DEF NewStep
<1> HIDE DEF steps
<1>8. \A g \in Gateways : g # q.g => Written(r, q)[g].enabled = r[g].enabled
  BY <1>2, <1>3, <1>5
<1> QED
  BY <1>1, <1>3, <1>5, <1>6, <1>7, <1>8 DEF Rewrites

LEMMA AllRewrite ==
    ASSUME NEW r \in Table, NEW q \in Requests, Found(r, q)
    PROVE  Rewrites(r, q, Written(r, q))
<1>1. \/ q \in Creating \/ q \in Switching \/ q \in Moving \/ q \in Reordering \/ q \in Deleting
  BY DEF Requests
<1> QED
  BY <1>1, CreateRewrites, SwitchRewrites, MoveRewrites, ReorderRewrites, DeleteRewrites

\* A row that two tables share is rewritten alike in both.
LEMMA SharedRow ==
    ASSUME NEW r \in Table, NEW s \in Table, NEW q \in Requests, NEW g \in Gateways, r[g] = s[g]
    PROVE  Written(r, q)[g] = Written(s, q)[g]
<1>1. CASE q.op = "create"
  <2>1. /\ DOMAIN Up(r, IF q.shifts THEN From(q.to) ELSE {}) = Gateways
        /\ DOMAIN Up(s, IF q.shifts THEN From(q.to) ELSE {}) = Gateways
        /\ Up(r, IF q.shifts THEN From(q.to) ELSE {})[g] = Up(s, IF q.shifts THEN From(q.to) ELSE {})[g]
    BY DEF Up
  <2> QED
    BY <1>1, <2>1 DEF Written
<1>2. CASE q.op = "switch"
  <2>1. DOMAIN r = Gateways /\ DOMAIN s = Gateways
    BY DEF Table
  <2>2. CASE g = q.g
    <3>1. Switched(r, q) = Switched(s, q)
      BY <2>2 DEF Switched
    <3> QED
      BY <1>2, <2>1, <2>2, <3>1 DEF Written
  <2>3. CASE g # q.g
    BY <1>2, <2>1, <2>3 DEF Written
  <2> QED
    BY <2>2, <2>3
<1>3. CASE q.op = "move"
  <2> DEFINE u(t) == IF q.to < q.from THEN Up(t, q.to .. q.from - 1)
                                      ELSE Down(t, q.from + 1 .. q.to)
  <2>1. DOMAIN u(r) = Gateways /\ DOMAIN u(s) = Gateways /\ u(r)[g] = u(s)[g]
    BY DEF Up, Down
  <2>2. /\ Written(r, q) = [u(r) EXCEPT ![q.g].priority = q.to, ![q.g].enabled = Switched(r, q)]
        /\ Written(s, q) = [u(s) EXCEPT ![q.g].priority = q.to, ![q.g].enabled = Switched(s, q)]
    BY <1>3 DEF Written
  <2> HIDE DEF u
  <2>3. CASE g = q.g
    <3>1. PICK on : on = Switched(r, q) /\ on = Switched(s, q)
      BY <2>3 DEF Switched
    <3>2. ASSUME NEW t, DOMAIN t = Gateways
          PROVE  [t EXCEPT ![q.g].priority = q.to, ![q.g].enabled = on][q.g]
                    = [[t[q.g] EXCEPT !.priority = q.to] EXCEPT !.enabled = on]
      BY <2>3, <3>2
    <3>3. /\ Written(r, q)[q.g] = [[u(r)[q.g] EXCEPT !.priority = q.to] EXCEPT !.enabled = on]
          /\ Written(s, q)[q.g] = [[u(s)[q.g] EXCEPT !.priority = q.to] EXCEPT !.enabled = on]
      BY <2>1, <2>2, <3>1, <3>2
    <3> QED
      BY <2>1, <2>3, <3>3
  <2>4. CASE g # q.g
    BY <2>1, <2>2, <2>4
  <2> QED
    BY <2>3, <2>4
<1>4. CASE q.op = "reorder"
  BY <1>4 DEF Written
<1>5. CASE q.op = "delete"
  <2>1. DOMAIN r = Gateways /\ DOMAIN s = Gateways
    BY DEF Table
  <2> QED
    BY <1>5, <2>1 DEF Written, Remaining, Down
<1> QED
  BY <1>1, <1>2, <1>3, <1>4, <1>5, RequestFields DEF Ops

-----------------------------------------------------------------------------
(* The numbering.                                                          *)

\* What q has read of the steps still holds.
Reads(r, q) ==
    CASE q.op = "create" -> /\ r[q.g].priority = 0
                            /\ q.to \in 1 .. Cardinality(Routed(r)) + 1
                            /\ q.shifts <=> q.to <= Cardinality(Routed(r))
      [] q.op = "switch" -> TRUE
      [] q.op = "move"   -> /\ r[q.g].priority = q.from
                            /\ q.to \in 1 .. Cardinality(Routed(r))
      [] q.op = "reorder" -> /\ DOMAIN q.steps = Routed(r)
                             /\ \A g \in Routed(r) : q.steps[g] \in 1 .. Cardinality(Routed(r))
                             /\ \A g, h \in Routed(r) : q.steps[g] = q.steps[h] => g = h
      [] q.op = "delete" -> r[q.g].priority = q.from

LEMMA Counted ==
    ASSUME NEW r \in Table
    PROVE  /\ IsFiniteSet(Routed(r)) /\ Cardinality(Routed(r)) \in Nat
           /\ Routed(r) = {g \in Gateways : r[g].priority # 0}
           /\ Routed(r) = {g \in Gateways : r[g].priority > 0}
<1>1. IsFiniteSet(Gateways) /\ Routed(r) \in SUBSET Gateways
  BY RoutesAssumption DEF Routed
<1>2. \A g \in Gateways : r[g].priority \in Nat /\ (r[g] = NoRoute <=> r[g].priority = 0)
  BY Rows DEF Table
<1>3. IsFiniteSet(Routed(r))
  BY <1>1, FS_Subset
<1>4. Cardinality(Routed(r)) \in Nat
  BY <1>3, FS_CardinalityType
<1>5. Routed(r) = {g \in Gateways : r[g].priority # 0}
  BY <1>2 DEF Routed
<1>6. Routed(r) = {g \in Gateways : r[g].priority > 0}
  BY <1>2, <1>5
<1> QED
  BY <1>3, <1>4, <1>5, <1>6

\* Numbers 1 .. n, each taken once, by step.
LEMMA NumberedOnce ==
    ASSUME NEW r \in Table, NEW n \in Nat, n = Cardinality(Routed(r))
    PROVE  Contiguous(r) <=>
              /\ \A g \in Gateways : r[g].priority <= n
              /\ \A g, h \in Gateways : r[g].priority # 0 /\ r[g].priority = r[h].priority => g = h
<1>1. Routed(r) = {g \in Gateways : r[g].priority # 0}
  BY Counted
<1>2. \A g \in Gateways : r[g].priority \in Nat
  BY Rows DEF Table
<1>3. ASSUME Contiguous(r), NEW g \in Gateways PROVE r[g].priority <= n
  BY <1>1, <1>2, <1>3 DEF Contiguous
<1>4. ASSUME Contiguous(r), NEW g \in Gateways, NEW h \in Gateways,
             r[g].priority # 0, r[g].priority = r[h].priority
      PROVE  g = h
  BY <1>1, <1>4 DEF Contiguous
<1>5. ASSUME \A g \in Gateways : r[g].priority <= n,
             \A g, h \in Gateways : r[g].priority # 0 /\ r[g].priority = r[h].priority => g = h
      PROVE  Contiguous(r)
  BY <1>1, <1>2, <1>5 DEF Contiguous
<1> QED
  BY <1>3, <1>4, <1>5

\* Rows at the same steps.
LEMMA SamePlaces ==
    ASSUME NEW r \in Table, NEW s \in Table, \A g \in Gateways : r[g].priority = s[g].priority
    PROVE  /\ Routed(r) = Routed(s)
           /\ Contiguous(r) => Contiguous(s)
           /\ \A q \in Requests : Reads(r, q) => Reads(s, q)
<1>1. Routed(r) = {g \in Gateways : r[g].priority # 0}
  BY Counted
<1>2. Routed(s) = {g \in Gateways : s[g].priority # 0}
  BY Counted
<1>3. Routed(r) = Routed(s)
  BY <1>1, <1>2
<1>4. Contiguous(r) => Contiguous(s)
  BY <1>3 DEF Contiguous, Routed
<1>5. ASSUME NEW q \in Requests, Reads(r, q) PROVE Reads(s, q)
  <2>1. q.op \in {"create", "move", "delete"} => q.g \in Gateways
    BY RequestFields DEF Creating, Moving, Deleting
  <2>2. q.op \in Ops
    BY RequestFields
  <2>3. q.op = "create" => Reads(s, q)
    BY <1>3, <1>5, <2>1 DEF Reads
  <2>4. q.op = "move" => Reads(s, q)
    BY <1>3, <1>5, <2>1 DEF Reads
  <2>5. q.op = "reorder" => Reads(s, q)
    BY <1>3, <1>5, <2>1 DEF Reads
  <2>6. q.op \in {"switch", "delete"} => Reads(s, q)
    BY <1>3, <1>5, <2>1 DEF Reads
  <2> QED
    BY <2>2, <2>3, <2>4, <2>5, <2>6 DEF Ops
<1> QED
  BY <1>3, <1>4, <1>5

\* A request whose reading is current keeps the numbering.
LEMMA RenumberingHolds ==
    ASSUME NEW r \in Table, NEW s \in Table, NEW q \in Requests, Contiguous(r), Reads(r, q),
           \A g \in Gateways : s[g].priority = NewStep(q, g, r[g].priority)
    PROVE  Contiguous(s)
<1>1. PICK n \in Nat : n = Cardinality(Routed(r))
  BY Counted
<1>2. /\ \A g \in Gateways : r[g].priority \in Nat /\ s[g].priority \in Nat
      /\ \A g \in Gateways : r[g].priority <= n
      /\ \A g, h \in Gateways : r[g].priority # 0 /\ r[g].priority = r[h].priority => g = h
  BY <1>1, NumberedOnce, Rows DEF Table
<1>3. /\ Routed(r) = {g \in Gateways : r[g].priority # 0}
      /\ Routed(s) = {g \in Gateways : s[g].priority # 0}
      /\ IsFiniteSet(Routed(r))
  BY Counted
<1>4. CASE q.op = "create"
  <2>1. q.g \in Gateways /\ q.to \in Nat \ {0} /\ q.shifts \in BOOLEAN
    BY <1>4, RequestFields DEF Creating, Ids
  <2>2. r[q.g].priority = 0 /\ q.to \in 1 .. n + 1 /\ (q.shifts <=> q.to <= n)
    BY <1>1, <1>4 DEF Reads
  <2>3. /\ s[q.g].priority = q.to
        /\ \A g \in Gateways \ {q.g} :
              s[g].priority = IF q.to <= r[g].priority THEN r[g].priority + 1 ELSE r[g].priority
    <3>1. ASSUME NEW g \in Gateways
          PROVE  s[g].priority = IF g = q.g THEN q.to
                                 ELSE IF q.shifts /\ q.to <= r[g].priority
                                      THEN r[g].priority + 1 ELSE r[g].priority
      BY <1>4 DEF NewStep
    <3>2. \A g \in Gateways : q.to <= r[g].priority => q.to <= n
      BY <1>2, <2>1
    <3> QED
      BY <2>1, <2>2, <3>1, <3>2
  <2>4. Routed(s) = Routed(r) \cup {q.g} /\ q.g \notin Routed(r)
    BY <1>2, <1>3, <2>1, <2>2, <2>3
  <2>5. Cardinality(Routed(s)) = n + 1
    BY <1>1, <1>3, <2>4, FS_AddElement
  <2>6. \A g \in Gateways : s[g].priority <= n + 1
    BY <1>2, <2>1, <2>2, <2>3
  <2>7. \A g, h \in Gateways : s[g].priority # 0 /\ s[g].priority = s[h].priority => g = h
    BY <1>2, <2>1, <2>2, <2>3
  <2> QED
    BY <2>5, <2>6, <2>7, NumberedOnce
<1>5. CASE q.op = "switch"
  <2>1. \A g \in Gateways : s[g].priority = r[g].priority
    BY <1>5 DEF NewStep
  <2> QED
    BY <2>1, SamePlaces
<1>6. CASE q.op = "move"
  <2>1. q.g \in Gateways /\ q.to \in Nat \ {0} /\ q.from \in Nat \ {0}
    BY <1>6, RequestFields DEF Moving, Ids
  <2>2. r[q.g].priority = q.from /\ q.to \in 1 .. n
    BY <1>1, <1>6 DEF Reads
  <2>3. /\ s[q.g].priority = q.to
        /\ \A g \in Gateways \ {q.g} :
              s[g].priority = IF q.to < q.from
                              THEN IF q.to <= r[g].priority /\ r[g].priority < q.from
                                   THEN r[g].priority + 1 ELSE r[g].priority
                              ELSE IF q.from < r[g].priority /\ r[g].priority <= q.to
                                   THEN r[g].priority - 1 ELSE r[g].priority
    BY <1>6, <2>1 DEF NewStep
  <2>4. Routed(s) = Routed(r)
    BY <1>2, <1>3, <2>1, <2>2, <2>3
  <2>5. \A g \in Gateways : s[g].priority <= n
    BY <1>2, <2>1, <2>2, <2>3
  <2>6. \A g, h \in Gateways : s[g].priority # 0 /\ s[g].priority = s[h].priority => g = h
    BY <1>2, <2>1, <2>2, <2>3
  <2> QED
    BY <1>1, <2>4, <2>5, <2>6, NumberedOnce
<1>7. CASE q.op = "reorder"
  <2>1. /\ DOMAIN q.steps = Routed(r)
        /\ \A g \in Routed(r) : q.steps[g] \in 1 .. n
        /\ \A g, h \in Routed(r) : q.steps[g] = q.steps[h] => g = h
    BY <1>1, <1>7 DEF Reads
  <2>2. \A g \in Gateways : s[g].priority = IF g \in Routed(r) THEN q.steps[g] ELSE 0
    BY <1>3, <1>7, <2>1 DEF NewStep
  <2>3. Routed(s) = Routed(r)
    BY <1>3, <2>1, <2>2
  <2>4. \A g \in Gateways : s[g].priority <= n
    BY <2>1, <2>2
  <2>5. \A g, h \in Gateways : s[g].priority # 0 /\ s[g].priority = s[h].priority => g = h
    BY <2>1, <2>2
  <2> QED
    BY <1>1, <2>3, <2>4, <2>5, NumberedOnce
<1>8. CASE q.op = "delete"
  <2>1. q.g \in Gateways /\ q.from \in Nat \ {0}
    BY <1>8, RequestFields DEF Deleting, Ids
  <2>2. r[q.g].priority = q.from
    BY <1>8 DEF Reads
  <2>3. /\ s[q.g].priority = 0
        /\ \A g \in Gateways \ {q.g} :
              s[g].priority = IF q.from < r[g].priority THEN r[g].priority - 1 ELSE r[g].priority
    BY <1>8, <2>1 DEF NewStep
  <2>4. Routed(s) = Routed(r) \ {q.g} /\ q.g \in Routed(r)
    BY <1>2, <1>3, <2>1, <2>2, <2>3
  <2>5. Cardinality(Routed(s)) = n - 1
    BY <1>1, <1>3, <2>4, FS_RemoveElement
  <2>6. n >= 1
    BY <1>2, <2>1, <2>2
  <2>7. \A g \in Gateways : s[g].priority <= n - 1
    BY <1>2, <2>1, <2>2, <2>3
  <2>8. \A g, h \in Gateways : s[g].priority # 0 /\ s[g].priority = s[h].priority => g = h
    BY <1>2, <2>1, <2>2, <2>3
  <2>9. n - 1 \in Nat
    BY <2>6
  <2> QED
    BY <2>5, <2>7, <2>8, <2>9, NumberedOnce
<1> QED
  BY <1>4, <1>5, <1>6, <1>7, <1>8, RequestFields DEF Ops

-----------------------------------------------------------------------------
(* Requests under way.                                                     *)

\* What a transaction holds locked is what it would write to the rows as they are.
WritesHold(o) ==
    reroute[o].pc = "written" =>
        \A g \in DOMAIN reroute[o].writes :
           /\ reroute[o].writes[g] = Written(routes, reroute[o].q)[g]
           /\ IF reroute[o].q.op = "create" /\ g = reroute[o].q.g
              THEN routes[g] = NoRoute ELSE routes[g] # NoRoute

WritesApart ==
    \A o, p \in Operators :
       o # p /\ reroute[o].pc = "written" /\ reroute[p].pc = "written"
          => DOMAIN reroute[o].writes \cap DOMAIN reroute[p].writes = {}

RoutesSound ==
    /\ routes \in Table
    /\ reroute \in [Operators -> {NoOne} \cup Checked \cup Held]
    /\ reroutes \in Nat /\ crossed \in BOOLEAN /\ cleared \in BOOLEAN
    /\ \A o \in Operators : WritesHold(o)
    /\ WritesApart

LEMMA Progress ==
    ASSUME NEW x \in {NoOne} \cup Checked \cup Held
    PROVE  /\ x # NoOne => x.q \in Requests /\ x.pc \in {"checked", "written"}
           /\ x.pc = "checked" => x \in Checked /\ x # NoOne
           /\ x.pc = "written" =>
                 /\ x \in Held /\ x # NoOne
                 /\ DOMAIN x.writes \subseteq Gateways
                 /\ \A g \in DOMAIN x.writes : x.writes[g] \in Route \cup {NoRoute}
           /\ x = NoOne => x.pc = "idle"
<1>1. NoOne.pc = "idle"
  BY DEF NoOne
<1>2. CASE x \in Held
  <2>1. x.pc = "written" /\ x.q \in Requests
        /\ x.writes \in UNION {[D -> Route \cup {NoRoute}] : D \in SUBSET Gateways}
    BY <1>2 DEF Held
  <2>2. PICK D \in SUBSET Gateways : x.writes \in [D -> Route \cup {NoRoute}]
    BY <2>1
  <2> QED
    BY <1>1, <1>2, <2>1, <2>2
<1>3. CASE x \in Checked
  BY <1>1, <1>3 DEF Checked
<1> QED
  BY <1>1, <1>2, <1>3

LEMMA SoundTypes == RoutesSound => RoutesTypeOK
<1> SUFFICES ASSUME RoutesSound PROVE RoutesTypeOK
  OBVIOUS
<1>1. ASSUME NEW o \in Operators, reroute[o] # NoOne
      PROVE  /\ reroute[o].pc \in {"checked", "written"} /\ reroute[o].q.op \in Ops
             /\ reroute[o].pc = "written" => \A g \in DOMAIN reroute[o].writes :
                                                reroute[o].writes[g] \in Route \cup {NoRoute}
  <2>1. reroute[o] \in {NoOne} \cup Checked \cup Held
    BY DEF RoutesSound
  <2> QED
    BY <1>1, <2>1, Progress, RequestFields
<1> QED
  BY <1>1 DEF RoutesTypeOK, RoutesSound, Table

\* The requests that can begin, and what each has read.
Backed(r, q) ==
    /\ q.op = "create" => q.enabled \/ Routed(r) # {}
    /\ q.op \in {"switch", "move"} /\ q.sets = "disable" =>
          \E h \in Gateways \ {q.g} : r[h].enabled

LEMMA DisablingBacked ==
    ASSUME routes \in Table, NEW g \in Gateways, routes[g] # NoRoute, MayDisable(g),
           StaysPayable, ~cleared
    PROVE  \E h \in Gateways \ {g} : routes[h].enabled
<1>1. Enabled(routes) # {}
  BY DEF StaysPayable, Routed
<1>2. IsFiniteSet(Enabled(routes))
  BY RoutesAssumption, FS_Subset DEF Enabled
<1>3. CASE ~routes[g].enabled
  <2>1. PICK h \in Gateways : routes[h].enabled
    BY <1>1 DEF Enabled
  <2>2. h # g
    BY <1>3, <2>1, Zenon
  <2> QED
    BY <2>1, <2>2
<1>4. CASE routes[g].enabled
  <2>1. Cardinality(Enabled(routes)) > 1
    BY <1>4 DEF MayDisable
  <2>2. Cardinality({g}) = 1
    BY FS_Singleton
  <2>3. Enabled(routes) # {g}
    BY <2>1, <2>2
  <2>4. PICK h \in Enabled(routes) : h # g
    BY <1>1, <2>3
  <2> QED
    BY <2>4 DEF Enabled
<1> QED
  BY <1>3, <1>4, Zenon

Begins(o) ==
    \/ \E g \in Gateways :
          \/ \E step \in 1 .. Cardinality(Gateways), on \in BOOLEAN : CreateRoute(o, g, step, on)
          \/ \E sets \in {"enable", "disable"} : SwitchRoute(o, g, sets)
          \/ \E step \in 1 .. Cardinality(Gateways), sets \in {"enable", "disable", "keep"} :
                MoveRoute(o, g, step, sets)
          \/ DeleteRoute(o, g)
    \/ ReorderRoutes(o)

LEMMA RoutesSteps ==
    RoutesNext <=> \E o \in Operators : Begins(o) \/ WriteRoutes(o) \/ CommitRoutes(o)
BY DEF RoutesNext, Begins

LEMMA CreateBegins ==
    ASSUME RoutesSound, NEW o \in Operators, NEW g \in Gateways, NEW step, NEW on \in BOOLEAN,
           CreateRoute(o, g, step, on)
    PROVE  \E q \in Requests : MayBegin(o) /\ Begin(o, q) /\ Reads(routes, q) /\ Backed(routes, q)
<1>1. /\ IsFiniteSet(Routed(routes)) /\ Count \in Nat
      /\ Count = Cardinality(Routed(routes))
  BY Counted DEF RoutesSound, Count
<1>2. /\ MayBegin(o) /\ routes[g] = NoRoute /\ (Count = 0 => on) /\ step \in 1 .. Count + 1
      /\ Begin(o, [op |-> "create", g |-> g, id |-> reroutes + 2, to |-> step,
                   shifts |-> step <= Count, enabled |-> on])
  BY DEF CreateRoute
<1>3. PICK shifts \in BOOLEAN : shifts = (step <= Count)
  <2>1. (step <= Count) \in BOOLEAN
    BY <1>1, <1>2
  <2> QED
    BY <2>1, Zenon
<1>4. PICK q : q = [op |-> "create", g |-> g, id |-> reroutes + 2, to |-> step,
                    shifts |-> shifts, enabled |-> on]
  OBVIOUS
<1>5. /\ q.op = "create" /\ q.g = g /\ q.to = step /\ q.shifts = shifts /\ q.enabled = on
  BY <1>4
<1>6. q \in Requests
  <2>1. reroutes + 2 \in Ids /\ step \in Ids
    BY <1>1, <1>2 DEF RoutesSound, Ids
  <2> QED
    BY <1>4, <2>1 DEF Requests, Creating
<1>7. Begin(o, q)
  BY <1>2, <1>3, <1>4
<1>8. routes[g].priority = 0
  BY <1>2 DEF NoRoute
<1>9. shifts <=> step <= Count
  BY <1>3
<1>10. Reads(routes, q)
  BY <1>1, <1>2, <1>5, <1>8, <1>9 DEF Reads
<1>11. on \/ Routed(routes) # {}
  BY <1>1, <1>2, FS_EmptySet
<1>12. q.enabled \/ Routed(routes) # {}
  BY <1>5, <1>11, Zenon
<1>13. Backed(routes, q)
  <2>1. q.op \notin {"switch", "move"}
    BY <1>5
  <2> QED
    BY <1>12, <2>1, Zenon DEF Backed
<1> QED
  BY <1>2, <1>6, <1>7, <1>10, <1>13

LEMMA OthersBegin ==
    ASSUME RoutesSound, NEW o \in Operators, NEW g \in Gateways,
           \/ \E sets \in {"enable", "disable"} : SwitchRoute(o, g, sets)
           \/ \E step \in 1 .. Cardinality(Gateways), sets \in {"enable", "disable", "keep"} :
                MoveRoute(o, g, step, sets)
           \/ DeleteRoute(o, g)
    PROVE  \E q \in Requests : /\ MayBegin(o) /\ Begin(o, q) /\ Reads(routes, q)
                               /\ StaysPayable /\ ~cleared => Backed(routes, q)
<1>1. Count \in Nat /\ Count = Cardinality(Routed(routes)) /\ routes \in Table
  BY Counted DEF RoutesSound, Count
<1>2. routes[g] # NoRoute
  BY DEF SwitchRoute, MoveRoute, DeleteRoute
<1>3. routes[g].id \in Ids /\ routes[g].priority \in Ids
  BY <1>1, <1>2, Rows DEF Table, Ids
<1>4. ASSUME MayDisable(g), StaysPayable, ~cleared
      PROVE  \E h \in Gateways \ {g} : routes[h].enabled
  BY <1>1, <1>2, <1>4, DisablingBacked
<1>5. ASSUME NEW sets \in {"enable", "disable"}, SwitchRoute(o, g, sets)
      PROVE  \E q \in Requests : /\ MayBegin(o) /\ Begin(o, q) /\ Reads(routes, q)
                                 /\ StaysPayable /\ ~cleared => Backed(routes, q)
  <2>1. PICK q : q = [op |-> "switch", g |-> g, id |-> routes[g].id, sets |-> sets]
    OBVIOUS
  <2>2. /\ q \in Requests /\ q.op = "switch" /\ q.g = g /\ q.sets = sets
    BY <1>3, <1>5, <2>1 DEF Requests, Switching
  <2>3. MayBegin(o) /\ (sets = "disable" => MayDisable(g)) /\ Begin(o, q)
    BY <1>5, <2>1 DEF SwitchRoute
  <2>4. Reads(routes, q)
    BY <2>2 DEF Reads
  <2>5. StaysPayable /\ ~cleared => Backed(routes, q)
    BY <1>4, <2>2, <2>3 DEF Backed
  <2> QED
    BY <2>2, <2>3, <2>4, <2>5
<1>6. ASSUME NEW step, NEW sets \in {"enable", "disable", "keep"}, MoveRoute(o, g, step, sets)
      PROVE  \E q \in Requests : /\ MayBegin(o) /\ Begin(o, q) /\ Reads(routes, q)
                                 /\ StaysPayable /\ ~cleared => Backed(routes, q)
  <2>1. PICK q : q = [op |-> "move", g |-> g, id |-> routes[g].id, from |-> routes[g].priority,
                      to |-> step, sets |-> sets]
    OBVIOUS
  <2>2. MayBegin(o) /\ (sets = "disable" => MayDisable(g)) /\ Begin(o, q) /\ step \in 1 .. Count
    BY <1>6, <2>1 DEF MoveRoute
  <2>3. /\ q.op = "move" /\ q.g = g /\ q.sets = sets /\ q.from = routes[g].priority
        /\ q.to = step
    BY <2>1
  <2>4. q \in Requests
    <3>1. step \in Ids
      BY <1>1, <2>2 DEF Ids
    <3> QED
      BY <1>3, <1>6, <2>1, <3>1 DEF Requests, Moving
  <2>5. Reads(routes, q)
    BY <1>1, <2>2, <2>3 DEF Reads
  <2>6. StaysPayable /\ ~cleared => Backed(routes, q)
    BY <1>4, <2>2, <2>3 DEF Backed
  <2> QED
    BY <2>2, <2>4, <2>5, <2>6
<1>7. CASE DeleteRoute(o, g)
  <2>1. PICK q : q = [op |-> "delete", g |-> g, id |-> routes[g].id, from |-> routes[g].priority]
    OBVIOUS
  <2>2. MayBegin(o) /\ Begin(o, q)
    BY <1>7, <2>1 DEF DeleteRoute
  <2>3. q \in Requests /\ q.op = "delete" /\ q.g = g /\ q.from = routes[g].priority
    BY <1>3, <2>1 DEF Requests, Deleting
  <2>4. Reads(routes, q) /\ Backed(routes, q)
    BY <2>3 DEF Reads, Backed
  <2> QED
    BY <2>2, <2>3, <2>4
<1> QED
  BY <1>5, <1>6, <1>7

LEMMA ReorderBegins ==
    ASSUME RoutesSound, NEW o \in Operators, ReorderRoutes(o)
    PROVE  \E q \in Requests : MayBegin(o) /\ Begin(o, q) /\ Reads(routes, q) /\ Backed(routes, q)
<1>1. /\ Count \in Nat /\ Count = Cardinality(Routed(routes)) /\ routes \in Table
      /\ Routed(routes) \subseteq Gateways
  BY Counted DEF RoutesSound, Count, Routed
<1>2. PICK steps \in [Routed(routes) -> 1 .. Count] :
          /\ \A g, h \in Routed(routes) : steps[g] = steps[h] => g = h
          /\ Begin(o, [op |-> "reorder", steps |-> steps,
                       ids |-> [g \in Routed(routes) |-> routes[g].id]])
  BY DEF ReorderRoutes
<1>3. PICK ids : ids = [g \in Routed(routes) |-> routes[g].id]
  OBVIOUS
<1>4. PICK q : q = [op |-> "reorder", steps |-> steps, ids |-> ids]
  OBVIOUS
<1>5. /\ q.op = "reorder" /\ q.steps = steps /\ q.ids = ids
  BY <1>4
<1>6. ids \in [Routed(routes) -> Ids]
  <2>1. \A g \in Routed(routes) : routes[g].id \in Ids
    BY <1>1, Rows DEF Routed, Table, Ids
  <2> QED
    BY <1>3, <2>1
<1>7. steps \in [Routed(routes) -> Ids]
  BY <1>1, <1>2 DEF Ids
<1>8. steps \in Numbers /\ ids \in Numbers
  BY <1>1, <1>6, <1>7 DEF Numbers
<1>9. q \in Requests
  BY <1>4, <1>5, <1>6, <1>7, <1>8 DEF Requests, Reordering
<1>10. Reads(routes, q)
  BY <1>1, <1>2, <1>5, <1>7 DEF Reads
<1>11. Backed(routes, q)
  BY <1>5 DEF Backed
<1>12. MayBegin(o) /\ Begin(o, q)
  BY <1>2, <1>3, <1>4 DEF ReorderRoutes
<1> QED
  BY <1>9, <1>10, <1>11, <1>12

LEMMA AllBegin ==
    ASSUME RoutesSound, NEW o \in Operators, Begins(o)
    PROVE  \E q \in Requests : /\ MayBegin(o) /\ Begin(o, q) /\ Reads(routes, q)
                               /\ StaysPayable /\ ~cleared => Backed(routes, q)
BY CreateBegins, OthersBegin, ReorderBegins DEF Begins

-----------------------------------------------------------------------------
(* Types, and what is locked.                                              *)

\* The request of o goes on as x.
RerouteAt(o, x) == reroute' = [reroute EXCEPT ![o] = x]

LEMMA RerouteSteps ==
    ASSUME RoutesSound, NEW o \in Operators, NEW x, RerouteAt(o, x)
    PROVE  /\ reroute'[o] = x
           /\ \A p \in Operators \ {o} : reroute'[p] = reroute[p]
           /\ x \in {NoOne} \cup Checked \cup Held =>
                 reroute' \in [Operators -> {NoOne} \cup Checked \cup Held]
BY DEF RoutesSound, RerouteAt

\* A request that begins, or ends without a commit.
LEMMA RequestsKeepSound ==
    ASSUME RoutesSound, NEW o \in Operators, NEW x \in {NoOne} \cup Checked, RerouteAt(o, x),
           UNCHANGED routes, reroutes' \in Nat, crossed' \in BOOLEAN, cleared' \in BOOLEAN
    PROVE  RoutesSound'
<1>1. /\ reroute'[o] = x
      /\ \A p \in Operators \ {o} : reroute'[p] = reroute[p]
      /\ reroute' \in [Operators -> {NoOne} \cup Checked \cup Held]
  BY RerouteSteps
<1>2. x.pc # "written"
  BY DEF NoOne, Checked
<1>3. ASSUME NEW p \in Operators PROVE WritesHold(p)'
  BY <1>1, <1>2 DEF RoutesSound, WritesHold
<1>4. WritesApart'
  BY <1>1, <1>2 DEF RoutesSound, WritesApart
<1>5. routes' \in Table
  BY DEF RoutesSound
<1> QED
  BY <1>1, <1>3, <1>4, <1>5 DEF RoutesSound, Table

LEMMA Beginnings ==
    ASSUME RoutesSound, NEW o \in Operators, NEW q \in Requests, MayBegin(o), Begin(o, q)
    PROVE  /\ reroute[o] = NoOne
           /\ \E x \in Checked : x.pc = "checked" /\ x.q = q /\ RerouteAt(o, x)
           /\ UNCHANGED routes
           /\ RoutesSound'
           /\ ~crossed' => ~crossed /\ (Moves(q) =>
                 \A p \in Operators : reroute[p] # NoOne => ~Moves(reroute[p].q))
           /\ ~cleared' => ~cleared /\ (Disables(q) =>
                 \A p \in Operators : reroute[p] # NoOne => ~Disables(reroute[p].q))
<1>1. PICK x : x = [pc |-> "checked", q |-> q]
  OBVIOUS
<1>2. x \in Checked /\ x.pc = "checked" /\ x.q = q
  BY <1>1 DEF Checked
<1>3. reroute[o] = NoOne /\ RerouteAt(o, x) /\ reroutes' = reroutes + 1 /\ UNCHANGED routes
  BY <1>1 DEF MayBegin, Begin, RerouteAt
<1> DEFINE others == {reroute[p].q : p \in {p \in Operators : reroute[p] # NoOne}}
<1>4. /\ crossed' = (crossed \/ (Moves(q) /\ \E r \in others : Moves(r)))
      /\ cleared' = (cleared \/ (Disables(q) /\ \E r \in others : Disables(r)))
  BY DEF Begin
<1>5. crossed' \in BOOLEAN /\ cleared' \in BOOLEAN
  BY <1>4
<1>6. ~crossed' => ~crossed /\ (Moves(q) =>
         \A p \in Operators : reroute[p] # NoOne => ~Moves(reroute[p].q))
  BY <1>4
<1>7. ~cleared' => ~cleared /\ (Disables(q) =>
         \A p \in Operators : reroute[p] # NoOne => ~Disables(reroute[p].q))
  BY <1>4
<1>8. reroutes' \in Nat
  BY <1>3 DEF RoutesSound
<1>9. RoutesSound'
  BY <1>2, <1>3, <1>5, <1>8, RequestsKeepSound
<1> QED
  BY <1>2, <1>3, <1>6, <1>7, <1>9

\* A row that a transaction changes is there, unless it inserts it.
LEMMA TouchedRow ==
    ASSUME NEW r \in Table, NEW q \in Requests, Found(r, q), NEW g \in Gateways,
           Written(r, q)[g] # r[g]
    PROVE  IF q.op = "create" /\ g = q.g THEN r[g] = NoRoute ELSE r[g] # NoRoute
<1>1. CASE q.op = "create" /\ g = q.g
  BY <1>1 DEF Found
<1>2. CASE ~(q.op = "create" /\ g = q.g)
  <2> SUFFICES ASSUME r[g] = NoRoute PROVE FALSE
    BY <1>2
  <2>1. r[g].priority = 0 /\ r[g].id = 0
    BY DEF NoRoute
  <2>2. Written(r, q)[g].priority = NewStep(q, g, 0) /\ Written(r, q)[g] \in Route \cup {NoRoute}
    BY <2>1, AllRewrite DEF Rewrites, Table
  <2>3. NewStep(q, g, 0) # 0
    BY <2>2, Rows
  <2>4. q.op # "create"
    BY <1>2, <2>3, RequestFields DEF NewStep, Creating, Ids
  <2>5. q.op # "switch"
    BY <2>3 DEF NewStep
  <2>6. q.op # "delete"
    BY <2>3, RequestFields DEF NewStep, Deleting, Ids
  <2>7. q.op # "move"
    <3> SUFFICES ASSUME q.op = "move" PROVE FALSE
      OBVIOUS
    <3>1. q.id # 0 /\ q.to \in Nat \ {0} /\ q.from \in Nat \ {0}
      BY RequestFields DEF Moving, Ids
    <3>2. g # q.g
      BY <2>1, <3>1 DEF Found
    <3> QED
      BY <2>3, <3>1, <3>2 DEF NewStep
  <2>8. q.op # "reorder"
    <3> SUFFICES ASSUME q.op = "reorder" PROVE FALSE
      OBVIOUS
    <3>1. q \in Reordering
      BY RequestFields
    <3>2. g \in DOMAIN q.steps
      BY <2>3 DEF NewStep
    <3>3. g \in DOMAIN q.ids /\ q.ids[g] \in Ids
      BY <3>1, <3>2 DEF Reordering, Numbers
    <3>4. r[g].id = q.ids[g]
      BY <3>3 DEF Found
    <3> QED
      BY <2>1, <3>3, <3>4 DEF Ids
  <2> QED
    BY <2>4, <2>5, <2>6, <2>7, <2>8, RequestFields DEF Ops
<1> QED
  BY <1>1, <1>2

LEMMA Writing ==
    ASSUME RoutesSound, NEW o \in Operators, WriteRoutes(o)
    PROVE  /\ reroute[o].pc = "checked" /\ reroute[o] # NoOne /\ reroute[o].q \in Requests
           /\ UNCHANGED <<routes, reroutes, crossed, cleared>>
           /\ \/ RerouteAt(o, NoOne)
              \/ \E x \in Held :
                    /\ RerouteAt(o, x) /\ x.pc = "written" /\ x.q = reroute[o].q
                    /\ Found(routes, x.q)
                    /\ DOMAIN x.writes = {g \in Gateways : Written(routes, x.q)[g] # routes[g]}
                    /\ \A g \in DOMAIN x.writes : x.writes[g] = Written(routes, x.q)[g]
                    /\ \A p \in Operators : reroute[p].pc = "written" =>
                          DOMAIN x.writes \cap DOMAIN reroute[p].writes = {}
<1>1. /\ reroute[o].pc = "checked"
      /\ UNCHANGED <<routes, reroutes, crossed, cleared>>
  BY DEF WriteRoutes
<1>2. PICK q : q = reroute[o].q
  OBVIOUS
<1>3. reroute[o] # NoOne /\ q \in Requests
  BY <1>1, <1>2, Progress DEF RoutesSound
<1>4. PICK after : after = Written(routes, q)
  OBVIOUS
<1>5. PICK touched : touched = {g \in Gateways : after[g] # routes[g]}
  OBVIOUS
<1>6. /\ touched \cap Locked = {}
      /\ reroute' = [reroute EXCEPT ![o] =
            IF Found(routes, q) /\ Verified(q, after)
            THEN [pc |-> "written", q |-> q, writes |-> [g \in touched |-> after[g]]]
            ELSE NoOne]
  BY <1>2, <1>4, <1>5 DEF WriteRoutes
<1>7. CASE ~(Found(routes, q) /\ Verified(q, after))
  BY <1>1, <1>2, <1>3, <1>6, <1>7 DEF RerouteAt
<1>8. CASE Found(routes, q) /\ Verified(q, after)
  <2>1. PICK writes : writes = [g \in touched |-> after[g]]
    OBVIOUS
  <2>2. PICK x : x = [pc |-> "written", q |-> q, writes |-> writes]
    OBVIOUS
  <2>3. x.pc = "written" /\ x.q = q /\ x.writes = writes
    BY <2>2
  <2>4. after \in Table
    BY <1>3, <1>4, <1>8, AllRewrite DEF Rewrites, RoutesSound
  <2>5. touched \in SUBSET Gateways /\ writes \in [touched -> Route \cup {NoRoute}]
    BY <1>5, <2>1, <2>4 DEF Table
  <2>6. x \in Held
    BY <1>3, <2>2, <2>5 DEF Held
  <2>7. RerouteAt(o, x)
    BY <1>6, <1>8, <2>1, <2>2 DEF RerouteAt
  <2>8. \A p \in Operators : reroute[p].pc = "written" =>
           touched \cap DOMAIN reroute[p].writes = {}
    BY <1>6 DEF Locked
  <2>9. DOMAIN x.writes = touched /\ \A g \in touched : x.writes[g] = after[g]
    BY <2>1, <2>3
  <2> QED
    BY <1>1, <1>2, <1>3, <1>4, <1>5, <1>8, <2>3, <2>6, <2>7, <2>8, <2>9
<1> QED
  BY <1>7, <1>8

LEMMA WriteKeepsSound ==
    ASSUME RoutesSound, NEW o \in Operators, WriteRoutes(o)
    PROVE  RoutesSound'
<1>1. UNCHANGED <<routes, reroutes, crossed, cleared>>
  BY Writing
<1>2. reroutes' \in Nat /\ crossed' \in BOOLEAN /\ cleared' \in BOOLEAN
  BY <1>1 DEF RoutesSound
<1>3. CASE RerouteAt(o, NoOne)
  BY <1>1, <1>2, <1>3, RequestsKeepSound
<1>4. CASE ~RerouteAt(o, NoOne)
  <2>1. PICK x \in Held :
           /\ RerouteAt(o, x) /\ x.pc = "written" /\ x.q = reroute[o].q
           /\ Found(routes, x.q)
           /\ DOMAIN x.writes = {g \in Gateways : Written(routes, x.q)[g] # routes[g]}
           /\ \A g \in DOMAIN x.writes : x.writes[g] = Written(routes, x.q)[g]
           /\ \A p \in Operators : reroute[p].pc = "written" =>
                 DOMAIN x.writes \cap DOMAIN reroute[p].writes = {}
    BY <1>4, Writing
  <2>2. /\ reroute'[o] = x
        /\ \A p \in Operators \ {o} : reroute'[p] = reroute[p]
        /\ reroute' \in [Operators -> {NoOne} \cup Checked \cup Held]
    BY <2>1, RerouteSteps
  <2>3. x.q \in Requests
    BY <2>1, Progress
  <2>4. ASSUME NEW p \in Operators PROVE WritesHold(p)'
    <3>1. CASE p # o
      BY <1>1, <2>2, <3>1 DEF RoutesSound, WritesHold
    <3>2. CASE p = o
      <4>1. ASSUME NEW g \in DOMAIN x.writes
            PROVE  IF x.q.op = "create" /\ g = x.q.g
                   THEN routes[g] = NoRoute ELSE routes[g] # NoRoute
        BY <2>1, <2>3, TouchedRow DEF RoutesSound
      <4> QED
        BY <1>1, <2>1, <2>2, <3>2, <4>1 DEF WritesHold
    <3> QED
      BY <3>1, <3>2
  <2>5. WritesApart'
    <3> SUFFICES ASSUME NEW p \in Operators, NEW s \in Operators, p # s,
                        reroute'[p].pc = "written", reroute'[s].pc = "written"
                 PROVE  DOMAIN reroute'[p].writes \cap DOMAIN reroute'[s].writes = {}
      BY DEF WritesApart
    <3>1. CASE p = o
      BY <2>1, <2>2, <3>1
    <3>2. CASE s = o
      BY <2>1, <2>2, <3>2
    <3>3. CASE p # o /\ s # o
      BY <2>2, <3>3 DEF RoutesSound, WritesApart
    <3> QED
      BY <3>1, <3>2, <3>3
  <2> QED
    BY <1>1, <1>2, <2>2, <2>4, <2>5 DEF RoutesSound, Table
<1> QED
  BY <1>3, <1>4

\* A commit changes the rows it holds, and nobody else's.
LEMMA Committing ==
    ASSUME RoutesSound, NEW o \in Operators, CommitRoutes(o)
    PROVE  /\ reroute[o].pc = "written" /\ reroute[o] # NoOne /\ reroute[o].q \in Requests
           /\ RerouteAt(o, NoOne)
           /\ UNCHANGED <<reroutes, crossed>>
           /\ routes' \in Table
           /\ \A g \in DOMAIN reroute[o].writes :
                 /\ g \in Gateways
                 /\ routes'[g] = reroute[o].writes[g]
                 /\ routes'[g] = Written(routes, reroute[o].q)[g]
           /\ \A g \in Gateways \ DOMAIN reroute[o].writes : routes'[g] = routes[g]
           /\ cleared' \in BOOLEAN
           /\ ~cleared' => /\ ~cleared
                           /\ reroute[o].q.op = "delete" => Enabled(routes') # {}
<1>1. reroute[o].pc = "written" /\ RerouteAt(o, NoOne) /\ UNCHANGED <<reroutes, crossed>>
  BY DEF CommitRoutes, RerouteAt
<1>2. reroute[o] \in {NoOne} \cup Checked \cup Held
  BY DEF RoutesSound
<1>3. /\ reroute[o] # NoOne /\ reroute[o].q \in Requests
      /\ DOMAIN reroute[o].writes \subseteq Gateways
      /\ \A g \in DOMAIN reroute[o].writes : reroute[o].writes[g] \in Route \cup {NoRoute}
  BY <1>1, <1>2, Progress
<1>4. PICK writes : writes = reroute[o].writes
  OBVIOUS
<1>5. routes' = [g \in Gateways |-> IF g \in DOMAIN writes THEN writes[g] ELSE routes[g]]
  BY <1>4 DEF CommitRoutes
<1>6. routes' \in Table
  BY <1>3, <1>4, <1>5 DEF RoutesSound, Table
<1>7. \A g \in DOMAIN writes : writes[g] = Written(routes, reroute[o].q)[g]
  BY <1>1, <1>4 DEF RoutesSound, WritesHold
<1>8. cleared' = (cleared \/ (reroute[o].q.op = "delete" /\ Enabled(routes') = {}))
  BY DEF CommitRoutes
<1>9. cleared' \in BOOLEAN
  BY <1>8
<1> QED
  BY <1>1, <1>3, <1>4, <1>5, <1>6, <1>7, <1>8, <1>9

LEMMA CommitKeepsSound ==
    ASSUME RoutesSound, NEW o \in Operators, CommitRoutes(o)
    PROVE  RoutesSound'
<1>1. /\ reroute[o].pc = "written" /\ RerouteAt(o, NoOne)
      /\ UNCHANGED <<reroutes, crossed>> /\ routes' \in Table /\ cleared' \in BOOLEAN
      /\ \A g \in Gateways \ DOMAIN reroute[o].writes : routes'[g] = routes[g]
  BY Committing
<1>2. /\ reroute'[o] = NoOne
      /\ \A p \in Operators \ {o} : reroute'[p] = reroute[p]
      /\ reroute' \in [Operators -> {NoOne} \cup Checked \cup Held]
  BY <1>1, RerouteSteps
<1>3. NoOne.pc # "written"
  BY DEF NoOne
<1>4. ASSUME NEW p \in Operators PROVE WritesHold(p)'
  <2>1. CASE p = o
    BY <1>2, <1>3, <2>1 DEF WritesHold
  <2>2. CASE p # o /\ reroute[p].pc = "written"
    <3>1. PICK x : x = reroute[p]
      OBVIOUS
    <3>2. reroute'[p] = x /\ x \in {NoOne} \cup Checked \cup Held
      BY <1>2, <2>2, <3>1 DEF RoutesSound
    <3>3. x.q \in Requests /\ DOMAIN x.writes \subseteq Gateways
      BY <2>2, <3>1, <3>2, Progress
    <3>4. ASSUME NEW g \in DOMAIN x.writes
          PROVE  routes'[g] = routes[g] /\ Written(routes', x.q)[g] = Written(routes, x.q)[g]
      <4>1. g \in Gateways /\ g \notin DOMAIN reroute[o].writes
        BY <1>1, <2>2, <3>1, <3>3 DEF RoutesSound, WritesApart
      <4>2. routes'[g] = routes[g]
        BY <1>1, <4>1
      <4>3. PICK r \in Table : r = routes
        BY DEF RoutesSound
      <4>4. PICK s \in Table : s = routes'
        BY <1>1
      <4>5. Written(r, x.q)[g] = Written(s, x.q)[g]
        BY <3>3, <4>1, <4>2, <4>3, <4>4, SharedRow
      <4> QED
        BY <4>2, <4>3, <4>4, <4>5
    <3>5. \A g \in DOMAIN x.writes :
             /\ x.writes[g] = Written(routes, x.q)[g]
             /\ IF x.q.op = "create" /\ g = x.q.g THEN routes[g] = NoRoute ELSE routes[g] # NoRoute
      BY <2>2, <3>1 DEF RoutesSound, WritesHold
    <3>6. \A g \in DOMAIN x.writes :
             /\ x.writes[g] = Written(routes', x.q)[g]
             /\ IF x.q.op = "create" /\ g = x.q.g THEN routes'[g] = NoRoute ELSE routes'[g] # NoRoute
      BY <3>4, <3>5
    <3> QED
      BY <3>2, <3>6 DEF WritesHold
  <2>3. CASE p # o /\ reroute[p].pc # "written"
    BY <1>2, <2>3 DEF WritesHold
  <2> QED
    BY <2>1, <2>2, <2>3
<1>5. WritesApart'
  BY <1>2, <1>3 DEF RoutesSound, WritesApart
<1> QED
  BY <1>1, <1>2, <1>4, <1>5 DEF RoutesSound, Table

LEMMA SoundStep == RoutesSound /\ RoutesNext => RoutesSound'
<1> SUFFICES ASSUME RoutesSound, NEW o \in Operators,
                    Begins(o) \/ WriteRoutes(o) \/ CommitRoutes(o)
             PROVE  RoutesSound'
  BY RoutesSteps
<1>1. CASE Begins(o)
  <2>1. PICK q \in Requests : MayBegin(o) /\ Begin(o, q)
    BY <1>1, AllBegin
  <2> QED
    BY <2>1, Beginnings
<1> QED
  BY <1>1, WriteKeepsSound, CommitKeepsSound

-----------------------------------------------------------------------------
(* The numbering, while no two requests that move routes overlap.          *)

\* A transaction that is to commit renumbers the rows that are there.
Renumbers(o) ==
    reroute[o].pc = "written" =>
        \A g \in Gateways :
           (IF g \in DOMAIN reroute[o].writes THEN reroute[o].writes[g] ELSE routes[g]).priority
              = NewStep(reroute[o].q, g, routes[g].priority)

InOrder ==
    ~crossed =>
        /\ Contiguous(routes)
        /\ \A o \in Operators : reroute[o] # NoOne => Reads(routes, reroute[o].q)
        /\ \A o, p \in Operators : o # p /\ reroute[o] # NoOne /\ reroute[p] # NoOne
              => ~(Moves(reroute[o].q) /\ Moves(reroute[p].q))
        /\ \A o \in Operators : Renumbers(o)

LEMMA BeginsInOrder ==
    ASSUME RoutesSound, InOrder, NEW o \in Operators, Begins(o)
    PROVE  InOrder'
<1> SUFFICES ASSUME ~crossed'
             PROVE  /\ Contiguous(routes')
                    /\ \A p \in Operators : reroute'[p] # NoOne => Reads(routes', reroute'[p].q)
                    /\ \A p, s \in Operators : p # s /\ reroute'[p] # NoOne /\ reroute'[s] # NoOne
                          => ~(Moves(reroute'[p].q) /\ Moves(reroute'[s].q))
                    /\ \A p \in Operators : Renumbers(p)'
  BY DEF InOrder
<1>1. PICK q \in Requests : MayBegin(o) /\ Begin(o, q) /\ Reads(routes, q)
  BY AllBegin
<1>2. PICK x \in Checked : x.pc = "checked" /\ x.q = q /\ RerouteAt(o, x)
  BY <1>1, Beginnings
<1>3. /\ UNCHANGED routes /\ ~crossed
      /\ Moves(q) => \A p \in Operators : reroute[p] # NoOne => ~Moves(reroute[p].q)
  BY <1>1, Beginnings
<1>4. /\ reroute'[o] = x
      /\ \A p \in Operators \ {o} : reroute'[p] = reroute[p]
  BY <1>2, RerouteSteps
<1>5. /\ Contiguous(routes)
      /\ \A p \in Operators : reroute[p] # NoOne => Reads(routes, reroute[p].q)
      /\ \A p, s \in Operators : p # s /\ reroute[p] # NoOne /\ reroute[s] # NoOne
            => ~(Moves(reroute[p].q) /\ Moves(reroute[s].q))
      /\ \A p \in Operators : Renumbers(p)
  BY <1>3 DEF InOrder
<1>6. \A p \in Operators : reroute'[p] # NoOne => Reads(routes', reroute'[p].q)
  BY <1>1, <1>2, <1>3, <1>4, <1>5
<1>7. \A p, s \in Operators : p # s /\ reroute'[p] # NoOne /\ reroute'[s] # NoOne
         => ~(Moves(reroute'[p].q) /\ Moves(reroute'[s].q))
  BY <1>2, <1>3, <1>4, <1>5
<1>8. ASSUME NEW p \in Operators PROVE Renumbers(p)'
  BY <1>2, <1>3, <1>4, <1>5 DEF Renumbers
<1> QED
  BY <1>3, <1>5, <1>6, <1>7, <1>8

LEMMA WritesInOrder ==
    ASSUME RoutesSound, InOrder, NEW o \in Operators, WriteRoutes(o)
    PROVE  InOrder'
<1> SUFFICES ASSUME ~crossed'
             PROVE  /\ Contiguous(routes')
                    /\ \A p \in Operators : reroute'[p] # NoOne => Reads(routes', reroute'[p].q)
                    /\ \A p, s \in Operators : p # s /\ reroute'[p] # NoOne /\ reroute'[s] # NoOne
                          => ~(Moves(reroute'[p].q) /\ Moves(reroute'[s].q))
                    /\ \A p \in Operators : Renumbers(p)'
  BY DEF InOrder
<1>1. /\ UNCHANGED <<routes, crossed>> /\ ~crossed
      /\ reroute[o] # NoOne /\ reroute[o].q \in Requests
  BY Writing
<1>2. /\ Contiguous(routes)
      /\ \A p \in Operators : reroute[p] # NoOne => Reads(routes, reroute[p].q)
      /\ \A p, s \in Operators : p # s /\ reroute[p] # NoOne /\ reroute[s] # NoOne
            => ~(Moves(reroute[p].q) /\ Moves(reroute[s].q))
      /\ \A p \in Operators : Renumbers(p)
  BY <1>1 DEF InOrder
<1>3. PICK x : /\ RerouteAt(o, x)
               /\ x = NoOne \/ x.q = reroute[o].q
               /\ x.pc = "written" =>
                     \A g \in Gateways : (IF g \in DOMAIN x.writes THEN x.writes[g] ELSE routes[g]).priority
                                            = NewStep(x.q, g, routes[g].priority)
  <2>1. CASE RerouteAt(o, NoOne)
    <3>1. NoOne.pc # "written"
      BY DEF NoOne
    <3> QED
      BY <2>1, <3>1
  <2>2. CASE ~RerouteAt(o, NoOne)
    <3>1. PICK x \in Held :
             /\ RerouteAt(o, x) /\ x.pc = "written" /\ x.q = reroute[o].q
             /\ Found(routes, x.q)
             /\ DOMAIN x.writes = {g \in Gateways : Written(routes, x.q)[g] # routes[g]}
             /\ \A g \in DOMAIN x.writes : x.writes[g] = Written(routes, x.q)[g]
      BY <2>2, Writing
    <3>2. \A g \in Gateways : Written(routes, x.q)[g].priority = NewStep(x.q, g, routes[g].priority)
      BY <1>1, <3>1, AllRewrite DEF Rewrites, RoutesSound
    <3>3. \A g \in Gateways : (IF g \in DOMAIN x.writes THEN x.writes[g] ELSE routes[g]).priority
                                  = NewStep(x.q, g, routes[g].priority)
      BY <3>1, <3>2
    <3> QED
      BY <3>1, <3>3
  <2> QED
    BY <2>1, <2>2
<1>4. /\ reroute'[o] = x
      /\ \A p \in Operators \ {o} : reroute'[p] = reroute[p]
  BY <1>3, RerouteSteps
<1>5. \A p \in Operators : reroute'[p] # NoOne => Reads(routes', reroute'[p].q)
  BY <1>1, <1>2, <1>3, <1>4
<1>6. \A p, s \in Operators : p # s /\ reroute'[p] # NoOne /\ reroute'[s] # NoOne
         => ~(Moves(reroute'[p].q) /\ Moves(reroute'[s].q))
  BY <1>1, <1>2, <1>3, <1>4
<1>7. ASSUME NEW p \in Operators PROVE Renumbers(p)'
  BY <1>1, <1>2, <1>3, <1>4 DEF Renumbers
<1> QED
  BY <1>1, <1>2, <1>5, <1>6, <1>7

LEMMA CommitsInOrder ==
    ASSUME RoutesSound, InOrder, NEW o \in Operators, CommitRoutes(o)
    PROVE  InOrder'
<1> SUFFICES ASSUME ~crossed'
             PROVE  /\ Contiguous(routes')
                    /\ \A p \in Operators : reroute'[p] # NoOne => Reads(routes', reroute'[p].q)
                    /\ \A p, s \in Operators : p # s /\ reroute'[p] # NoOne /\ reroute'[s] # NoOne
                          => ~(Moves(reroute'[p].q) /\ Moves(reroute'[s].q))
                    /\ \A p \in Operators : Renumbers(p)'
  BY DEF InOrder
<1>1. /\ reroute[o].pc = "written" /\ reroute[o] # NoOne /\ reroute[o].q \in Requests
      /\ RerouteAt(o, NoOne) /\ ~crossed
      /\ routes' \in Table
      /\ \A g \in DOMAIN reroute[o].writes : routes'[g] = reroute[o].writes[g]
      /\ \A g \in Gateways \ DOMAIN reroute[o].writes : routes'[g] = routes[g]
  BY Committing
<1>2. /\ Contiguous(routes)
      /\ \A p \in Operators : reroute[p] # NoOne => Reads(routes, reroute[p].q)
      /\ \A p, s \in Operators : p # s /\ reroute[p] # NoOne /\ reroute[s] # NoOne
            => ~(Moves(reroute[p].q) /\ Moves(reroute[s].q))
      /\ \A p \in Operators : Renumbers(p)
  BY <1>1 DEF InOrder
<1>3. PICK q \in Requests : q = reroute[o].q
  BY <1>1
<1>4. PICK r \in Table : r = routes
  BY DEF RoutesSound
<1>5. PICK s \in Table : s = routes'
  BY <1>1
<1>6. \A g \in Gateways : s[g].priority = NewStep(q, g, r[g].priority)
  BY <1>1, <1>2, <1>3, <1>4, <1>5 DEF Renumbers
<1>7. Contiguous(s)
  BY <1>1, <1>2, <1>3, <1>4, <1>6, RenumberingHolds
<1>8. /\ reroute'[o] = NoOne
      /\ \A p \in Operators \ {o} : reroute'[p] = reroute[p]
  BY <1>1, RerouteSteps
<1>9. NoOne.pc # "written"
  BY DEF NoOne
<1>10. \A p, t \in Operators : p # t /\ reroute'[p] # NoOne /\ reroute'[t] # NoOne
          => ~(Moves(reroute'[p].q) /\ Moves(reroute'[t].q))
  BY <1>2, <1>8
<1>11. ASSUME NEW p \in Operators \ {o}, reroute[p] # NoOne
       PROVE  /\ reroute[p].q \in Requests
              /\ Moves(q) => reroute[p].q.op = "switch"
  <2>1. reroute[p] \in {NoOne} \cup Checked \cup Held
    BY DEF RoutesSound
  <2>2. reroute[p].q \in Requests
    BY <1>11, <2>1, Progress
  <2>3. Moves(q) => ~Moves(reroute[p].q)
    BY <1>1, <1>2, <1>3, <1>11
  <2>4. reroute[p].q.op \in Ops
    BY <2>2, RequestFields
  <2> QED
    BY <2>2, <2>3, <2>4 DEF Moves, Ops
<1>12. CASE ~Moves(q)
  <2>1. q.op = "switch"
    BY <1>12, RequestFields DEF Moves, Ops
  <2>2. \A g \in Gateways : r[g].priority = s[g].priority
    BY <1>6, <2>1 DEF NewStep
  <2>3. \A p \in Operators : reroute'[p] # NoOne => Reads(routes', reroute'[p].q)
    <3> SUFFICES ASSUME NEW p \in Operators \ {o}, reroute[p] # NoOne
                 PROVE  Reads(s, reroute[p].q)
      BY <1>5, <1>8
    <3>1. Reads(r, reroute[p].q)
      BY <1>2, <1>4
    <3>2. reroute[p].q \in Requests
      BY <1>11
    <3> QED
      BY <2>2, <3>1, <3>2, SamePlaces
  <2>4. ASSUME NEW p \in Operators PROVE Renumbers(p)'
    BY <1>2, <1>4, <1>5, <1>8, <1>9, <2>2 DEF Renumbers
  <2> QED
    BY <1>5, <1>7, <1>10, <2>3, <2>4
<1>13. CASE Moves(q)
  <2>1. \A p \in Operators : reroute'[p] # NoOne => Reads(routes', reroute'[p].q)
    BY <1>8, <1>11, <1>13 DEF Reads
  <2>2. ASSUME NEW p \in Operators PROVE Renumbers(p)'
    <3>1. CASE p = o
      BY <1>8, <1>9, <3>1 DEF Renumbers
    <3>2. CASE p # o /\ reroute[p].pc = "written"
      <4>1. PICK x : x = reroute[p] /\ x = reroute'[p]
        BY <1>8, <3>2
      <4>2. x # NoOne /\ x.q.op = "switch"
        BY <1>9, <1>11, <1>13, <3>2, <4>1
      <4>3. \A g \in Gateways : (IF g \in DOMAIN x.writes THEN x.writes[g] ELSE routes[g]).priority
                                   = routes[g].priority
        BY <1>2, <3>2, <4>1, <4>2 DEF Renumbers, NewStep
      <4>4. \A g \in Gateways : g \in DOMAIN x.writes => routes'[g] = routes[g]
        BY <1>1, <3>2, <4>1 DEF RoutesSound, WritesApart
      <4>5. \A g \in Gateways : (IF g \in DOMAIN x.writes THEN x.writes[g] ELSE routes'[g]).priority
                                   = routes'[g].priority
        BY <4>3, <4>4
      <4> QED
        BY <4>1, <4>2, <4>5 DEF Renumbers, NewStep
    <3>3. CASE p # o /\ reroute[p].pc # "written"
      BY <1>8, <3>3 DEF Renumbers
    <3> QED
      BY <3>1, <3>2, <3>3
  <2> QED
    BY <1>5, <1>7, <1>10, <2>1, <2>2
<1> QED
  BY <1>12, <1>13

LEMMA InOrderStep == RoutesSound /\ InOrder /\ RoutesNext => InOrder'
BY RoutesSteps, BeginsInOrder, WritesInOrder, CommitsInOrder

-----------------------------------------------------------------------------
(* A gateway that takes payments, while no two requests that may leave a   *)
(* gateway fewer overlap.                                                  *)

\* What a transaction holds switches off only what the request is about.
SwitchesHold(o) ==
    reroute[o].pc = "written" =>
        \A g \in DOMAIN reroute[o].writes :
           /\ routes[g].enabled /\ (Disables(reroute[o].q) => g # reroute[o].q.g)
                 => reroute[o].writes[g].enabled
           /\ reroute[o].q.op = "create" /\ g = reroute[o].q.g
                 => reroute[o].writes[g].enabled = reroute[o].q.enabled

Payable ==
    /\ \A o \in Operators : SwitchesHold(o)
    /\ ~cleared =>
        /\ Routed(routes) = {} \/ Enabled(routes) # {}
        /\ \A o \in Operators : reroute[o] # NoOne => Backed(routes, reroute[o].q)
        /\ \A o, p \in Operators : o # p /\ reroute[o] # NoOne /\ reroute[p] # NoOne
              => ~(Disables(reroute[o].q) /\ Disables(reroute[p].q))

LEMMA SwitchesWritten ==
    ASSUME NEW r \in Table, NEW q \in Requests, Found(r, q), NEW g \in Gateways
    PROVE  /\ r[g].enabled /\ (Disables(q) => g # q.g) => Written(r, q)[g].enabled
           /\ q.op = "create" /\ g = q.g => Written(r, q)[g].enabled = q.enabled
<1>1. q.op = "create" /\ g = q.g => Written(r, q)[g].enabled = q.enabled
  BY CreateRewrites, RequestFields
<1>2. ASSUME r[g].enabled, Disables(q) => g # q.g PROVE Written(r, q)[g].enabled
  <2>1. CASE q.op = "reorder" \/ g # q.g
    <3>1. Written(r, q)[g].enabled = r[g].enabled
      BY <2>1, AllRewrite DEF Rewrites
    <3> QED
      BY <1>2, <3>1, Zenon
  <2>2. CASE q.op = "create" /\ g = q.g
    <3>1. r[g] = NoRoute
      BY <2>2 DEF Found
    <3> QED
      BY <1>2, <3>1, Rows, Zenon
  <2>3. CASE q.op = "switch" /\ g = q.g
    <3>1. q.sets # "disable"
      BY <1>2, <2>3 DEF Disables
    <3>2. q \in Switching
      BY <2>3, RequestFields
    <3> QED
      BY <2>3, <3>1, <3>2, SwitchRewrites
  <2>4. CASE q.op = "move" /\ g = q.g
    <3>1. q \in Moving
      BY <2>4, RequestFields
    <3>2. q.sets \in {"enable", "keep"}
      BY <1>2, <2>4, <3>1 DEF Disables, Moving
    <3>3. CASE q.sets = "enable"
      BY <2>4, <3>1, <3>3, MoveRewrites
    <3>4. CASE q.sets = "keep"
      <4>1. Written(r, q)[g].enabled = r[g].enabled
        BY <2>4, <3>1, <3>4, MoveRewrites
      <4> QED
        BY <1>2, <4>1, Zenon
    <3> QED
      BY <3>2, <3>3, <3>4
  <2>5. CASE q.op = "delete" /\ g = q.g
    BY <1>2, <2>5 DEF Disables
  <2> QED
    BY <2>1, <2>2, <2>3, <2>4, <2>5, RequestFields DEF Ops
<1> QED
  BY <1>1, <1>2

LEMMA BeginsPayable ==
    ASSUME RoutesSound, Payable, NEW o \in Operators, Begins(o)
    PROVE  Payable'
<1>1. PICK q \in Requests :
         MayBegin(o) /\ Begin(o, q) /\ (StaysPayable /\ ~cleared => Backed(routes, q))
  BY AllBegin
<1>2. PICK x \in Checked : x.pc = "checked" /\ x.q = q /\ RerouteAt(o, x)
  BY <1>1, Beginnings
<1>3. UNCHANGED routes
  BY <1>1, Beginnings
<1>4. /\ reroute'[o] = x
      /\ \A p \in Operators \ {o} : reroute'[p] = reroute[p]
  BY <1>2, RerouteSteps
<1>5. ASSUME NEW p \in Operators PROVE SwitchesHold(p)'
  <2>1. SwitchesHold(p)
    BY DEF Payable
  <2>2. CASE p = o
    BY <1>2, <1>4, <2>2 DEF SwitchesHold
  <2>3. CASE p # o
    BY <1>3, <1>4, <2>1, <2>3, Zenon DEF SwitchesHold
  <2> QED
    BY <2>2, <2>3
<1>6. ASSUME ~cleared'
      PROVE  /\ Routed(routes') = {} \/ Enabled(routes') # {}
             /\ \A p \in Operators : reroute'[p] # NoOne => Backed(routes', reroute'[p].q)
             /\ \A p, s \in Operators : p # s /\ reroute'[p] # NoOne /\ reroute'[s] # NoOne
                   => ~(Disables(reroute'[p].q) /\ Disables(reroute'[s].q))
  <2>1. /\ ~cleared
        /\ Disables(q) => \A p \in Operators : reroute[p] # NoOne => ~Disables(reroute[p].q)
    BY <1>1, <1>6, Beginnings
  <2>2. /\ Routed(routes) = {} \/ Enabled(routes) # {}
        /\ \A p \in Operators : reroute[p] # NoOne => Backed(routes, reroute[p].q)
        /\ \A p, s \in Operators : p # s /\ reroute[p] # NoOne /\ reroute[s] # NoOne
              => ~(Disables(reroute[p].q) /\ Disables(reroute[s].q))
    BY <2>1 DEF Payable
  <2>3. Backed(routes, q)
    BY <1>1, <2>1, <2>2 DEF StaysPayable
  <2>4. \A p \in Operators : reroute'[p] # NoOne => Backed(routes', reroute'[p].q)
    BY <1>2, <1>3, <1>4, <2>2, <2>3
  <2>5. \A p, s \in Operators : p # s /\ reroute'[p] # NoOne /\ reroute'[s] # NoOne
           => ~(Disables(reroute'[p].q) /\ Disables(reroute'[s].q))
    BY <1>2, <1>4, <2>1, <2>2
  <2> QED
    BY <1>3, <2>2, <2>4, <2>5
<1> QED
  BY <1>5, <1>6 DEF Payable

LEMMA WritesPayable ==
    ASSUME RoutesSound, Payable, NEW o \in Operators, WriteRoutes(o)
    PROVE  Payable'
<1>1. UNCHANGED <<routes, cleared>> /\ reroute[o] # NoOne
  BY Writing
<1>2. PICK x : /\ RerouteAt(o, x) /\ (x = NoOne \/ x.q = reroute[o].q)
               /\ x.pc = "written" => /\ x \in Held /\ Found(routes, x.q)
                                      /\ \A g \in DOMAIN x.writes :
                                            x.writes[g] = Written(routes, x.q)[g]
  <2>1. NoOne.pc # "written"
    BY DEF NoOne
  <2> QED
    BY <2>1, Writing
<1>3. /\ reroute'[o] = x
      /\ \A p \in Operators \ {o} : reroute'[p] = reroute[p]
  BY <1>2, RerouteSteps
<1>4. ASSUME NEW p \in Operators PROVE SwitchesHold(p)'
  <2>1. SwitchesHold(p)
    BY DEF Payable
  <2>2. CASE p # o
    BY <1>1, <1>3, <2>1, <2>2, Zenon DEF SwitchesHold
  <2>3. CASE p = o
    <3>1. ASSUME x.pc = "written", NEW g \in DOMAIN x.writes
          PROVE  /\ routes[g].enabled /\ (Disables(x.q) => g # x.q.g) => x.writes[g].enabled
                 /\ x.q.op = "create" /\ g = x.q.g => x.writes[g].enabled = x.q.enabled
      <4>1. /\ x.q \in Requests /\ g \in Gateways /\ Found(routes, x.q)
            /\ x.writes[g] = Written(routes, x.q)[g] /\ routes \in Table
        BY <1>2, <3>1, Progress DEF RoutesSound
      <4>2. PICK w : w = Written(routes, x.q)[g]
        OBVIOUS
      <4>3. /\ routes[g].enabled /\ (Disables(x.q) => g # x.q.g) => w.enabled
            /\ x.q.op = "create" /\ g = x.q.g => w.enabled = x.q.enabled
        BY <4>1, <4>2, SwitchesWritten
      <4> QED
        BY <4>1, <4>2, <4>3, Zenon
    <3> QED
      BY <1>1, <1>3, <2>3, <3>1, Zenon DEF SwitchesHold
  <2> QED
    BY <2>2, <2>3
<1>5. \A p \in Operators : reroute'[p] # NoOne => reroute[p] # NoOne /\ reroute'[p].q = reroute[p].q
  BY <1>1, <1>2, <1>3
<1>6. ASSUME ~cleared'
      PROVE  /\ Routed(routes') = {} \/ Enabled(routes') # {}
             /\ \A p \in Operators : reroute'[p] # NoOne => Backed(routes', reroute'[p].q)
             /\ \A p, s \in Operators : p # s /\ reroute'[p] # NoOne /\ reroute'[s] # NoOne
                   => ~(Disables(reroute'[p].q) /\ Disables(reroute'[s].q))
  BY <1>1, <1>5, <1>6 DEF Payable
<1> QED
  BY <1>4, <1>6 DEF Payable

\* A row that was enabled stays so, unless the request is about switching it off.
LEMMA StaysEnabled ==
    ASSUME RoutesSound, Payable, NEW o \in Operators, CommitRoutes(o), NEW h \in Gateways,
           routes[h].enabled, Disables(reroute[o].q) => h # reroute[o].q.g
    PROVE  routes'[h].enabled
<1>1. CASE h \notin DOMAIN reroute[o].writes
  <2>1. routes'[h] = routes[h]
    BY <1>1, Committing
  <2> QED
    BY <2>1, Zenon
<1>2. CASE h \in DOMAIN reroute[o].writes
  <2>1. routes'[h] = reroute[o].writes[h] /\ reroute[o].pc = "written"
    BY <1>2, Committing
  <2>2. reroute[o].writes[h].enabled
    BY <1>2, <2>1, Zenon DEF Payable, SwitchesHold
  <2> QED
    BY <2>1, <2>2, Zenon
<1> QED
  BY <1>1, <1>2

LEMMA CommitsPayable ==
    ASSUME RoutesSound, Payable, NEW o \in Operators, CommitRoutes(o)
    PROVE  Payable'
<1>1. /\ reroute[o].pc = "written" /\ reroute[o] # NoOne /\ reroute[o].q \in Requests
      /\ RerouteAt(o, NoOne)
      /\ routes' \in Table
      /\ \A g \in DOMAIN reroute[o].writes : g \in Gateways /\ routes'[g] = reroute[o].writes[g]
      /\ \A g \in Gateways \ DOMAIN reroute[o].writes : routes'[g] = routes[g]
      /\ ~cleared' => ~cleared /\ (reroute[o].q.op = "delete" => Enabled(routes') # {})
  BY Committing
<1>2. /\ reroute'[o] = NoOne
      /\ \A p \in Operators \ {o} : reroute'[p] = reroute[p]
  BY <1>1, RerouteSteps
<1>3. NoOne.pc # "written"
  BY DEF NoOne
<1>4. ASSUME NEW p \in Operators PROVE SwitchesHold(p)'
  <2>1. CASE p = o
    BY <1>2, <1>3, <2>1 DEF SwitchesHold
  <2>2. CASE p # o /\ reroute[p].pc # "written"
    BY <1>2, <2>2 DEF SwitchesHold
  <2>3. CASE p # o /\ reroute[p].pc = "written"
    <3>1. PICK x : x = reroute[p]
      OBVIOUS
    <3>2. reroute'[p] = x /\ x.pc = "written" /\ x \in {NoOne} \cup Checked \cup Held
      BY <1>2, <2>3, <3>1 DEF RoutesSound
    <3>3. \A g \in DOMAIN x.writes : routes'[g] = routes[g]
      BY <1>1, <2>3, <3>1, <3>2, Progress DEF RoutesSound, WritesApart
    <3>4. \A g \in DOMAIN x.writes :
             /\ routes[g].enabled /\ (Disables(x.q) => g # x.q.g) => x.writes[g].enabled
             /\ x.q.op = "create" /\ g = x.q.g => x.writes[g].enabled = x.q.enabled
      BY <3>1, <3>2, Zenon DEF Payable, SwitchesHold
    <3>5. \A g \in DOMAIN x.writes :
             /\ routes'[g].enabled /\ (Disables(x.q) => g # x.q.g) => x.writes[g].enabled
             /\ x.q.op = "create" /\ g = x.q.g => x.writes[g].enabled = x.q.enabled
      BY <3>3, <3>4, Zenon
    <3> QED
      BY <3>2, <3>5, Zenon DEF SwitchesHold
  <2> QED
    BY <2>1, <2>2, <2>3
<1>5. ASSUME ~cleared'
      PROVE  /\ Routed(routes') = {} \/ Enabled(routes') # {}
             /\ \A p \in Operators : reroute'[p] # NoOne => Backed(routes', reroute'[p].q)
             /\ \A p, s \in Operators : p # s /\ reroute'[p] # NoOne /\ reroute'[s] # NoOne
                   => ~(Disables(reroute'[p].q) /\ Disables(reroute'[s].q))
  <2>1. /\ Routed(routes) = {} \/ Enabled(routes) # {}
        /\ \A p \in Operators : reroute[p] # NoOne => Backed(routes, reroute[p].q)
        /\ \A p, s \in Operators : p # s /\ reroute[p] # NoOne /\ reroute[s] # NoOne
              => ~(Disables(reroute[p].q) /\ Disables(reroute[s].q))
    BY <1>1, <1>5 DEF Payable
  <2>2. PICK q \in Requests : q = reroute[o].q
    BY <1>1
  <2>3. \A p, s \in Operators : p # s /\ reroute'[p] # NoOne /\ reroute'[s] # NoOne
           => ~(Disables(reroute'[p].q) /\ Disables(reroute'[s].q))
    BY <1>2, <2>1
  <2>4. Enabled(routes) # {} => Enabled(routes') # {}
    <3> SUFFICES ASSUME Enabled(routes) # {} PROVE Enabled(routes') # {}
      OBVIOUS
    <3>1. CASE q.op = "delete"
      BY <1>1, <1>5, <2>2, <3>1
    <3>2. CASE Disables(q) /\ q.op # "delete"
      <4>1. q.op \in {"switch", "move"} /\ q.sets = "disable"
        BY <3>2 DEF Disables
      <4>2. PICK h \in Gateways \ {q.g} : routes[h].enabled
        BY <1>1, <2>1, <2>2, <4>1 DEF Backed
      <4>3. routes'[h].enabled
        BY <2>2, <4>2, StaysEnabled
      <4> QED
        BY <4>3 DEF Enabled
    <3>3. CASE ~Disables(q)
      <4>1. PICK h \in Gateways : routes[h].enabled
        BY DEF Enabled
      <4>2. routes'[h].enabled
        BY <2>2, <3>3, <4>1, StaysEnabled
      <4> QED
        BY <4>2 DEF Enabled
    <3> QED
      BY <3>1, <3>2, <3>3
  <2>5. Routed(routes) = {} /\ Routed(routes') # {} => Enabled(routes') # {}
    <3> SUFFICES ASSUME Routed(routes) = {}, Routed(routes') # {} PROVE Enabled(routes') # {}
      OBVIOUS
    <3>1. PICK h \in Gateways : routes'[h] # NoRoute
      BY DEF Routed
    <3>2. routes[h] = NoRoute
      BY DEF Routed
    <3>3. h \in DOMAIN reroute[o].writes
      BY <1>1, <3>1, <3>2
    <3>4. q.op = "create" /\ h = q.g
      BY <1>1, <2>2, <3>2, <3>3 DEF RoutesSound, WritesHold
    <3>5. q.enabled
      BY <1>1, <2>1, <2>2, <3>4 DEF Backed
    <3>6. reroute[o].writes[h].enabled = q.enabled
      BY <1>1, <2>2, <3>3, <3>4 DEF Payable, SwitchesHold
    <3>7. routes'[h] = reroute[o].writes[h]
      BY <1>1, <3>3
    <3>8. routes'[h].enabled
      BY <3>5, <3>6, <3>7, Zenon
    <3> QED
      BY <3>8 DEF Enabled
  <2>6. Enabled(routes') \subseteq Routed(routes')
    <3>1. ASSUME NEW h \in Gateways, routes'[h].enabled PROVE routes'[h] # NoRoute
      <4>1. routes'[h] \in Route \cup {NoRoute}
        BY <1>1 DEF Table
      <4> QED
        BY <3>1, <4>1, Rows, Zenon
    <3> QED
      BY <3>1 DEF Enabled, Routed
  <2>7. ASSUME NEW p \in Operators, reroute'[p] # NoOne PROVE Backed(routes', reroute'[p].q)
    <3>1. p # o /\ reroute'[p] = reroute[p]
      BY <1>2, <2>7
    <3>2. PICK t : t = reroute[p].q /\ t = reroute'[p].q
      BY <3>1
    <3>3. Backed(routes, t)
      BY <2>1, <2>7, <3>1, <3>2
    <3>4. t.op = "create" => t.enabled \/ Routed(routes') # {}
      <4>1. Routed(routes) # {} => Routed(routes') # {}
        BY <2>1, <2>4, <2>6
      <4> QED
        BY <3>3, <4>1, Zenon DEF Backed
    <3>5. ASSUME t.op \in {"switch", "move"}, t.sets = "disable"
          PROVE  \E h \in Gateways \ {t.g} : routes'[h].enabled
      <4>1. PICK h \in Gateways \ {t.g} : routes[h].enabled
        BY <3>3, <3>5 DEF Backed
      <4>2. ~Disables(q)
        BY <1>1, <2>1, <2>2, <2>7, <3>1, <3>2, <3>5 DEF Disables
      <4>3. routes'[h].enabled
        BY <2>2, <4>1, <4>2, StaysEnabled
      <4> QED
        BY <4>3
    <3> QED
      BY <3>2, <3>4, <3>5, Zenon DEF Backed
  <2> QED
    BY <2>1, <2>3, <2>4, <2>5, <2>7
<1> QED
  BY <1>4, <1>5 DEF Payable

LEMMA PayableStep == RoutesSound /\ Payable /\ RoutesNext => Payable'
BY RoutesSteps, BeginsPayable, WritesPayable, CommitsPayable

-----------------------------------------------------------------------------
(* The first state.                                                        *)

LEMMA RoutesStart == RoutesInit => RoutesSound /\ InOrder /\ Payable
<1> SUFFICES ASSUME RoutesInit PROVE RoutesSound /\ InOrder /\ Payable
  OBVIOUS
<1>1. /\ \A o \in Operators : reroute[o] = NoOne
      /\ reroute \in [Operators -> {NoOne}]
      /\ reroutes = 0 /\ crossed = FALSE /\ cleared = FALSE
      /\ Contiguous(routes) /\ (Routed(routes) # {} => Enabled(routes) # {})
  BY DEF RoutesInit
<1>2. routes \in Table
  <2>1. Cardinality(Gateways) \in Nat
    BY RoutesAssumption, FS_CardinalityType
  <2>2. [id : {1}, priority : 1 .. Cardinality(Gateways), enabled : BOOLEAN] \subseteq Route
    BY <2>1 DEF Route
  <2>3. routes \in [Gateways -> {NoRoute} \cup [id : {1}, priority : 1 .. Cardinality(Gateways),
                                               enabled : BOOLEAN]]
    BY DEF RoutesInit
  <2> QED
    BY <2>2, <2>3 DEF Table
<1>3. NoOne.pc # "written"
  BY DEF NoOne
<1>4. RoutesSound
  <2>1. reroute \in [Operators -> {NoOne} \cup Checked \cup Held]
    BY <1>1
  <2>2. \A o \in Operators : WritesHold(o)
    BY <1>1, <1>3 DEF WritesHold
  <2>3. WritesApart
    BY <1>1, <1>3 DEF WritesApart
  <2> QED
    BY <1>1, <1>2, <2>1, <2>2, <2>3 DEF RoutesSound
<1>5. InOrder
  BY <1>1, <1>3 DEF InOrder, Renumbers
<1>6. Payable
  BY <1>1, <1>3 DEF Payable, SwitchesHold
<1> QED
  BY <1>4, <1>5, <1>6

LEMMA RoutesStay ==
    UNCHANGED routeVars /\ RoutesSound /\ InOrder /\ Payable
       => RoutesSound' /\ InOrder' /\ Payable'
<1> SUFFICES ASSUME UNCHANGED routeVars, RoutesSound, InOrder, Payable
             PROVE  RoutesSound' /\ InOrder' /\ Payable'
  OBVIOUS
<1>1. UNCHANGED <<routes, reroute, reroutes, crossed, cleared>>
  BY DEF routeVars
<1> QED
  BY <1>1 DEF RoutesSound, Table, WritesHold, WritesApart, InOrder, Renumbers, Payable, SwitchesHold

-----------------------------------------------------------------------------
(* The price in a currency and its history.                                *)

\* A price, a history, requests and their count for every currency.
Shaped ==
    /\ price = [c \in Currencies |-> price[c]] /\ record = [c \in Currencies |-> record[c]]
    /\ edit = [c \in Currencies |-> edit[c]] /\ edits = [c \in Currencies |-> edits[c]]
    /\ overlaid = [c \in Currencies |-> overlaid[c]]

Interval == [id : Nat, base : Amounts, promo : Amounts \cup {0}, from : Times,
             to : Times \cup {Open}]
Asked    == [op : {"add", "update", "remove"}, id : Nat, base : Amounts,
             promo : Amounts \cup {0}, at : Times]
Begun    == [op : {"updating", "removing"}, id : Nat, base : Amounts,
             promo : Amounts \cup {0}, at : Times, closes : SUBSET Nat]

TypesIn(c) ==
    /\ now \in Times
    /\ price[c] \in Row \cup {NoPrice}
    /\ record[c] \in Seq(Interval)
    /\ edit[c] \in [Editors -> {Nobody} \cup Asked \cup Begun]
    /\ edits[c] \in Nat /\ overlaid[c] \in BOOLEAN

\* What is sold is what the newest entry of its row says.
SoundRow(c) ==
    price[c] # NoPrice =>
        /\ Valid(price[c].base, price[c].promo)
        /\ \E i \in DOMAIN record[c] :
              /\ record[c][i].id = price[c].id
              /\ record[c][i].base = price[c].base /\ record[c][i].promo = price[c].promo
              /\ \A j \in DOMAIN record[c] : record[c][j].id = price[c].id => j <= i

\* A price has an id, a request is about one, and what is to be sold makes sense.
PriceTypes(c) ==
    /\ TypesIn(c)
    /\ price[c] # NoPrice => price[c].id > 0
    /\ \A e \in Editors : edit[c][e] # Nobody => edit[c][e].id > 0

Sensible(c) == \A e \in Editors : edit[c][e].op \in {"add", "update", "updating"}
                                  => Valid(edit[c][e].base, edit[c][e].promo)

Coherent(c) == PriceTypes(c) /\ SoundRow(c) /\ Sensible(c)

LEMMA TypesByName ==
    ASSUME NEW c
    PROVE  TypesIn(c) <=> /\ now \in Times
                          /\ price[c] \in Row \cup {NoPrice}
                          /\ record[c] \in Seq(Interval)
                          /\ edit[c] \in [Editors -> {Nobody} \cup Asked \cup Begun]
                          /\ edits[c] \in Nat /\ overlaid[c] \in BOOLEAN
BY DEF TypesIn

LEMMA TypesTogether ==
    PricesTypeOK <=> now \in Times /\ Shaped /\ \A c \in Currencies : TypesIn(c)
<1>1. PricesTypeOK <=>
         /\ now \in Times
         /\ price \in [Currencies -> Row \cup {NoPrice}]
         /\ record \in [Currencies -> Seq(Interval)]
         /\ edit \in [Currencies -> [Editors -> {Nobody} \cup Asked \cup Begun]]
         /\ edits \in [Currencies -> Nat] /\ overlaid \in [Currencies -> BOOLEAN]
  BY DEF PricesTypeOK, Interval, Asked, Begun
<1>2. PricesTypeOK => now \in Times /\ Shaped /\ \A c \in Currencies : TypesIn(c)
  BY <1>1 DEF Shaped, TypesIn
<1>3. ASSUME now \in Times, Shaped, \A c \in Currencies : TypesIn(c) PROVE PricesTypeOK
  <2>1. price \in [Currencies -> Row \cup {NoPrice}]
    BY <1>3 DEF Shaped, TypesIn
  <2>2. record \in [Currencies -> Seq(Interval)]
    BY <1>3 DEF Shaped, TypesIn
  <2>3. edit \in [Currencies -> [Editors -> {Nobody} \cup Asked \cup Begun]]
    BY <1>3 DEF Shaped, TypesIn
  <2>4. edits \in [Currencies -> Nat] /\ overlaid \in [Currencies -> BOOLEAN]
    BY <1>3 DEF Shaped, TypesIn
  <2> QED
    BY <1>1, <1>3, <2>1, <2>2, <2>3, <2>4
<1> QED
  BY <1>2, <1>3

LEMMA PriceNumbers ==
    /\ Amounts \subseteq Nat \ {0}
    /\ MaxTime \in Nat
    /\ Times \subseteq Nat
    /\ Open \in Nat /\ \A t \in Times : t < Open
    /\ NoPrice \notin Row
BY PricesAssumption DEF Times, Open, NoPrice, Row

LEMMA NobodyIdle == Nobody.op = "none" /\ Nobody \notin Asked /\ Nobody \notin Begun
BY DEF Nobody, Asked, Begun

\* What a request consists of.
LEMMA EditFields ==
    ASSUME NEW c \in Currencies, PriceTypes(c), NEW e \in Editors, edit[c][e] # Nobody
    PROVE  /\ edit[c][e] \in Asked \cup Begun
           /\ edit[c][e].id \in Nat \ {0} /\ edit[c][e].base \in Amounts
           /\ edit[c][e].promo \in Amounts \cup {0} /\ edit[c][e].at \in Times
           /\ edit[c][e].op \in {"add", "update", "remove"} => edit[c][e] \in Asked
           /\ edit[c][e].op \in {"updating", "removing"} =>
                 edit[c][e] \in Begun /\ edit[c][e].closes \subseteq Nat
<1>1. edit[c][e] \in Asked \cup Begun /\ edit[c][e].id > 0
  BY TypesByName DEF PriceTypes
<1>2. CASE edit[c][e] \in Asked
  BY <1>1, <1>2 DEF Asked
<1>3. CASE edit[c][e] \in Begun
  BY <1>1, <1>3 DEF Begun
<1> QED
  BY <1>1, <1>2, <1>3

\* The history with the intervals of a transaction closed: only ends change.
LEMMA ClosedHistory ==
    ASSUME NEW c \in Currencies, PriceTypes(c), NEW e \in Editors, edit[c][e].op \in {"updating", "removing"}
    PROVE  /\ Closed(c, e) \in Seq(Interval)
           /\ Len(Closed(c, e)) = Len(record[c])
           /\ \A i \in 1 .. Len(record[c]) :
                 /\ Closed(c, e)[i].id = record[c][i].id
                 /\ Closed(c, e)[i].base = record[c][i].base
                 /\ Closed(c, e)[i].promo = record[c][i].promo
                 /\ Closed(c, e)[i].from = record[c][i].from
                 /\ Closed(c, e)[i].to = IF i \in edit[c][e].closes /\ record[c][i].to = Open
                                      THEN edit[c][e].at ELSE record[c][i].to
<1>1. edit[c][e].at \in Times
  BY EditFields, NobodyIdle
<1>2. record[c] \in Seq(Interval)
  BY TypesByName DEF PriceTypes
<1>3. DOMAIN record[c] = 1 .. Len(record[c]) /\ Len(record[c]) \in Nat
  BY <1>2, LenProperties
<1>4. ASSUME NEW i \in 1 .. Len(record[c])
      PROVE  /\ Closed(c, e)[i] \in Interval
             /\ Closed(c, e)[i].id = record[c][i].id
             /\ Closed(c, e)[i].base = record[c][i].base
             /\ Closed(c, e)[i].promo = record[c][i].promo
             /\ Closed(c, e)[i].from = record[c][i].from
             /\ Closed(c, e)[i].to = IF i \in edit[c][e].closes /\ record[c][i].to = Open
                                  THEN edit[c][e].at ELSE record[c][i].to
  <2>1. record[c][i] \in Interval
    BY <1>2, ElementOfSeq
  <2>2. Closed(c, e)[i] = IF i \in edit[c][e].closes /\ record[c][i].to = Open
                       THEN [record[c][i] EXCEPT !.to = edit[c][e].at] ELSE record[c][i]
    BY <1>3 DEF Closed
  <2> QED
    BY <1>1, <2>1, <2>2 DEF Interval
<1>5. Closed(c, e) \in [1 .. Len(record[c]) -> Interval]
  BY <1>3, <1>4 DEF Closed
<1>6. Closed(c, e) \in Seq(Interval)
  BY <1>3, <1>5, SeqDef
<1>7. Len(Closed(c, e)) = Len(record[c])
  BY <1>3, <1>5, <1>6, LenProperties
<1> QED
  BY <1>4, <1>6, <1>7

\* A history that is one entry longer.
LEMMA LongerHistory ==
    ASSUME NEW r \in Seq(Interval), NEW x \in Interval, NEW h, h = Append(r, x)
    PROVE  /\ h \in Seq(Interval)
           /\ Len(r) \in Nat /\ Len(h) = Len(r) + 1
           /\ DOMAIN r = 1 .. Len(r) /\ DOMAIN h = 1 .. Len(r) + 1
           /\ \A i \in 1 .. Len(r) : h[i] = r[i]
           /\ h[Len(r) + 1] = x
<1>1. Append(r, x) \in Seq(Interval) /\ Len(Append(r, x)) = Len(r) + 1
  BY AppendProperties
<1>2. (\A i \in 1 .. Len(r) : Append(r, x)[i] = r[i]) /\ Append(r, x)[Len(r) + 1] = x
  BY AppendProperties
<1>3. Len(r) \in Nat /\ DOMAIN r = 1 .. Len(r)
  BY LenProperties
<1>4. DOMAIN Append(r, x) = 1 .. Len(Append(r, x))
  BY <1>1, LenProperties
<1> QED
  BY <1>1, <1>2, <1>3, <1>4

\* The request e becomes q.
EditAt(c, e, q) == edit'[c] = [edit[c] EXCEPT ![e] = q]

LEMMA EditSteps ==
    ASSUME NEW c \in Currencies, PriceTypes(c), NEW e \in Editors, NEW q, EditAt(c, e, q)
    PROVE  /\ edit'[c][e] = q
           /\ \A f \in Editors \ {e} : edit'[c][f] = edit[c][f]
           /\ DOMAIN edit'[c] = Editors
BY TypesByName DEF PriceTypes, EditAt

\* A request that is read, closes an interval or ends without writing.
LEMMA RequestsCohere ==
    ASSUME NEW c \in Currencies, Coherent(c), NEW e \in Editors, NEW q \in {Nobody} \cup Asked \cup Begun, EditAt(c, e, q),
           q # Nobody => q.id > 0,
           q.op \in {"add", "update", "updating"} => Valid(q.base, q.promo),
           edits'[c] \in Nat, UNCHANGED <<now, price[c], record[c], overlaid[c]>>
    PROVE  Coherent(c)'
<1>1. /\ edit'[c][e] = q
      /\ \A f \in Editors \ {e} : edit'[c][f] = edit[c][f]
      /\ DOMAIN edit'[c] = Editors
  BY EditSteps DEF Coherent
<1>2. edit[c] \in [Editors -> {Nobody} \cup Asked \cup Begun]
  BY TypesByName DEF Coherent, PriceTypes
<1>3. edit'[c] \in [Editors -> {Nobody} \cup Asked \cup Begun]
  BY <1>2 DEF EditAt
<1>4. TypesIn(c)'
  BY <1>3, TypesByName DEF Coherent, PriceTypes, TypesIn, Asked, Begun
<1>5. PriceTypes(c)'
  BY <1>1, <1>4 DEF Coherent, PriceTypes
<1>6. Sensible(c)'
  BY <1>1 DEF Coherent, Sensible
<1>7. SoundRow(c)'
  BY DEF Coherent, SoundRow
<1> QED
  BY <1>5, <1>6, <1>7 DEF Coherent

\* A request that writes price and history, and ends.
LEMMA WritesCohere ==
    ASSUME NEW c \in Currencies, Coherent(c), NEW e \in Editors, EditAt(c, e, Nobody),
           NEW r \in Seq(Interval), Len(r) = Len(record[c]), NEW x \in Interval,
           record'[c] = Append(r, x),
           price'[c] = NoPrice \/ (/\ price'[c] \in Row /\ price'[c].id > 0
                                /\ Valid(price'[c].base, price'[c].promo)
                                /\ x.id = price'[c].id /\ x.base = price'[c].base
                                /\ x.promo = price'[c].promo),
           overlaid'[c] \in BOOLEAN, UNCHANGED <<now, edits[c]>>
    PROVE  Coherent(c)'
<1>1. /\ edit'[c][e] = Nobody
      /\ \A f \in Editors \ {e} : edit'[c][f] = edit[c][f]
      /\ DOMAIN edit'[c] = Editors
  BY EditSteps DEF Coherent
<1>2. TypesIn(c)
  BY DEF Coherent, PriceTypes
<1>3. record[c] \in Seq(Interval) /\ edit[c] \in [Editors -> {Nobody} \cup Asked \cup Begun]
  BY <1>2, TypesByName
<1>4. /\ record'[c] \in Seq(Interval)
      /\ Len(r) \in Nat
      /\ DOMAIN record'[c] = 1 .. Len(r) + 1 /\ record'[c][Len(r) + 1] = x
  BY LongerHistory
<1>5. DOMAIN record[c] \subseteq DOMAIN record'[c]
  BY <1>3, <1>4, LenProperties
<1>6. edit'[c] \in [Editors -> {Nobody} \cup Asked \cup Begun]
  BY <1>3, <1>5 DEF EditAt, Begun, Asked
<1>7. TypesIn(c)'
  BY <1>2, <1>4, <1>6 DEF TypesIn, Interval, Asked, Begun
<1>8. PriceTypes(c)'
  BY <1>1, <1>7 DEF Coherent, PriceTypes
<1>9. Sensible(c)'
  BY <1>1, NobodyIdle DEF Coherent, Sensible
<1>10. SoundRow(c)'
  BY <1>4 DEF SoundRow
<1> QED
  BY <1>8, <1>9, <1>10 DEF Coherent

\* A transaction that fails leaves no trace.
Failed(c, e) == EditAt(c, e, Nobody) /\ UNCHANGED <<now, price[c], record[c], edits[c], overlaid[c]>>

\* One that succeeds appends x to the history r.
Wrote(c, e, r, x) ==
    /\ EditAt(c, e, Nobody)
    /\ record'[c] = Append(r, x)
    /\ overlaid'[c] = (overlaid[c] \/ OtherEdits(c, e) # {})
    /\ UNCHANGED <<now, edits[c]>>

\* What the steps do to the currency they are about.
LEMMA AsksIn ==
    ASSUME Shaped, NEW c \in Currencies, NEW e \in Editors, NEW q, Asks(c, e, q)
    PROVE  /\ edit[c][e] = Nobody /\ EditAt(c, e, q) /\ edits'[c] = edits[c] + 1
           /\ UNCHANGED <<now, price[c], record[c], overlaid[c]>>
BY DEF Shaped, Asks, EditAt

LEMMA FailsIn ==
    ASSUME Shaped, NEW c \in Currencies, NEW e \in Editors, Fails(c, e)
    PROVE  Failed(c, e)
BY DEF Shaped, Fails, Failed, EditAt

LEMMA WritesIn ==
    ASSUME Shaped, NEW c \in Currencies, NEW e \in Editors, NEW row, NEW r, NEW x,
           Writes(c, e, row, r, x)
    PROVE  Wrote(c, e, r, x) /\ price'[c] = row
<1>1. price'[c] = row /\ record'[c] = Append(r, x) /\ UNCHANGED <<now, edits>>
  BY DEF Shaped, Writes
<1>2. overlaid'[c] = (overlaid[c] \/ OtherEdits(c, e) # {})
  BY DEF Shaped, Writes
<1>3. edit'[c] = [edit[c] EXCEPT ![e] = Nobody]
  BY DEF Shaped, Writes
<1> QED
  BY <1>1, <1>2, <1>3 DEF Wrote, EditAt

\* What a request is when it has been read, and when it has found the open intervals.
LEMMA AskedNow ==
    ASSUME NEW c \in Currencies, PriceTypes(c), NEW op \in {"add", "update", "remove"}, NEW id \in Nat \ {0},
           NEW base \in Amounts, NEW promo \in Amounts \cup {0}
    PROVE  LET q == [op |-> op, id |-> id, base |-> base, promo |-> promo, at |-> now]
           IN q \in Asked /\ q # Nobody /\ q.op = op /\ q.id = id /\ q.base = base
              /\ q.promo = promo /\ q.at = now
BY TypesByName, NobodyIdle DEF PriceTypes, Asked

LEMMA BegunNow ==
    ASSUME Shaped, NEW c \in Currencies, PriceTypes(c), NEW e \in Editors, CloseInterval(c, e)
    PROVE  \E q \in Begun :
              /\ EditAt(c, e, q)
              /\ q.op = (IF edit[c][e].op = "update" THEN "updating" ELSE "removing")
              /\ q.id = edit[c][e].id /\ q.base = edit[c][e].base /\ q.promo = edit[c][e].promo
              /\ q.at = edit[c][e].at /\ q.closes = OpenRows(c, edit[c][e].id)
<1>1. edit[c][e] \in Asked
  BY EditFields, NobodyIdle DEF CloseInterval
<1> DEFINE q == [op |-> IF edit[c][e].op = "update" THEN "updating" ELSE "removing",
                 id |-> edit[c][e].id, base |-> edit[c][e].base, promo |-> edit[c][e].promo,
                 at |-> edit[c][e].at, closes |-> OpenRows(c, edit[c][e].id)]
<1>2. OpenRows(c, edit[c][e].id) \in SUBSET Nat
  BY TypesByName, LenProperties DEF PriceTypes, OpenRows
<1>3. q \in Begun
  BY <1>1, <1>2 DEF Asked, Begun
<1>4. EditAt(c, e, q)
  BY DEF Shaped, CloseInterval, EditAt
<1> WITNESS q \in Begun
<1> QED
  BY <1>4

LEMMA StartsCohere ==
    ASSUME Shaped, NEW c \in Currencies, Coherent(c), NEW e \in Editors,
           \/ \E base \in Amounts, promo \in Amounts \cup {0} : StartAdd(c, e, base, promo)
           \/ \E base, promo \in Amounts \cup {0}, keepPromo \in BOOLEAN :
                 StartUpdate(c, e, base, promo, keepPromo)
           \/ StartRemove(c, e)
    PROVE  /\ Coherent(c)' /\ UNCHANGED <<now, price[c], record[c], overlaid[c]>>
           /\ edit[c][e] = Nobody
           /\ \E q \in Asked :
                 /\ EditAt(c, e, q) /\ q.at = now
                 /\ q.op = "add" => q.id = edits[c] + 2 /\ edits'[c] = edits[c] + 1
                 /\ q.op # "add" => price[c] # NoPrice /\ q.id = price[c].id
                 /\ edits'[c] \in Nat /\ edits'[c] >= edits[c]
<1>1. PriceTypes(c) /\ edits[c] \in Nat /\ price[c] \in Row \cup {NoPrice}
  BY TypesByName DEF Coherent, PriceTypes
<1>2. price[c] # NoPrice => /\ price[c].id \in Nat \ {0} /\ price[c].base \in Amounts
                         /\ price[c].promo \in Amounts \cup {0}
  BY <1>1 DEF PriceTypes, Row
<1>3. ASSUME NEW q \in Asked, EditAt(c, e, q), q.id > 0, q.at = now, edit[c][e] = Nobody,
             q.op \in {"add", "update", "updating"} => Valid(q.base, q.promo),
             q.op = "add" => q.id = edits[c] + 2,
             q.op # "add" => price[c] # NoPrice /\ q.id = price[c].id,
             edits'[c] = edits[c] + 1, UNCHANGED <<now, price[c], record[c], overlaid[c]>>
      PROVE  /\ Coherent(c)' /\ UNCHANGED <<now, price[c], record[c], overlaid[c]>>
             /\ edit[c][e] = Nobody
             /\ \E r \in Asked :
                 /\ EditAt(c, e, r) /\ r.at = now
                 /\ r.op = "add" => r.id = edits[c] + 2 /\ edits'[c] = edits[c] + 1
                 /\ r.op # "add" => price[c] # NoPrice /\ r.id = price[c].id
                 /\ edits'[c] \in Nat /\ edits'[c] >= edits[c]
  <2>1. edits'[c] \in Nat /\ edits'[c] >= edits[c]
    BY <1>1, <1>3
  <2> QED
    BY <1>3, <2>1, RequestsCohere
<1>4. CASE \E base \in Amounts, promo \in Amounts \cup {0} : StartAdd(c, e, base, promo)
  <2>1. PICK base \in Amounts, promo \in Amounts \cup {0} : StartAdd(c, e, base, promo)
    BY <1>4
  <2> DEFINE q == [op |-> "add", id |-> edits[c] + 2, base |-> base, promo |-> promo, at |-> now]
  <2>2. /\ q \in Asked /\ q.op = "add" /\ q.id = edits[c] + 2 /\ q.base = base /\ q.promo = promo
        /\ q.at = now
    BY <1>1, AskedNow
  <2>3. /\ EditAt(c, e, q) /\ edit[c][e] = Nobody /\ Valid(base, promo) /\ edits'[c] = edits[c] + 1
        /\ UNCHANGED <<now, price[c], record[c], overlaid[c]>>
    BY <2>1, AsksIn DEF StartAdd
  <2> HIDE DEF q
  <2> QED
    BY <1>1, <1>3, <2>2, <2>3
<1>5. CASE \E base, promo \in Amounts \cup {0}, keepPromo \in BOOLEAN :
              StartUpdate(c, e, base, promo, keepPromo)
  <2>1. PICK base \in Amounts \cup {0}, promo \in Amounts \cup {0}, keepPromo \in BOOLEAN :
              StartUpdate(c, e, base, promo, keepPromo)
    BY <1>5
  <2>2. PICK newBase : newBase = IF base = 0 THEN price[c].base ELSE base
    OBVIOUS
  <2>3. PICK newPromo : newPromo = IF keepPromo THEN price[c].promo ELSE promo
    OBVIOUS
  <2>4. /\ price[c] # NoPrice /\ edit[c][e] = Nobody /\ Valid(newBase, newPromo)
        /\ edits'[c] = edits[c] + 1 /\ UNCHANGED <<now, price[c], record[c], overlaid[c]>>
        /\ EditAt(c, e, [op |-> "update", id |-> price[c].id, base |-> newBase, promo |-> newPromo,
                      at |-> now])
    BY <2>1, <2>2, <2>3, AsksIn DEF StartUpdate
  <2>5. newBase \in Amounts /\ newPromo \in Amounts \cup {0}
    BY <1>2, <2>2, <2>3, <2>4
  <2> DEFINE q == [op |-> "update", id |-> price[c].id, base |-> newBase, promo |-> newPromo,
                   at |-> now]
  <2>6. /\ q \in Asked /\ q.op = "update" /\ q.id = price[c].id /\ q.base = newBase
        /\ q.promo = newPromo /\ q.at = now
    BY <1>1, <1>2, <2>4, <2>5, AskedNow
  <2>7. EditAt(c, e, q)
    BY <2>4
  <2> HIDE DEF q
  <2> QED
    BY <1>2, <1>3, <2>4, <2>6, <2>7
<1>6. CASE StartRemove(c, e)
  <2> DEFINE q == [op |-> "remove", id |-> price[c].id, base |-> price[c].base,
                   promo |-> price[c].promo, at |-> now]
  <2>1. /\ price[c] # NoPrice /\ edit[c][e] = Nobody /\ EditAt(c, e, q)
        /\ edits'[c] = edits[c] + 1 /\ UNCHANGED <<now, price[c], record[c], overlaid[c]>>
    BY <1>6, AsksIn DEF StartRemove
  <2>2. q \in Asked /\ q.op = "remove" /\ q.id = price[c].id /\ q.at = now
    BY <1>1, <1>2, <2>1, AskedNow
  <2> HIDE DEF q
  <2> QED
    BY <1>2, <1>3, <2>1, <2>2
<1> QED
  BY <1>4, <1>5, <1>6

LEMMA ClosingCoheres ==
    ASSUME Shaped, NEW c \in Currencies, Coherent(c), NEW e \in Editors, CloseInterval(c, e)
    PROVE  Coherent(c)'
<1>1. PICK q \in Begun :
          /\ EditAt(c, e, q)
          /\ q.op = (IF edit[c][e].op = "update" THEN "updating" ELSE "removing")
          /\ q.id = edit[c][e].id /\ q.base = edit[c][e].base /\ q.promo = edit[c][e].promo
  BY BegunNow DEF Coherent
<1>2. edit[c][e].op \in {"update", "remove"} /\ UNCHANGED <<now, price[c], record[c], edits[c], overlaid[c]>>
  BY DEF CloseInterval
<1>3. edit[c][e].id > 0
  BY <1>2, NobodyIdle DEF Coherent, PriceTypes
<1>4. q.op \in {"add", "update", "updating"} => Valid(q.base, q.promo)
  BY <1>1, <1>2 DEF Coherent, Sensible
<1>5. edits'[c] \in Nat
  BY <1>2, TypesByName DEF Coherent, PriceTypes
<1> QED
  BY <1>1, <1>2, <1>3, <1>4, <1>5, RequestsCohere

LEMMA FailuresCohere ==
    ASSUME NEW c \in Currencies, Coherent(c), NEW e \in Editors, Failed(c, e)
    PROVE  Coherent(c)'
<1>1. edits'[c] \in Nat
  BY TypesByName DEF Coherent, PriceTypes, Failed
<1> QED
  BY <1>1, NobodyIdle, RequestsCohere DEF Failed

LEMMA EntryTypes ==
    ASSUME NEW c \in Currencies, PriceTypes(c), NEW e \in Editors, edit[c][e] # Nobody, NEW id \in Nat,
           NEW to \in Times \cup {Open}
    PROVE  Entry(c, e, id, to) \in Interval
BY EditFields DEF Entry, Interval

\* The three transactions by what they leave.
LEMMA AddLeaves ==
    ASSUME Shaped, NEW c \in Currencies, PriceTypes(c), NEW e \in Editors, CommitAdd(c, e)
    PROVE  /\ edit[c][e].op = "add"
           /\ \/ Failed(c, e)
              \/ /\ price[c] = NoPrice /\ Wrote(c, e, record[c], Entry(c, e, edit[c][e].id, Open))
                 /\ price'[c] = Sent(c, e)
<1>1. edit[c][e].op = "add"
  BY DEF CommitAdd
<1>2. CASE price[c] = NoPrice
  BY <1>1, <1>2, WritesIn DEF CommitAdd
<1>3. CASE price[c] # NoPrice
  BY <1>1, <1>3, FailsIn DEF CommitAdd
<1> QED
  BY <1>2, <1>3, <1>1

LEMMA UpdateLeaves ==
    ASSUME Shaped, NEW c \in Currencies, PriceTypes(c), NEW e \in Editors, CommitUpdate(c, e)
    PROVE  /\ edit[c][e].op = "updating"
           /\ \/ Failed(c, e)
              \/ /\ price[c] # NoPrice /\ price[c].id = edit[c][e].id
                 /\ Wrote(c, e, Closed(c, e), Entry(c, e, edit[c][e].id, Open))
                 /\ price'[c] = Sent(c, e)
<1>1. edit[c][e].op = "updating" /\ edit[c][e].id > 0
  BY NobodyIdle DEF CommitUpdate, PriceTypes
<1>2. CASE price[c].id = edit[c][e].id
  <2>1. price[c] # NoPrice
    BY <1>1, <1>2 DEF NoPrice
  <2> QED
    BY <1>1, <1>2, <2>1, WritesIn DEF CommitUpdate
<1>3. CASE price[c].id # edit[c][e].id
  BY <1>1, <1>3, FailsIn DEF CommitUpdate
<1> QED
  BY <1>1, <1>2, <1>3

LEMMA RemoveLeaves ==
    ASSUME Shaped, NEW c \in Currencies, PriceTypes(c), NEW e \in Editors, CommitRemove(c, e)
    PROVE  /\ edit[c][e].op = "removing"
           /\ \/ Failed(c, e)
              \/ /\ price[c] # NoPrice /\ price[c].id = edit[c][e].id /\ price'[c] = NoPrice
                 /\ Wrote(c, e, Closed(c, e), Entry(c, e, 0, edit[c][e].at))
<1>1. edit[c][e].op = "removing" /\ edit[c][e].id > 0
  BY NobodyIdle DEF CommitRemove, PriceTypes
<1>2. CASE price[c].id = edit[c][e].id
  <2>1. price[c] # NoPrice
    BY <1>1, <1>2 DEF NoPrice
  <2> QED
    BY <1>1, <1>2, <2>1, WritesIn DEF CommitRemove
<1>3. CASE price[c].id # edit[c][e].id
  BY <1>1, <1>3, FailsIn DEF CommitRemove
<1> QED
  BY <1>1, <1>2, <1>3

LEMMA CommitsCohere ==
    ASSUME Shaped, NEW c \in Currencies, Coherent(c), NEW e \in Editors, CommitAdd(c, e) \/ CommitUpdate(c, e) \/ CommitRemove(c, e)
    PROVE  Coherent(c)'
<1>1. PriceTypes(c) /\ overlaid[c] \in BOOLEAN /\ record[c] \in Seq(Interval)
  BY TypesByName DEF Coherent, PriceTypes
<1>2. edit[c][e].op \in {"add", "updating", "removing"} => edit[c][e] # Nobody
  BY NobodyIdle
<1>3. ASSUME edit[c][e].op \in {"add", "updating"},
             NEW r \in Seq(Interval), Len(r) = Len(record[c]),
             Wrote(c, e, r, Entry(c, e, edit[c][e].id, Open)),
             price'[c] = Sent(c, e)
      PROVE  Coherent(c)'
  <2>1. /\ edit[c][e].id \in Nat /\ edit[c][e].id > 0
        /\ edit[c][e].base \in Amounts /\ edit[c][e].promo \in Amounts \cup {0}
        /\ Valid(edit[c][e].base, edit[c][e].promo)
    BY <1>1, <1>2, <1>3, EditFields DEF Coherent, Sensible
  <2> DEFINE x == Entry(c, e, edit[c][e].id, Open)
  <2>2. x \in Interval
    BY <1>1, <1>2, <1>3, <2>1, EntryTypes
  <2>3. x.id = edit[c][e].id /\ x.base = edit[c][e].base /\ x.promo = edit[c][e].promo
    BY DEF Entry
  <2>4. price'[c] \in Row /\ price'[c].id = edit[c][e].id /\ price'[c].base = edit[c][e].base
        /\ price'[c].promo = edit[c][e].promo
    BY <1>3, <2>1 DEF Row, Sent
  <2>5. overlaid'[c] \in BOOLEAN
    BY <1>1, <1>3 DEF Wrote
  <2> HIDE DEF x
  <2>6. EditAt(c, e, Nobody) /\ record'[c] = Append(r, x) /\ UNCHANGED <<now, edits[c]>>
    BY <1>3 DEF Wrote, x
  <2> QED
    BY <1>3, <2>1, <2>2, <2>3, <2>4, <2>5, <2>6, WritesCohere
<1>4. CASE CommitAdd(c, e)
  BY <1>1, <1>3, <1>4, AddLeaves, FailuresCohere
<1>5. CASE CommitUpdate(c, e)
  <2>1. edit[c][e].op = "updating"
    BY <1>1, <1>5, UpdateLeaves
  <2>2. Closed(c, e) \in Seq(Interval) /\ Len(Closed(c, e)) = Len(record[c])
    BY <1>1, <2>1, ClosedHistory
  <2> QED
    BY <1>1, <1>3, <1>5, <2>1, <2>2, UpdateLeaves, FailuresCohere
<1>6. CASE CommitRemove(c, e)
  <2>1. edit[c][e].op = "removing"
    BY <1>1, <1>6, RemoveLeaves
  <2>2. Closed(c, e) \in Seq(Interval) /\ Len(Closed(c, e)) = Len(record[c])
    BY <1>1, <2>1, ClosedHistory
  <2>3. Entry(c, e, 0, edit[c][e].at) \in Interval
    BY <1>1, <1>2, <2>1, EntryTypes, EditFields
  <2>4. CASE Wrote(c, e, Closed(c, e), Entry(c, e, 0, edit[c][e].at)) /\ price'[c] = NoPrice
    <3>1. overlaid'[c] \in BOOLEAN
      BY <1>1, <2>4 DEF Wrote
    <3>2. EditAt(c, e, Nobody) /\ record'[c] = Append(Closed(c, e), Entry(c, e, 0, edit[c][e].at))
          /\ UNCHANGED <<now, edits[c]>>
      BY <2>4 DEF Wrote
    <3> QED
      BY <2>2, <2>3, <2>4, <3>1, <3>2, WritesCohere
  <2> QED
    BY <1>1, <1>6, <2>4, RemoveLeaves, FailuresCohere
<1> QED
  BY <1>4, <1>5, <1>6

LEMMA CoherentStep ==
    ASSUME Shaped, NEW c \in Currencies, Coherent(c), EditsOf(c) \/ Tick
    PROVE  Coherent(c)'
<1>1. CASE Tick
  <2>1. now' \in Times /\ UNCHANGED priceVars
    BY <1>1, TypesByName, PriceNumbers DEF Tick, Coherent, PriceTypes, Times
  <2> QED
    BY <2>1 DEF priceVars, Coherent, PriceTypes, TypesIn, SoundRow, Sensible
<1>2. ASSUME NEW e \in Editors,
             \/ \E base \in Amounts, promo \in Amounts \cup {0} : StartAdd(c, e, base, promo)
             \/ \E base, promo \in Amounts \cup {0}, keepPromo \in BOOLEAN :
                   StartUpdate(c, e, base, promo, keepPromo)
             \/ StartRemove(c, e)
      PROVE  Coherent(c)'
  BY <1>2, StartsCohere
<1> QED
  BY <1>1, <1>2, ClosingCoheres, CommitsCohere DEF EditsOf

LEMMA FirstState ==
    ASSUME PricesInit, NEW c \in Currencies
    PROVE  /\ now = 0 /\ edit[c] = [e \in Editors |-> Nobody] /\ edits[c] = 0 /\ overlaid[c] = FALSE
           /\ \/ price[c] = NoPrice /\ record[c] = <<>>
              \/ \E base \in Amounts :
                    /\ price[c] = [id |-> 1, base |-> base, promo |-> 0]
                    /\ record[c] = <<[id |-> 1, base |-> base, promo |-> 0, from |-> 0, to |-> Open]>>
<1>1. PICK base \in [Currencies -> Amounts \cup {0}] :
         /\ price = [d \in Currencies |-> IF base[d] = 0 THEN NoPrice ELSE FirstPrice(base[d])]
         /\ record = [d \in Currencies |-> IF base[d] = 0 THEN <<>> ELSE <<FirstEntry(base[d])>>]
  BY DEF PricesInit
<1>2. /\ price[c] = IF base[c] = 0 THEN NoPrice ELSE FirstPrice(base[c])
      /\ record[c] = IF base[c] = 0 THEN <<>> ELSE <<FirstEntry(base[c])>>
  BY <1>1
<1>3. base[c] = 0 \/ base[c] \in Amounts
  BY <1>1
<1> QED
  BY <1>2, <1>3 DEF PricesInit, FirstPrice, FirstEntry

LEMMA ShapedStart == PricesInit => Shaped
BY DEF PricesInit, Shaped

LEMMA CoherentStart ==
    ASSUME PricesInit, NEW c \in Currencies
    PROVE  Coherent(c)
<1>1. /\ now \in Times /\ edit[c] = [e \in Editors |-> Nobody] /\ edits[c] \in Nat /\ overlaid[c] \in BOOLEAN
  <2>1. now = 0 /\ edit[c] = [e \in Editors |-> Nobody] /\ edits[c] = 0 /\ overlaid[c] = FALSE
    BY FirstState
  <2>2. 0 \in Times /\ 0 \in Nat
    BY PriceNumbers DEF Times
  <2>3. now \in Times /\ edits[c] \in Nat
    BY <2>1, <2>2
  <2>4. edit[c] = [e \in Editors |-> Nobody] /\ overlaid[c] \in BOOLEAN
    BY <2>1
  <2> QED
    BY <2>3, <2>4
<1>2. price[c] \in Row \cup {NoPrice} /\ (price[c] # NoPrice => price[c].id > 0)
  <2>1. CASE price[c] = NoPrice
    BY <2>1
  <2>2. CASE \E base \in Amounts : price[c] = [id |-> 1, base |-> base, promo |-> 0]
    BY <2>2 DEF Row
  <2> QED
    BY <2>1, <2>2, FirstState
<1>3. record[c] \in Seq(Interval)
  <2>1. ASSUME NEW base \in Amounts
        PROVE  <<[id |-> 1, base |-> base, promo |-> 0, from |-> 0, to |-> Open]>> \in Seq(Interval)
    <3>1. [id |-> 1, base |-> base, promo |-> 0, from |-> 0, to |-> Open] \in Interval
      BY PriceNumbers DEF Interval, Times
    <3> QED
      BY <3>1
  <2>2. record[c] = <<>> \/ \E base \in Amounts :
           record[c] = <<[id |-> 1, base |-> base, promo |-> 0, from |-> 0, to |-> Open]>>
    BY FirstState
  <2>3. <<>> \in Seq(Interval)
    BY EmptySeq
  <2> QED
    BY <2>1, <2>2, <2>3
<1>4. PriceTypes(c) /\ Sensible(c)
  <2>1. \A e \in Editors : edit[c][e] = Nobody
    BY <1>1
  <2>2. TypesIn(c)
    BY <1>1, <1>2, <1>3, TypesByName
  <2> QED
    BY <1>2, <2>1, <2>2, NobodyIdle DEF PriceTypes, Sensible
<1>5. SoundRow(c)
  <2>1. CASE price[c] # NoPrice
    <3>1. PICK base \in Amounts :
             /\ price[c] = [id |-> 1, base |-> base, promo |-> 0]
             /\ record[c] = <<[id |-> 1, base |-> base, promo |-> 0, from |-> 0, to |-> Open]>>
      BY <2>1, FirstState
    <3>2. DOMAIN record[c] = {1}
      BY <3>1
    <3>3. record[c][1] = [id |-> 1, base |-> base, promo |-> 0, from |-> 0, to |-> Open]
      BY <3>1
    <3> QED
      BY <3>1, <3>2, <3>3 DEF SoundRow, Valid
  <2> QED
    BY <2>1 DEF SoundRow
<1> QED
  BY <1>4, <1>5 DEF Coherent

-----------------------------------------------------------------------------
(* The history while administrators take turns.                            *)

\* What was in force is over, but for what is; entries follow one another.
Past(c)    == \A i \in DOMAIN record[c] :
              record[c][i].from <= now /\ (record[c][i].to = Open \/ record[c][i].to <= now)
Ordered(c) == \A i, j \in DOMAIN record[c] : i < j => record[c][i].to <= record[c][j].from

\* The last entry is the price there is, and without a price nothing is in force.
Newest(c)  == IF price[c] = NoPrice THEN \A i \in DOMAIN record[c] : record[c][i].to # Open
           ELSE /\ Len(record[c]) \in DOMAIN record[c]
                /\ LET last == record[c][Len(record[c])]
                   IN /\ last.id = price[c].id /\ last.base = price[c].base /\ last.promo = price[c].promo
                      /\ last.to = Open

NoGap(c)   == price[c] # NoPrice =>
              \A i \in DOMAIN record[c], t \in Times :
                 record[c][i].id = price[c].id /\ record[c][i].from <= t => InForce(c, t) # {}

\* Rows are numbered by the requests.
Numbered(c) == \A i \in DOMAIN record[c] : record[c][i].id <= edits[c] + 1

\* Nothing has changed since the request q was read.
Fresh(c, q) ==
    q # Nobody =>
        /\ q.at <= now /\ q.id <= edits[c] + 1
        /\ \A i \in DOMAIN record[c] :
              /\ record[c][i].from <= q.at
              /\ record[c][i].to = Open \/ record[c][i].to <= q.at
        /\ q.op = "add" => \A i \in DOMAIN record[c] : record[c][i].id # q.id
        /\ q.op # "add" => price[c] # NoPrice /\ q.id = price[c].id
        /\ q.op \in {"updating", "removing"} => Len(record[c]) \in q.closes

InTurns(c) ==
    ~overlaid[c] => /\ Past(c) /\ Ordered(c) /\ Newest(c) /\ NoGap(c) /\ Numbered(c)
                 /\ \A e \in Editors : Fresh(c, edit[c][e])

LEMMA EntryFields ==
    ASSUME NEW c \in Currencies, PriceTypes(c), NEW i \in DOMAIN record[c]
    PROVE  /\ record[c][i].from \in Times /\ record[c][i].to \in Times \cup {Open}
           /\ record[c][i].from \in Nat /\ record[c][i].to \in Nat /\ record[c][i].id \in Nat
           /\ i \in 1 .. Len(record[c]) /\ Len(record[c]) \in Nat
           /\ DOMAIN record[c] = 1 .. Len(record[c])
<1>1. record[c] \in Seq(Interval)
  BY TypesByName DEF PriceTypes
<1>2. DOMAIN record[c] = 1 .. Len(record[c]) /\ Len(record[c]) \in Nat
  BY <1>1, LenProperties
<1>3. record[c][i] \in Interval
  BY <1>1, <1>2, ElementOfSeq
<1> QED
  BY <1>2, <1>3, PriceNumbers DEF Interval

\* Such a history answers.
LEMMA TurnsAnswer ==
    ASSUME NEW c \in Currencies, Coherent(c), InTurns(c), ~overlaid[c]
    PROVE  /\ \A t \in Times : Cardinality(InForce(c, t)) <= 1
           /\ \A t \in Times : (\E i \in DOMAIN record[c] : /\ record[c][i].from <= t
                                                            /\ record[c][i].id = price[c].id)
                    => price[c] = NoPrice \/ InForce(c, t) # {}
           /\ {<<record[c][i].base, record[c][i].promo>> : i \in InForce(c, now)} =
                 IF price[c] = NoPrice THEN {} ELSE {<<price[c].base, price[c].promo>>}
<1>1. Past(c) /\ Ordered(c) /\ Newest(c) /\ NoGap(c) /\ PriceTypes(c)
  BY DEF InTurns, Coherent
<1>2. now \in Times
  BY <1>1, TypesByName DEF PriceTypes
<1>3. ASSUME NEW t \in Times, NEW i \in InForce(c, t), NEW j \in InForce(c, t)
      PROVE  i = j
  <2>1. /\ i \in DOMAIN record[c] /\ j \in DOMAIN record[c]
        /\ record[c][i].from <= t /\ t < record[c][i].to /\ record[c][j].from <= t /\ t < record[c][j].to
    BY DEF InForce
  <2>2. /\ i \in Nat /\ j \in Nat /\ t \in Nat
        /\ record[c][i].from \in Nat /\ record[c][i].to \in Nat
        /\ record[c][j].from \in Nat /\ record[c][j].to \in Nat
    BY <1>1, <2>1, EntryFields, PriceNumbers
  <2>3. ~(i < j) /\ ~(j < i)
    BY <1>1, <2>1, <2>2 DEF Ordered
  <2> QED
    BY <2>2, <2>3
<1>4. ASSUME NEW t \in Times PROVE Cardinality(InForce(c, t)) <= 1
  <2>1. CASE InForce(c, t) = {}
    BY <2>1, FS_EmptySet
  <2>2. CASE InForce(c, t) # {}
    <3>1. PICK i : i \in InForce(c, t)
      BY <2>2
    <3>2. \A j \in InForce(c, t) : j = i
      BY <1>3, <3>1
    <3>3. InForce(c, t) = {i}
      BY <3>1, <3>2
    <3>4. Cardinality({i}) = 1
      BY FS_Singleton
    <3> QED
      BY <3>3, <3>4
  <2> QED
    BY <2>1, <2>2
<1>5. CASE price[c] = NoPrice
  <2>1. InForce(c, now) = {}
    <3> SUFFICES ASSUME NEW i \in InForce(c, now) PROVE FALSE
      OBVIOUS
    <3>1. i \in DOMAIN record[c] /\ now < record[c][i].to
      BY DEF InForce
    <3>2. record[c][i].to <= now
      BY <1>1, <1>5, <3>1 DEF Past, Newest
    <3> QED
      BY <1>1, <1>2, <3>1, <3>2, EntryFields, PriceNumbers
  <2> QED
    BY <1>4, <1>5, <2>1
<1>6. CASE price[c] # NoPrice
  <2>1. PICK n : n = Len(record[c])
    OBVIOUS
  <2>2. /\ n \in DOMAIN record[c] /\ record[c][n].base = price[c].base /\ record[c][n].promo = price[c].promo
        /\ record[c][n].to = Open
    BY <1>1, <1>6, <2>1 DEF Newest
  <2>3. n \in InForce(c, now)
    BY <1>1, <1>2, <2>2, PriceNumbers DEF Past, InForce
  <2>4. InForce(c, now) = {n}
    BY <1>2, <1>3, <2>3
  <2>5. {<<record[c][i].base, record[c][i].promo>> : i \in InForce(c, now)} = {<<price[c].base, price[c].promo>>}
    BY <2>2, <2>4
  <2>6. \A t \in Times : (\E i \in DOMAIN record[c] : /\ record[c][i].from <= t
                                                      /\ record[c][i].id = price[c].id)
            => InForce(c, t) # {}
    BY <1>1, <1>6 DEF NoGap
  <2> QED
    BY <1>4, <1>6, <2>5, <2>6
<1> QED
  BY <1>5, <1>6

\* What a transaction at the time at makes of the history: open intervals may be closed.
Continues(c, r, at) ==
    /\ r \in Seq(Interval) /\ Len(r) = Len(record[c])
    /\ \A i \in 1 .. Len(record[c]) :
          /\ r[i].id = record[c][i].id /\ r[i].from = record[c][i].from
          /\ r[i].to = IF record[c][i].to = Open THEN at ELSE record[c][i].to

LEMMA HistoryGoesOn ==
    ASSUME NEW c \in Currencies, Coherent(c), Past(c), Ordered(c), NEW at \in Times, at <= now,
           \A i \in DOMAIN record[c] : /\ record[c][i].from <= at
                                       /\ record[c][i].to = Open \/ record[c][i].to <= at,
           NEW r, Continues(c, r, at), NEW x \in Interval, x.from = at, x.to \in {at, Open},
           record'[c] = Append(r, x), UNCHANGED now
    PROVE  /\ Past(c)' /\ Ordered(c)'
           /\ Len(record'[c]) = Len(record[c]) + 1 /\ record'[c][Len(record[c]) + 1] = x
           /\ DOMAIN record'[c] = 1 .. Len(record[c]) + 1 /\ Len(record[c]) \in Nat
           /\ \A i \in DOMAIN record[c] :
                 /\ i \in DOMAIN record'[c] /\ record'[c][i].id = record[c][i].id
                 /\ record'[c][i].from = record[c][i].from
                 /\ record'[c][i].to <= at /\ record'[c][i].to # Open
           /\ \A i \in DOMAIN record'[c] : i = Len(record[c]) + 1 \/ i \in DOMAIN record[c]
           /\ \A t \in Times : t < at /\ InForce(c, t) # {} => InForce(c, t)' # {}
           /\ x.to = Open => \A t \in Times : at <= t => InForce(c, t)' # {}
<1>1. /\ record'[c] \in Seq(Interval)
      /\ Len(r) \in Nat /\ Len(record'[c]) = Len(r) + 1
      /\ DOMAIN record'[c] = 1 .. Len(r) + 1
      /\ \A i \in 1 .. Len(r) : record'[c][i] = r[i]
      /\ record'[c][Len(r) + 1] = x
  BY LongerHistory DEF Continues
<1>2. PICK n \in Nat : n = Len(record[c]) /\ n = Len(r) /\ DOMAIN record[c] = 1 .. n
  BY <1>1, TypesByName, LenProperties DEF Continues, Coherent, PriceTypes
<1>3. at \in Nat /\ now \in Nat /\ at < Open /\ now < Open /\ Open \in Nat
  BY TypesByName, PriceNumbers DEF Coherent, PriceTypes
<1>4. ASSUME NEW i \in 1 .. n
      PROVE  /\ record'[c][i].id = record[c][i].id /\ record'[c][i].from = record[c][i].from
             /\ record'[c][i].from \in Nat /\ record'[c][i].to \in Nat
             /\ record'[c][i].from <= at /\ record'[c][i].to <= at /\ record'[c][i].to # Open
             /\ record[c][i].to # Open => record'[c][i].to = record[c][i].to
             /\ record[c][i].to = Open => record'[c][i].to = at
  <2>1. record'[c][i] = r[i] /\ i \in DOMAIN record[c]
    BY <1>1, <1>2
  <2>2. record[c][i].from \in Nat /\ record[c][i].to \in Nat
    BY <2>1, EntryFields DEF Coherent
  <2>3. /\ r[i].id = record[c][i].id /\ r[i].from = record[c][i].from
        /\ r[i].to = IF record[c][i].to = Open THEN at ELSE record[c][i].to
    BY <1>2 DEF Continues
  <2> QED
    BY <1>3, <2>1, <2>2, <2>3
<1>5. x.from \in Nat /\ x.to \in Nat /\ at <= x.to
  BY <1>3
<1>6. ASSUME NEW i \in DOMAIN record'[c]
      PROVE  i \in Nat /\ (i \in 1 .. n \/ (i = n + 1 /\ record'[c][i] = x))
  BY <1>1, <1>2
<1>7. Past(c)'
  <2> SUFFICES ASSUME NEW i \in DOMAIN record'[c]
               PROVE  record'[c][i].from <= now /\ (record'[c][i].to = Open \/ record'[c][i].to <= now)
    BY DEF Past, Open
  <2>1. CASE i \in 1 .. n
    BY <1>3, <1>4, <2>1
  <2>2. CASE record'[c][i] = x
    BY <1>3, <2>2
  <2> QED
    BY <1>6, <2>1, <2>2
<1>8. Ordered(c)'
  <2> SUFFICES ASSUME NEW i \in DOMAIN record'[c], NEW j \in DOMAIN record'[c], i < j
               PROVE  record'[c][i].to <= record'[c][j].from
    BY DEF Ordered
  <2>1. i \in 1 .. n
    BY <1>2, <1>6
  <2>2. CASE j \in 1 .. n
    <3>1. i \in DOMAIN record[c] /\ j \in DOMAIN record[c]
      BY <1>2, <2>1, <2>2
    <3>2. record[c][i].to <= record[c][j].from /\ record[c][j].from <= at
      BY <3>1 DEF Ordered
    <3>3. record[c][i].to \in Nat /\ record[c][j].from \in Nat
      BY <3>1, EntryFields DEF Coherent
    <3>4. record[c][i].to # Open
      BY <1>3, <3>2, <3>3
    <3> QED
      BY <1>4, <2>1, <2>2, <3>2, <3>4
  <2>3. CASE record'[c][j] = x
    BY <1>4, <2>1, <2>3
  <2> QED
    BY <1>6, <2>2, <2>3
<1>9. ASSUME NEW t \in Times, t < at, InForce(c, t) # {} PROVE InForce(c, t)' # {}
  <2>1. PICK i : i \in DOMAIN record[c] /\ record[c][i].from <= t /\ t < record[c][i].to
    BY <1>9 DEF InForce
  <2>2. i \in 1 .. n /\ i \in DOMAIN record'[c]
    BY <1>1, <1>2, <2>1
  <2>3. record'[c][i].from <= t /\ t < record'[c][i].to
    BY <1>4, <1>9, <2>1, <2>2
  <2>4. i \in InForce(c, t)'
    BY <2>2, <2>3 DEF InForce
  <2> QED
    BY <2>4
<1>10. ASSUME x.to = Open, NEW t \in Times, at <= t PROVE InForce(c, t)' # {}
  <2>1. n + 1 \in DOMAIN record'[c] /\ record'[c][n + 1] = x
    BY <1>1, <1>2
  <2>2. t < x.to
    BY <1>10, PriceNumbers
  <2>3. n + 1 \in InForce(c, t)'
    BY <1>10, <2>1, <2>2 DEF InForce
  <2> QED
    BY <2>3
<1> QED
  BY <1>1, <1>2, <1>4, <1>6, <1>7, <1>8, <1>9, <1>10

LEMMA FreshNumbers ==
    ASSUME NEW c \in Currencies, PriceTypes(c), NEW q \in {Nobody} \cup Asked \cup Begun
    PROVE  q # Nobody => q.id \in Nat /\ q.at \in Nat /\ q.at \in Times
BY PriceNumbers DEF Asked, Begun

\* A request that is read, closes an interval or ends without writing.
LEMMA RequestsTakeTurns ==
    ASSUME NEW c \in Currencies, Coherent(c), InTurns(c), NEW e \in Editors, NEW q, EditAt(c, e, q),
           edits[c] \in Nat, edits'[c] \in Nat, edits'[c] >= edits[c],
           UNCHANGED <<now, price[c], record[c], overlaid[c]>>,
           ~overlaid[c] => Fresh(c, q)'
    PROVE  InTurns(c)'
<1> SUFFICES ASSUME ~overlaid[c]
             PROVE  /\ Past(c)' /\ Ordered(c)' /\ Newest(c)' /\ NoGap(c)' /\ Numbered(c)'
                    /\ \A f \in Editors : Fresh(c, edit[c][f])'
  BY DEF InTurns
<1>1. /\ Past(c) /\ Ordered(c) /\ Newest(c) /\ NoGap(c) /\ Numbered(c)
      /\ \A f \in Editors : Fresh(c, edit[c][f])
  BY DEF InTurns
<1>2. Past(c)' /\ Ordered(c)' /\ Newest(c)' /\ NoGap(c)'
  BY <1>1 DEF Past, Ordered, Newest, NoGap, InForce
<1>3. Numbered(c)'
  BY <1>1, EntryFields DEF Numbered, Coherent
<1>4. /\ edit'[c][e] = q
      /\ \A f \in Editors \ {e} : edit'[c][f] = edit[c][f]
  BY EditSteps DEF Coherent
<1>5. ASSUME NEW f \in Editors \ {e} PROVE Fresh(c, edit[c][f])'
  <2>1. edit'[c][f] = edit[c][f] /\ Fresh(c, edit[c][f])
    BY <1>1, <1>4
  <2>2. edit[c][f] \in {Nobody} \cup Asked \cup Begun
    BY TypesByName DEF Coherent, PriceTypes
  <2>3. edit[c][f] # Nobody => edit[c][f].id \in Nat
    BY <2>2, FreshNumbers DEF Coherent
  <2> QED
    BY <2>1, <2>3 DEF Fresh
<1>6. Fresh(c, edit[c][e])'
  BY <1>4 DEF Fresh
<1> QED
  BY <1>2, <1>3, <1>5, <1>6

LEMMA StartsTakeTurns ==
    ASSUME Shaped, NEW c \in Currencies, Coherent(c), InTurns(c), NEW e \in Editors,
           \/ \E base \in Amounts, promo \in Amounts \cup {0} : StartAdd(c, e, base, promo)
           \/ \E base, promo \in Amounts \cup {0}, keepPromo \in BOOLEAN :
                 StartUpdate(c, e, base, promo, keepPromo)
           \/ StartRemove(c, e)
    PROVE  InTurns(c)'
<1>1. PICK q \in Asked :
         /\ EditAt(c, e, q) /\ q.at = now
         /\ q.op = "add" => q.id = edits[c] + 2 /\ edits'[c] = edits[c] + 1
         /\ q.op # "add" => price[c] # NoPrice /\ q.id = price[c].id
         /\ edits'[c] \in Nat /\ edits'[c] >= edits[c]
  BY StartsCohere
<1>2. UNCHANGED <<now, price[c], record[c], overlaid[c]>>
  BY StartsCohere
<1>3. now \in Nat /\ edits[c] \in Nat
  BY TypesByName, PriceNumbers DEF Coherent, PriceTypes
<1>4. ASSUME ~overlaid[c] PROVE Fresh(c, q)'
  <2>1. Past(c) /\ Newest(c) /\ Numbered(c)
    BY <1>4 DEF InTurns
  <2>2. q.id <= edits'[c] + 1
    <3>1. CASE q.op = "add"
      BY <1>1, <1>3, <3>1
    <3>2. CASE q.op # "add"
      <4>1. Len(record[c]) \in DOMAIN record[c] /\ record[c][Len(record[c])].id = price[c].id
        BY <1>1, <2>1, <3>2 DEF Newest
      <4>2. price[c].id <= edits[c] + 1 /\ price[c].id \in Nat
        BY <2>1, <4>1, EntryFields DEF Numbered, Coherent
      <4> QED
        BY <1>1, <1>3, <3>2, <4>2
    <3> QED
      BY <3>1, <3>2
  <2>3. \A i \in DOMAIN record'[c] : record'[c][i].from <= q.at
                                  /\ (record'[c][i].to = Open \/ record'[c][i].to <= q.at)
    BY <1>1, <1>2, <2>1 DEF Past
  <2>4. q.op = "add" => \A i \in DOMAIN record'[c] : record'[c][i].id # q.id
    <3> SUFFICES ASSUME q.op = "add", NEW i \in DOMAIN record[c] PROVE record[c][i].id # q.id
      BY <1>2
    <3>1. record[c][i].id <= edits[c] + 1 /\ record[c][i].id \in Nat
      BY <2>1, EntryFields DEF Numbered, Coherent
    <3> QED
      BY <1>1, <1>3, <3>1
  <2>5. q.op \notin {"updating", "removing"}
    BY DEF Asked
  <2> QED
    BY <1>1, <1>2, <1>3, <2>2, <2>3, <2>4, <2>5 DEF Fresh, Open
<1> QED
  BY <1>1, <1>2, <1>3, <1>4, RequestsTakeTurns

LEMMA ClosingTakesTurns ==
    ASSUME Shaped, NEW c \in Currencies, Coherent(c), InTurns(c), NEW e \in Editors, CloseInterval(c, e)
    PROVE  InTurns(c)'
<1>1. PICK q \in Begun :
          /\ EditAt(c, e, q)
          /\ q.op = (IF edit[c][e].op = "update" THEN "updating" ELSE "removing")
          /\ q.id = edit[c][e].id /\ q.at = edit[c][e].at /\ q.closes = OpenRows(c, edit[c][e].id)
  BY BegunNow DEF Coherent
<1>2. edit[c][e].op \in {"update", "remove"} /\ UNCHANGED <<now, price[c], record[c], edits[c], overlaid[c]>>
  BY DEF CloseInterval
<1>3. edits[c] \in Nat
  BY TypesByName DEF Coherent, PriceTypes
<1>4. ASSUME ~overlaid[c] PROVE Fresh(c, q)'
  <2>1. Newest(c) /\ Fresh(c, edit[c][e]) /\ edit[c][e] # Nobody
    BY <1>2, <1>4, NobodyIdle DEF InTurns
  <2>2. price[c] # NoPrice /\ edit[c][e].id = price[c].id
    BY <1>2, <2>1 DEF Fresh
  <2>3. Len(record[c]) \in OpenRows(c, edit[c][e].id)
    BY <2>1, <2>2 DEF Newest, OpenRows
  <2> QED
    BY <1>1, <1>2, <2>1, <2>2, <2>3 DEF Fresh, Open
<1> QED
  BY <1>1, <1>2, <1>3, <1>4, RequestsTakeTurns

LEMMA FailuresTakeTurns ==
    ASSUME NEW c \in Currencies, Coherent(c), InTurns(c), NEW e \in Editors, Failed(c, e)
    PROVE  InTurns(c)'
<1>1. edits[c] \in Nat
  BY TypesByName DEF Coherent, PriceTypes
<1> QED
  BY <1>1, RequestsTakeTurns DEF Failed, Fresh

\* A request that writes price and history while nobody else is at it.
LEMMA WritesTakeTurns ==
    ASSUME NEW c \in Currencies, Coherent(c), InTurns(c), ~overlaid'[c], NEW e \in Editors, edit[c][e] # Nobody,
           NEW r, Continues(c, r, edit[c][e].at), NEW x \in Interval, Wrote(c, e, r, x),
           x.from = edit[c][e].at,
           \/ price'[c] = NoPrice /\ x.to = edit[c][e].at /\ x.id = 0
           \/ /\ price'[c] # NoPrice /\ x.to = Open
              /\ price'[c].id = edit[c][e].id /\ x.id = edit[c][e].id
              /\ x.base = price'[c].base /\ x.promo = price'[c].promo
    PROVE  InTurns(c)'
<1>1. /\ ~overlaid[c] /\ OtherEdits(c, e) = {} /\ EditAt(c, e, Nobody)
      /\ record'[c] = Append(r, x) /\ UNCHANGED <<now, edits[c]>>
  BY DEF Wrote
<1>2. /\ Past(c) /\ Ordered(c) /\ Newest(c) /\ NoGap(c) /\ Numbered(c) /\ Fresh(c, edit[c][e])
  BY <1>1 DEF InTurns
<1>3. edit[c][e] \in {Nobody} \cup Asked \cup Begun
  BY TypesByName DEF Coherent, PriceTypes
<1>4. PICK at : at = edit[c][e].at
  OBVIOUS
<1>5. PICK id : id = edit[c][e].id
  OBVIOUS
<1>6. /\ at \in Times /\ at <= now /\ id \in Nat /\ id <= edits[c] + 1 /\ edits[c] \in Nat
      /\ \A i \in DOMAIN record[c] : /\ record[c][i].from <= at
                                     /\ record[c][i].to = Open \/ record[c][i].to <= at
  BY <1>2, <1>3, <1>4, <1>5, FreshNumbers, TypesByName DEF Fresh, Coherent, PriceTypes
<1>7. /\ Past(c)' /\ Ordered(c)'
      /\ Len(record'[c]) = Len(record[c]) + 1 /\ record'[c][Len(record[c]) + 1] = x
      /\ DOMAIN record'[c] = 1 .. Len(record[c]) + 1 /\ Len(record[c]) \in Nat
      /\ \A i \in DOMAIN record[c] :
            /\ i \in DOMAIN record'[c] /\ record'[c][i].id = record[c][i].id
            /\ record'[c][i].from = record[c][i].from
            /\ record'[c][i].to <= at /\ record'[c][i].to # Open
      /\ \A i \in DOMAIN record'[c] : i = Len(record[c]) + 1 \/ i \in DOMAIN record[c]
      /\ \A t \in Times : t < at /\ InForce(c, t) # {} => InForce(c, t)' # {}
      /\ x.to = Open => \A t \in Times : at <= t => InForce(c, t)' # {}
  BY <1>1, <1>2, <1>4, <1>6, HistoryGoesOn
<1>8. at \in Nat /\ at # Open
  BY <1>6, PriceNumbers
<1>9. Newest(c)'
  <2>1. CASE price'[c] = NoPrice
    <3>1. \A i \in DOMAIN record'[c] : record'[c][i].to # Open
      BY <1>4, <1>7, <1>8, <2>1
    <3> QED
      BY <2>1, <3>1 DEF Newest, Open
  <2>2. CASE price'[c] # NoPrice
    <3>1. PICK n : n = Len(record'[c])
      OBVIOUS
    <3>2. n \in DOMAIN record'[c] /\ record'[c][n] = x
      BY <1>7, <3>1
    <3> QED
      BY <2>2, <3>1, <3>2 DEF Newest, Open
  <2> QED
    BY <2>1, <2>2
<1>10. NoGap(c)'
  <2> SUFFICES ASSUME price'[c] # NoPrice, NEW i \in DOMAIN record'[c], NEW t \in Times,
                      record'[c][i].id = price'[c].id, record'[c][i].from <= t
               PROVE  InForce(c, t)' # {}
    BY DEF NoGap, Times
  <2>1. x.to = Open /\ price'[c].id = id /\ t \in Nat
    BY <1>5, PriceNumbers
  <2>2. CASE at <= t
    BY <1>7, <2>1, <2>2
  <2>3. CASE t < at
    <3>1. i \in DOMAIN record[c]
      BY <1>4, <1>7, <1>8, <2>1, <2>3
    <3>2. record[c][i].id = id /\ record[c][i].from <= t
      BY <1>7, <2>1, <3>1
    <3>3. price[c] # NoPrice /\ price[c].id = id
      BY <1>2, <1>5, <3>1, <3>2 DEF Fresh
    <3>4. InForce(c, t) # {}
      BY <1>2, <3>1, <3>2, <3>3 DEF NoGap
    <3> QED
      BY <1>7, <2>3, <3>4
  <2> QED
    BY <1>8, <2>1, <2>2, <2>3
<1>11. Numbered(c)'
  <2> SUFFICES ASSUME NEW i \in DOMAIN record'[c] PROVE record'[c][i].id <= edits[c] + 1
    BY <1>1 DEF Numbered
  <2>1. CASE i \in DOMAIN record[c]
    BY <1>2, <1>7, <2>1 DEF Numbered
  <2>2. CASE i = Len(record[c]) + 1
    BY <1>5, <1>6, <1>7, <2>2
  <2> QED
    BY <1>7, <2>1, <2>2
<1>12. ASSUME NEW f \in Editors PROVE Fresh(c, edit[c][f])'
  <2>1. edit'[c][f] = Nobody
    BY <1>1, EditSteps DEF OtherEdits, Coherent
  <2> QED
    BY <2>1 DEF Fresh
<1> QED
  BY <1>9, <1>10, <1>11, <1>12, <1>7 DEF InTurns

\* What was found open is closed: the last entry, which is the only one open.
LEMMA ClosingContinues ==
    ASSUME NEW c \in Currencies, Coherent(c), InTurns(c), ~overlaid[c], NEW e \in Editors,
           edit[c][e].op \in {"updating", "removing"}
    PROVE  Continues(c, Closed(c, e), edit[c][e].at)
<1>1. PriceTypes(c) /\ Ordered(c) /\ Past(c) /\ Newest(c) /\ Fresh(c, edit[c][e]) /\ edit[c][e] # Nobody
  BY NobodyIdle DEF Coherent, InTurns
<1>2. price[c] # NoPrice /\ Len(record[c]) \in edit[c][e].closes
  BY <1>1 DEF Fresh
<1>3. now \in Nat /\ now < Open /\ Open \in Nat
  BY <1>1, TypesByName, PriceNumbers DEF PriceTypes
<1>4. ASSUME NEW i \in DOMAIN record[c], record[c][i].to = Open PROVE i \in edit[c][e].closes
  <2>1. PICK n : n = Len(record[c])
    OBVIOUS
  <2>2. n \in DOMAIN record[c] /\ n \in Nat /\ i \in Nat /\ i <= n
    BY <1>1, <1>2, <2>1, EntryFields DEF Newest
  <2>3. i < n => record[c][i].to <= record[c][n].from
    BY <1>1, <2>2 DEF Ordered
  <2>4. record[c][n].from <= now /\ record[c][n].from \in Nat
    BY <1>1, <2>2, EntryFields DEF Past
  <2>5. ~(i < n)
    BY <1>3, <1>4, <2>3, <2>4
  <2> QED
    BY <1>2, <2>1, <2>2, <2>5
<1>5. /\ Closed(c, e) \in Seq(Interval)
      /\ Len(Closed(c, e)) = Len(record[c])
      /\ \A i \in 1 .. Len(record[c]) :
            /\ Closed(c, e)[i].id = record[c][i].id
            /\ Closed(c, e)[i].from = record[c][i].from
            /\ Closed(c, e)[i].to = IF i \in edit[c][e].closes /\ record[c][i].to = Open
                                 THEN edit[c][e].at ELSE record[c][i].to
  BY <1>1, ClosedHistory
<1>6. DOMAIN record[c] = 1 .. Len(record[c])
  BY <1>1, TypesByName, LenProperties DEF PriceTypes
<1> QED
  BY <1>4, <1>5, <1>6 DEF Continues

\* Without a price there is nothing to close.
LEMMA AddingContinues ==
    ASSUME NEW c \in Currencies, Coherent(c), InTurns(c), ~overlaid[c], price[c] = NoPrice, NEW at
    PROVE  Continues(c, record[c], at)
<1>1. record[c] \in Seq(Interval) /\ DOMAIN record[c] = 1 .. Len(record[c])
  BY TypesByName, LenProperties DEF Coherent, PriceTypes
<1>2. \A i \in DOMAIN record[c] : record[c][i].to # Open
  BY DEF InTurns, Newest
<1> QED
  BY <1>1, <1>2 DEF Continues

LEMMA CommitsTakeTurns ==
    ASSUME Shaped, NEW c \in Currencies, Coherent(c), InTurns(c), NEW e \in Editors, CommitAdd(c, e) \/ CommitUpdate(c, e) \/ CommitRemove(c, e)
    PROVE  InTurns(c)'
<1>1. PriceTypes(c)
  BY DEF Coherent
<1>2. edit[c][e].op \in {"add", "updating", "removing"} => edit[c][e] # Nobody
  BY NobodyIdle
<1>3. SUFFICES ASSUME ~overlaid'[c] PROVE InTurns(c)'
  BY DEF InTurns
<1>4. ASSUME NEW r, NEW x, Wrote(c, e, r, x) PROVE ~overlaid[c]
  BY <1>3, <1>4 DEF Wrote
<1>5. ASSUME edit[c][e].op \in {"add", "updating"}, NEW r, Continues(c, r, edit[c][e].at),
             Wrote(c, e, r, Entry(c, e, edit[c][e].id, Open)),
             price'[c] = Sent(c, e)
      PROVE  InTurns(c)'
  <2>1. PICK x : x = Entry(c, e, edit[c][e].id, Open)
    OBVIOUS
  <2>2. x \in Interval
    BY <1>1, <1>2, <1>5, <2>1, EntryTypes, EditFields
  <2>3. /\ x.from = edit[c][e].at /\ x.to = Open /\ x.id = edit[c][e].id
        /\ x.base = edit[c][e].base /\ x.promo = edit[c][e].promo
    BY <2>1 DEF Entry
  <2>4. edit[c][e].id > 0 /\ edit[c][e].id \in Nat
    BY <1>1, <1>2, <1>5, EditFields
  <2>5. price'[c] # NoPrice /\ price'[c].id = edit[c][e].id /\ price'[c].base = edit[c][e].base
        /\ price'[c].promo = edit[c][e].promo
    BY <1>5, <2>4 DEF NoPrice, Sent
  <2>6. Wrote(c, e, r, x)
    BY <1>5, <2>1
  <2> QED
    BY <1>2, <1>3, <1>5, <2>2, <2>3, <2>5, <2>6, WritesTakeTurns
<1>6. CASE CommitAdd(c, e)
  <2>1. edit[c][e].op = "add" /\ (Failed(c, e) \/ Wrote(c, e, record[c], Entry(c, e, edit[c][e].id, Open)))
    BY <1>1, <1>6, AddLeaves
  <2>2. CASE Failed(c, e)
    BY <2>2, FailuresTakeTurns
  <2>3. CASE ~Failed(c, e)
    <3>1. /\ price[c] = NoPrice /\ Wrote(c, e, record[c], Entry(c, e, edit[c][e].id, Open))
          /\ price'[c] = Sent(c, e)
      BY <1>1, <1>6, <2>3, AddLeaves
    <3>2. ~overlaid[c]
      BY <1>4, <3>1
    <3>3. Continues(c, record[c], edit[c][e].at)
      BY <3>1, <3>2, AddingContinues
    <3> QED
      BY <1>5, <2>1, <3>1, <3>3
  <2> QED
    BY <2>2, <2>3
<1>7. CASE CommitUpdate(c, e)
  <2>1. edit[c][e].op = "updating"
    BY <1>1, <1>7, UpdateLeaves
  <2>2. CASE Failed(c, e)
    BY <2>2, FailuresTakeTurns
  <2>3. CASE ~Failed(c, e)
    <3>1. /\ Wrote(c, e, Closed(c, e), Entry(c, e, edit[c][e].id, Open))
          /\ price'[c] = Sent(c, e)
      BY <1>1, <1>7, <2>3, UpdateLeaves
    <3>2. ~overlaid[c]
      BY <1>4, <3>1
    <3>3. Continues(c, Closed(c, e), edit[c][e].at)
      BY <2>1, <3>2, ClosingContinues
    <3> QED
      BY <1>5, <2>1, <3>1, <3>3
  <2> QED
    BY <2>2, <2>3
<1>8. CASE CommitRemove(c, e)
  <2>1. edit[c][e].op = "removing"
    BY <1>1, <1>8, RemoveLeaves
  <2>2. CASE Failed(c, e)
    BY <2>2, FailuresTakeTurns
  <2>3. CASE ~Failed(c, e)
    <3>1. price'[c] = NoPrice /\ Wrote(c, e, Closed(c, e), Entry(c, e, 0, edit[c][e].at))
      BY <1>1, <1>8, <2>3, RemoveLeaves
    <3>2. ~overlaid[c]
      BY <1>4, <3>1
    <3>3. Continues(c, Closed(c, e), edit[c][e].at)
      BY <2>1, <3>2, ClosingContinues
    <3>4. PICK x : x = Entry(c, e, 0, edit[c][e].at)
      OBVIOUS
    <3>5. x \in Interval
      BY <1>1, <1>2, <2>1, <3>4, EntryTypes, EditFields
    <3>6. x.from = edit[c][e].at /\ x.to = edit[c][e].at /\ x.id = 0
      BY <3>4 DEF Entry
    <3> QED
      BY <1>2, <1>3, <2>1, <3>1, <3>3, <3>4, <3>5, <3>6, WritesTakeTurns
  <2> QED
    BY <2>2, <2>3
<1> QED
  BY <1>6, <1>7, <1>8

LEMMA TurnsStep ==
    ASSUME Shaped, NEW c \in Currencies, Coherent(c), InTurns(c), EditsOf(c) \/ Tick
    PROVE  InTurns(c)'
<1>1. CASE Tick
  <2>1. now \in Nat /\ now' = now + 1 /\ UNCHANGED priceVars
    BY <1>1, TypesByName, PriceNumbers DEF Tick, Coherent, PriceTypes
  <2>2. UNCHANGED <<price[c], record[c], edit[c], edits[c], overlaid[c]>>
    BY <2>1 DEF priceVars
  <2> SUFFICES ASSUME ~overlaid[c]
               PROVE  /\ Past(c)' /\ Ordered(c)' /\ Newest(c)' /\ NoGap(c)' /\ Numbered(c)'
                      /\ \A f \in Editors : Fresh(c, edit[c][f])'
    BY <2>2 DEF InTurns
  <2>3. /\ Past(c) /\ Ordered(c) /\ Newest(c) /\ NoGap(c) /\ Numbered(c)
        /\ \A f \in Editors : Fresh(c, edit[c][f])
    BY DEF InTurns
  <2>4. Past(c)'
    <3> SUFFICES ASSUME NEW i \in DOMAIN record[c]
                 PROVE  record[c][i].from <= now' /\ (record[c][i].to = Open \/ record[c][i].to <= now')
      BY <2>2 DEF Past, Open
    <3>1. record[c][i].from \in Nat /\ record[c][i].to \in Nat
      BY EntryFields DEF Coherent
    <3> QED
      BY <2>1, <2>3, <3>1 DEF Past
  <2>5. Ordered(c)' /\ Newest(c)' /\ NoGap(c)' /\ Numbered(c)'
    BY <2>2, <2>3 DEF Ordered, Newest, NoGap, Numbered, InForce
  <2>6. ASSUME NEW f \in Editors PROVE Fresh(c, edit[c][f])'
    <3>1. edit[c][f] \in {Nobody} \cup Asked \cup Begun /\ Fresh(c, edit[c][f])
      BY <2>3, TypesByName DEF Coherent, PriceTypes
    <3>2. edit[c][f] # Nobody => edit[c][f].at \in Nat
      BY <3>1, FreshNumbers DEF Coherent
    <3> QED
      BY <2>1, <2>2, <3>1, <3>2 DEF Fresh
  <2> QED
    BY <2>4, <2>5, <2>6
<1>2. ASSUME NEW e \in Editors,
             \/ \E base \in Amounts, promo \in Amounts \cup {0} : StartAdd(c, e, base, promo)
             \/ \E base, promo \in Amounts \cup {0}, keepPromo \in BOOLEAN :
                   StartUpdate(c, e, base, promo, keepPromo)
             \/ StartRemove(c, e)
      PROVE  InTurns(c)'
  BY <1>2, StartsTakeTurns
<1> QED
  BY <1>1, <1>2, ClosingTakesTurns, CommitsTakeTurns DEF EditsOf

LEMMA TurnsStart ==
    ASSUME PricesInit, NEW c \in Currencies
    PROVE  InTurns(c)
<1>1. now = 0 /\ edits[c] = 0 /\ \A e \in Editors : edit[c][e] = Nobody
  BY FirstState
<1>2. \A e \in Editors : Fresh(c, edit[c][e])
  BY <1>1 DEF Fresh
<1>3. CASE price[c] = NoPrice /\ record[c] = <<>>
  <2>1. DOMAIN record[c] = {}
    BY <1>3
  <2> QED
    BY <1>2, <1>3, <2>1 DEF InTurns, Past, Ordered, Newest, NoGap, Numbered
<1>4. CASE ~(price[c] = NoPrice /\ record[c] = <<>>)
  <2>1. PICK base \in Amounts :
           /\ price[c] = [id |-> 1, base |-> base, promo |-> 0]
           /\ record[c] = <<[id |-> 1, base |-> base, promo |-> 0, from |-> 0, to |-> Open]>>
    BY <1>4, FirstState
  <2>2. DOMAIN record[c] = {1} /\ Len(record[c]) = 1
    BY <2>1
  <2>3. record[c][1] = [id |-> 1, base |-> base, promo |-> 0, from |-> 0, to |-> Open]
    BY <2>1
  <2>4. price[c] # NoPrice
    BY <2>1 DEF NoPrice
  <2>5. Past(c) /\ Ordered(c) /\ Newest(c) /\ Numbered(c)
    BY <1>1, <2>1, <2>2, <2>3, <2>4 DEF Past, Ordered, Newest, Numbered
  <2>6. NoGap(c)
    <3> SUFFICES ASSUME NEW t \in Times PROVE 1 \in InForce(c, t)
      BY DEF NoGap
    <3>1. t \in Nat /\ t < Open
      BY PriceNumbers
    <3> QED
      BY <2>2, <2>3, <3>1 DEF InForce
  <2> QED
    BY <1>2, <2>5, <2>6 DEF InTurns
<1> QED
  BY <1>3, <1>4

\* The history keeps what it says of prices.
LEMMA HistoryStays ==
    ASSUME Shaped, NEW c \in Currencies, Coherent(c), EditsOf(c) \/ Tick, NEW i \in DOMAIN record[c]
    PROVE  i \in DOMAIN record'[c] /\ record'[c][i].base = record[c][i].base /\ record'[c][i].promo = record[c][i].promo
<1>1. PriceTypes(c) /\ record[c] \in Seq(Interval)
  BY TypesByName DEF Coherent, PriceTypes
<1>2. DOMAIN record[c] = 1 .. Len(record[c])
  BY <1>1, LenProperties
<1>3. ASSUME NEW e \in Editors, edit[c][e] # Nobody,
             NEW r \in Seq(Interval), Len(r) = Len(record[c]),
             r[i].base = record[c][i].base, r[i].promo = record[c][i].promo,
             NEW id \in Nat, NEW to \in Times \cup {Open}, Wrote(c, e, r, Entry(c, e, id, to))
      PROVE  i \in DOMAIN record'[c] /\ record'[c][i].base = record[c][i].base
             /\ record'[c][i].promo = record[c][i].promo
  <2>1. PICK x \in Interval : x = Entry(c, e, id, to)
    BY <1>1, <1>3, EntryTypes
  <2>2. record'[c] = Append(r, x)
    BY <1>3, <2>1 DEF Wrote
  <2>3. DOMAIN r = 1 .. Len(r) /\ DOMAIN record'[c] = 1 .. Len(r) + 1 /\ Len(r) \in Nat
        /\ \A j \in 1 .. Len(r) : record'[c][j] = r[j]
    BY <2>2, LongerHistory
  <2> QED
    BY <1>2, <1>3, <2>3
<1>4. ASSUME NEW e \in Editors, CommitAdd(c, e), ~Failed(c, e)
      PROVE  i \in DOMAIN record'[c] /\ record'[c][i].base = record[c][i].base
             /\ record'[c][i].promo = record[c][i].promo
  <2>1. edit[c][e].op = "add" /\ Wrote(c, e, record[c], Entry(c, e, edit[c][e].id, Open))
    BY <1>1, <1>4, AddLeaves
  <2>2. edit[c][e] # Nobody
    BY <2>1, NobodyIdle
  <2>3. edit[c][e].id \in Nat
    BY <1>1, <2>2, EditFields
  <2> QED
    BY <1>1, <1>3, <2>1, <2>2, <2>3
<1>5. ASSUME NEW e \in Editors, CommitUpdate(c, e) \/ CommitRemove(c, e), ~Failed(c, e)
      PROVE  i \in DOMAIN record'[c] /\ record'[c][i].base = record[c][i].base
             /\ record'[c][i].promo = record[c][i].promo
  <2>1. /\ edit[c][e].op \in {"updating", "removing"}
        /\ \/ Wrote(c, e, Closed(c, e), Entry(c, e, edit[c][e].id, Open))
           \/ Wrote(c, e, Closed(c, e), Entry(c, e, 0, edit[c][e].at))
    BY <1>1, <1>5, UpdateLeaves, RemoveLeaves
  <2>2. edit[c][e] # Nobody
    BY <2>1, NobodyIdle
  <2>3. edit[c][e].id \in Nat /\ edit[c][e].at \in Times
    BY <1>1, <2>2, EditFields
  <2>4. /\ Closed(c, e) \in Seq(Interval) /\ Len(Closed(c, e)) = Len(record[c])
        /\ Closed(c, e)[i].base = record[c][i].base /\ Closed(c, e)[i].promo = record[c][i].promo
    BY <1>1, <1>2, <2>1, ClosedHistory
  <2> QED
    BY <1>3, <2>1, <2>2, <2>3, <2>4
<1>6. ASSUME UNCHANGED record[c]
      PROVE  i \in DOMAIN record'[c] /\ record'[c][i].base = record[c][i].base
             /\ record'[c][i].promo = record[c][i].promo
  BY <1>6
<1>7. ASSUME NEW e \in Editors, CommitAdd(c, e) \/ CommitUpdate(c, e) \/ CommitRemove(c, e), Failed(c, e)
      PROVE  UNCHANGED record[c]
  BY <1>7 DEF Failed
<1>8. ASSUME NEW e \in Editors,
             \/ \E base \in Amounts, promo \in Amounts \cup {0} : StartAdd(c, e, base, promo)
             \/ \E base, promo \in Amounts \cup {0}, keepPromo \in BOOLEAN :
                   StartUpdate(c, e, base, promo, keepPromo)
             \/ StartRemove(c, e) \/ CloseInterval(c, e)
      PROVE  UNCHANGED record[c]
  BY <1>8, StartsCohere DEF CloseInterval
<1>9. Tick => UNCHANGED record[c]
  BY DEF Tick, priceVars
<1> QED
  BY <1>4, <1>5, <1>6, <1>7, <1>8, <1>9 DEF EditsOf

\* Edits of one currency keep to it.
LEMMA EditsShaped ==
    ASSUME Shaped, NEW d \in Currencies, EditsOf(d)
    PROVE  /\ Shaped' /\ now' = now
           /\ \A c \in Currencies \ {d} :
                 UNCHANGED <<price[c], record[c], edit[c], edits[c], overlaid[c]>>
<1>1. PICK e \in Editors :
         \/ \E base \in Amounts, promo \in Amounts \cup {0} : StartAdd(d, e, base, promo)
         \/ \E base, promo \in Amounts \cup {0}, keepPromo \in BOOLEAN :
               StartUpdate(d, e, base, promo, keepPromo)
         \/ StartRemove(d, e) \/ CloseInterval(d, e)
         \/ CommitAdd(d, e) \/ CommitUpdate(d, e) \/ CommitRemove(d, e)
  BY DEF EditsOf
<1>2. \/ \E q : Asks(d, e, q)
      \/ CloseInterval(d, e) \/ Fails(d, e) \/ \E row, r, x : Writes(d, e, row, r, x)
  <2>1. ASSUME NEW base, NEW promo, StartAdd(d, e, base, promo) PROVE \E q : Asks(d, e, q)
    BY <2>1 DEF StartAdd
  <2>2. ASSUME NEW base, NEW promo, NEW keepPromo, StartUpdate(d, e, base, promo, keepPromo)
        PROVE  \E q : Asks(d, e, q)
    BY <2>2 DEF StartUpdate
  <2>3. StartRemove(d, e) => \E q : Asks(d, e, q)
    BY DEF StartRemove
  <2>4. CommitAdd(d, e) => Fails(d, e) \/ \E row, r, x : Writes(d, e, row, r, x)
    BY DEF CommitAdd
  <2>5. CommitUpdate(d, e) => Fails(d, e) \/ \E row, r, x : Writes(d, e, row, r, x)
    BY DEF CommitUpdate
  <2>6. CommitRemove(d, e) => Fails(d, e) \/ \E row, r, x : Writes(d, e, row, r, x)
    BY DEF CommitRemove
  <2> QED
    BY <1>1, <2>1, <2>2, <2>3, <2>4, <2>5, <2>6
<1>3. CASE \E q : Asks(d, e, q)
  BY <1>3 DEF Asks, Shaped
<1>4. CASE CloseInterval(d, e)
  BY <1>4 DEF CloseInterval, Shaped
<1>5. CASE Fails(d, e)
  BY <1>5 DEF Fails, Shaped
<1>6. CASE \E row, r, x : Writes(d, e, row, r, x)
  <2>1. PICK row, r, x : Writes(d, e, row, r, x)
    BY <1>6
  <2> QED
    BY <2>1 DEF Writes, Shaped
<1> QED
  BY <1>2, <1>3, <1>4, <1>5, <1>6

LEMMA EditsElsewhere ==
    ASSUME Shaped, NEW d \in Currencies, EditsOf(d), NEW c \in Currencies, c # d
    PROVE  UNCHANGED <<now, price[c], record[c], edit[c], edits[c], overlaid[c]>>
BY EditsShaped

-----------------------------------------------------------------------------
(* The order.                                                              *)

Priced   == [pc : {"priced", "refused"}, currency : Currencies, base : Nat, amount : Nat]
Placed   == [pc : {"placed"}, currency : Currencies, base : Nat, amount : Nat, gateway : Gateways]

\* A price of the history in the currency c is charged.
Recorded(c, base, amount) ==
    \E i \in DOMAIN record[c] : record[c][i].base = base
                              /\ amount \in {record[c][i].base, record[c][i].promo}

\* What an order has read was a price of the plan.
OrderOnRecord ==
    /\ order \in {NoOrder} \cup Priced \cup Placed
    /\ orders \in Nat
    /\ order # NoOrder =>
          /\ order.amount <= order.base
          /\ Recorded(order.currency, order.base, order.amount)

CatalogueInv == /\ Shaped /\ now \in Times
                /\ \A c \in Currencies : Coherent(c) /\ InTurns(c)
                /\ RoutesSound /\ InOrder /\ Payable /\ OrderOnRecord

LEMMA OrderKinds ==
    /\ NoOrder.pc = "idle" /\ NoOrder \notin Priced /\ NoOrder \notin Placed
    /\ \A x \in Priced : x.pc \in {"priced", "refused"}
    /\ \A x \in Placed : x.pc = "placed"
BY DEF NoOrder, Priced, Placed

LEMMA LoadOnRecord ==
    ASSUME \A c \in Currencies : Coherent(c), OrderOnRecord, LoadPrice
    PROVE  OrderOnRecord'
<1>1. orders' = orders + 1 /\ UNCHANGED record
  BY DEF LoadPrice, priceVars
<1>2. PICK c \in Currencies :
         /\ price[c] # NoPrice
         /\ \E amount \in {price[c].base} \cup ({price[c].promo} \ {0}) :
               order' = [pc |-> "priced", currency |-> c, base |-> price[c].base,
                         amount |-> amount]
  BY DEF LoadPrice
<1>3. price[c].base \in Nat /\ price[c].promo \in Nat
  <2>1. price[c] \in Row
    BY <1>2, TypesByName DEF Coherent, PriceTypes
  <2>2. price[c].base \in Amounts /\ price[c].promo \in Amounts \cup {0}
    BY <2>1 DEF Row
  <2>3. \A a \in Amounts : a \in Nat
    BY PriceNumbers
  <2>4. price[c].promo \in Nat
    <3>1. CASE price[c].promo = 0
      BY <3>1
    <3>2. CASE price[c].promo \in Amounts
      BY <2>3, <3>2
    <3> QED
      BY <2>2, <3>1, <3>2
  <2> QED
    BY <2>2, <2>3, <2>4
<1>4. PICK amount : /\ amount = price[c].base \/ (amount = price[c].promo /\ amount # 0)
                    /\ order' = [pc |-> "priced", currency |-> c, base |-> price[c].base,
                                 amount |-> amount]
  BY <1>2
<1>5. Valid(price[c].base, price[c].promo)
      /\ \E i \in DOMAIN record[c] :
            record[c][i].base = price[c].base /\ record[c][i].promo = price[c].promo
  BY <1>2 DEF Coherent, SoundRow
<1>6. amount \in Nat /\ amount <= price[c].base
  BY <1>3, <1>4, <1>5 DEF Valid
<1>7. Recorded(c, price[c].base, amount)
  BY <1>4, <1>5 DEF Recorded
<1>8. order' \in Priced /\ order'.currency = c /\ order'.base = price[c].base
      /\ order'.amount = amount
  BY <1>3, <1>4, <1>6 DEF Priced
<1>9. Recorded(order'.currency, order'.base, order'.amount)
  BY <1>7, <1>8
<1>10. Recorded(order.currency, order.base, order.amount)'
  BY <1>1, <1>9 DEF Recorded
<1>11. orders' \in Nat
  BY <1>1 DEF OrderOnRecord
<1> QED
  BY <1>6, <1>8, <1>10, <1>11 DEF OrderOnRecord

LEMMA SelectOnRecord ==
    ASSUME OrderOnRecord, SelectGateway \/ OrderFails
    PROVE  OrderOnRecord'
<1>1. order.pc = "priced" /\ UNCHANGED <<now, priceVars, routeVars, orders>>
  BY DEF SelectGateway, OrderFails
<1>2. order \in Priced /\ order # NoOrder
  BY <1>1, OrderKinds DEF OrderOnRecord
<1>3. /\ order' \in {NoOrder} \cup Priced \cup Placed
      /\ order' = NoOrder \/ (/\ order'.currency = order.currency
                              /\ order'.base = order.base /\ order'.amount = order.amount)
  <2>1. CASE order' = NoOrder
    BY <2>1
  <2>2. CASE order' = [order EXCEPT !.pc = "refused"]
    BY <1>2, <2>2 DEF Priced
  <2>3. ASSUME NEW g \in Gateways,
               order' = [pc |-> "placed", currency |-> order.currency, base |-> order.base,
                         amount |-> order.amount, gateway |-> g]
        PROVE  /\ order' \in Placed /\ order'.currency = order.currency
               /\ order'.base = order.base /\ order'.amount = order.amount
    BY <1>2, <2>3 DEF Priced, Placed
  <2> QED
    BY <2>1, <2>2, <2>3 DEF SelectGateway, OrderFails, Enabled
<1>4. UNCHANGED <<record, orders>>
  BY <1>1 DEF priceVars
<1>5. order' # NoOrder => Recorded(order.currency, order.base, order.amount)'
  BY <1>2, <1>3, <1>4 DEF OrderOnRecord, Recorded
<1> QED
  BY <1>2, <1>3, <1>4, <1>5 DEF OrderOnRecord

LEMMA PricesOnRecord ==
    ASSUME Shaped, \A c \in Currencies : Coherent(c), OrderOnRecord, PricesNext,
           UNCHANGED <<order, orders>>
    PROVE  OrderOnRecord'
<1>1. ASSUME order # NoOrder PROVE Recorded(order.currency, order.base, order.amount)'
  <2>1. PICK c \in Currencies : c = order.currency
    BY <1>1 DEF OrderOnRecord, Priced, Placed
  <2>2. PICK i \in DOMAIN record[c] :
           record[c][i].base = order.base /\ order.amount \in {record[c][i].base, record[c][i].promo}
    BY <1>1, <2>1 DEF OrderOnRecord, Recorded
  <2>3. CASE EditsOf(c) \/ Tick
    <3>1. i \in DOMAIN record'[c] /\ record'[c][i].base = record[c][i].base
          /\ record'[c][i].promo = record[c][i].promo
      BY <2>3, HistoryStays
    <3> QED
      BY <2>1, <2>2, <3>1 DEF Recorded
  <2>4. CASE ~(EditsOf(c) \/ Tick)
    <3>1. PICK d \in Currencies \ {c} : EditsOf(d)
      BY <2>4 DEF PricesNext
    <3>2. record'[c] = record[c]
      BY <3>1, EditsElsewhere
    <3> QED
      BY <2>1, <2>2, <3>2 DEF Recorded
  <2> QED
    BY <2>3, <2>4
<1> QED
  BY <1>1 DEF OrderOnRecord

-----------------------------------------------------------------------------
(* The whole.                                                              *)

LEMMA CatalogueStart == Init => CatalogueInv
<1> SUFFICES ASSUME Init PROVE CatalogueInv
  OBVIOUS
<1>1. Shaped /\ \A c \in Currencies : Coherent(c) /\ InTurns(c)
  BY ShapedStart, CoherentStart, TurnsStart DEF Init
<1>2. RoutesSound /\ InOrder /\ Payable
  BY RoutesStart DEF Init
<1>3. OrderOnRecord
  BY DEF Init, OrderOnRecord
<1>4. now \in Times
  BY PriceNumbers DEF Init, PricesInit, Times
<1> QED
  BY <1>1, <1>2, <1>3, <1>4 DEF CatalogueInv

LEMMA PricesStay ==
    ASSUME NEW c \in Currencies, Coherent(c), InTurns(c),
           UNCHANGED <<now, price[c], record[c], edit[c], edits[c], overlaid[c]>>
    PROVE  Coherent(c)' /\ InTurns(c)'
<1>1. Coherent(c)'
  BY DEF Coherent, PriceTypes, TypesIn, SoundRow, Sensible
<1>2. InTurns(c)'
  BY DEF InTurns, Past, Ordered, Newest, NoGap, Numbered, Fresh, InForce
<1> QED
  BY <1>1, <1>2

LEMMA PricesStep ==
    ASSUME Shaped, now \in Times, \A c \in Currencies : Coherent(c) /\ InTurns(c),
           PricesNext \/ UNCHANGED <<now, priceVars>>
    PROVE  Shaped' /\ (now \in Times)' /\ \A c \in Currencies : Coherent(c)' /\ InTurns(c)'
<1>1. CASE UNCHANGED <<now, priceVars>>
  <2>1. UNCHANGED <<now, price, record, edit, edits, overlaid>>
    BY <1>1 DEF priceVars
  <2> QED
    BY <2>1, PricesStay DEF Shaped, Times
<1>2. CASE Tick
  <2>1. Shaped' /\ (now \in Times)'
    BY <1>2, PriceNumbers DEF Tick, priceVars, Shaped, Times
  <2> QED
    BY <1>2, <2>1, CoherentStep, TurnsStep
<1>3. ASSUME NEW d \in Currencies, EditsOf(d)
      PROVE  Shaped' /\ (now \in Times)' /\ \A c \in Currencies : Coherent(c)' /\ InTurns(c)'
  <2>1. Shaped' /\ now' = now
    BY <1>3, EditsShaped
  <2>2. ASSUME NEW c \in Currencies PROVE Coherent(c)' /\ InTurns(c)'
    <3>1. CASE c = d
      BY <1>3, <3>1, CoherentStep, TurnsStep
    <3>2. CASE c # d
      BY <1>3, <2>1, <3>2, EditsElsewhere, PricesStay
    <3> QED
      BY <3>1, <3>2
  <2> QED
    BY <2>1, <2>2 DEF Times
<1> QED
  BY <1>1, <1>2, <1>3 DEF PricesNext

LEMMA CatalogueStep == CatalogueInv /\ [Next]_vars => CatalogueInv'
<1> SUFFICES ASSUME CatalogueInv, [Next]_vars PROVE CatalogueInv'
  OBVIOUS
<1> USE DEF CatalogueInv
<1>1. CASE PricesNext /\ UNCHANGED <<routeVars, order, orders>>
  BY <1>1, PricesStep, RoutesStay, PricesOnRecord
<1>2. CASE RoutesNext /\ UNCHANGED <<now, priceVars, order, orders>>
  <2>1. UNCHANGED <<now, priceVars>> /\ UNCHANGED <<record, order, orders>>
    BY <1>2 DEF priceVars
  <2>2. OrderOnRecord'
    BY <2>1 DEF OrderOnRecord, Recorded
  <2> QED
    BY <1>2, <2>1, <2>2, PricesStep, SoundStep, InOrderStep, PayableStep
<1>3. CASE LoadPrice \/ SelectGateway \/ OrderFails
  <2>1. UNCHANGED <<now, priceVars>> /\ UNCHANGED routeVars
    BY <1>3 DEF LoadPrice, SelectGateway, OrderFails
  <2>2. OrderOnRecord'
    BY <1>3, LoadOnRecord, SelectOnRecord
  <2> QED
    BY <2>1, <2>2, PricesStep, RoutesStay
<1>4. CASE UNCHANGED vars
  <2>1. UNCHANGED <<now, priceVars>> /\ UNCHANGED routeVars /\ UNCHANGED <<record, order, orders>>
    BY <1>4 DEF vars, priceVars
  <2>2. OrderOnRecord'
    BY <2>1 DEF OrderOnRecord, Recorded
  <2> QED
    BY <2>1, <2>2, PricesStep, RoutesStay
<1> QED
  BY <1>1, <1>2, <1>3, <1>4 DEF Next

LEMMA CatalogueInvariant == Spec => []CatalogueInv
BY CatalogueStart, CatalogueStep, PTL DEF Spec

\* Prices, their history, requests and routes keep their types, whatever overlaps.
THEOREM TypeCorrect == Spec => []TypeOK
<1>1. CatalogueInv => TypeOK
  <2> SUFFICES ASSUME CatalogueInv PROVE TypeOK
    OBVIOUS
  <2>1. PricesTypeOK /\ RoutesTypeOK
    BY SoundTypes, TypesTogether DEF CatalogueInv, Coherent, PriceTypes
  <2>2. order.pc \in {"idle", "priced", "placed", "refused"} /\ orders \in Nat
    BY OrderKinds DEF CatalogueInv, OrderOnRecord
  <2> QED
    BY <2>1, <2>2 DEF TypeOK
<1> QED
  BY <1>1, CatalogueInvariant, PTL

\* However requests overlap, a price on sale is valid and is what the newest entry of the
\* history that names its row says (subscription-plans.service.ts, updatePlanPrice).
THEOREM SoldAsRecorded == Spec => []PricesCoherent
<1>1. CatalogueInv => PricesCoherent
  BY DEF CatalogueInv, Coherent, SoundRow, PricesCoherent
<1> QED
  BY <1>1, CatalogueInvariant, PTL

\* Requests that take turns leave a history that answers for every point in time with one
\* price in a currency at most, and with one at all as long as there is one
\* (getPriceHistory, whose answer for a country holds that of every currency).
THEOREM HistoryAnswers == Spec => []PointInTimeAnswers
<1>1. CatalogueInv => PointInTimeAnswers
  BY TurnsAnswer DEF CatalogueInv, PointInTimeAnswers
<1> QED
  BY <1>1, CatalogueInvariant, PTL

\* An order is charged a price that the plan once had in the order's currency, by its
\* history, and no more than the base price of it (payments.service.ts, loadPlanPrice).
THEOREM OrdersChargedOnRecord == Spec => []ChargedOnRecord
<1>1. CatalogueInv => ChargedOnRecord
  BY OrderKinds DEF CatalogueInv, OrderOnRecord, ChargedOnRecord, Recorded
<1> QED
  BY <1>1, CatalogueInvariant, PTL

\* As long as no two requests that move routes overlap, the routes of a country are
\* numbered 1 .. N, however many gateways and requests there are
\* (payment-routes.service.ts).
THEOREM RoutesNumbered == Spec => []PrioritiesContiguous
<1>1. CatalogueInv => PrioritiesContiguous
  BY DEF CatalogueInv, InOrder, PrioritiesContiguous
<1> QED
  BY <1>1, CatalogueInvariant, PTL

\* As long as no two requests that may leave a gateway fewer overlap, and the last enabled
\* route is not deleted, a country that has routes has one that takes payments.
THEOREM CountriesPayable == Spec => []StaysPayable
<1>1. CatalogueInv => StaysPayable
  BY DEF CatalogueInv, Payable, StaysPayable
<1> QED
  BY <1>1, CatalogueInvariant, PTL
=============================================================================
