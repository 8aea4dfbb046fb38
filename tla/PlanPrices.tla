----------------------------- MODULE PlanPrices -----------------------------
(***************************************************************************)
(* The prices of one plan in one country, as administrators change them,   *)
(* and the temporal history of them: every price that was ever in force,   *)
(* with the interval of time in which it was.  A country may have a price  *)
(* in each currency; whoever reads them asks for plan and country alone.   *)
(*                                                                         *)
(* Prices are numbers, 0 is no discount; the window of a discount is left  *)
(* out.  A request reads the price, then runs one transaction of several   *)
(* statements; the database commits them one after the other, and each     *)
(* statement sees what was committed when it began.                        *)
(***************************************************************************)
EXTENDS Naturals, Sequences, FiniteSets

CONSTANTS
    Currencies,
    Editors,     \* requests of administrators at once, about one currency
    Amounts,     \* prices in use
    MaxTime,     \* bound: the clock
    MaxEdits     \* bound: requests about a currency

ASSUME PricesAssumption == Amounts \subseteq Nat \ {0} /\ MaxTime \in Nat /\ MaxEdits \in Nat

VARIABLES
    now,
    price,       \* SubscriptionPlanPrice: the row of each currency, if any
    record,      \* SubscriptionPlanPriceHistory of each currency, by insertion
    edit,        \* the requests
    edits,       \* requests so far; with them the rows are numbered
    overlaid     \* history: an edit was committed while another was under way

priceVars == <<price, record, edit, edits, overlaid>>

Times   == 0 .. MaxTime
NoPrice == [id |-> 0, base |-> 0, promo |-> 0]
Nobody  == [op |-> "none"]
Open    == MaxTime + 1      \* effectiveTo of an interval that has no end yet

OpenRows(c, id) == {i \in DOMAIN record[c] : record[c][i].id = id /\ record[c][i].to = Open}

\* Another request that has read the price and is not done.
OtherEdits(c, e) == {f \in Editors \ {e} : edit[c][f] # Nobody}

FirstPrice(base) == [id |-> 1, base |-> base, promo |-> 0]
FirstEntry(base) == [id |-> 1, base |-> base, promo |-> 0, from |-> 0, to |-> Open]

PricesInit ==
    /\ now = 0
    /\ \E base \in [Currencies -> Amounts \cup {0}] :
          /\ price = [c \in Currencies |-> IF base[c] = 0 THEN NoPrice ELSE FirstPrice(base[c])]
          /\ record = [c \in Currencies |-> IF base[c] = 0 THEN <<>> ELSE <<FirstEntry(base[c])>>]
    /\ edit = [c \in Currencies |-> [e \in Editors |-> Nobody]]
    /\ edits = [c \in Currencies |-> 0]
    /\ overlaid = [c \in Currencies |-> FALSE]

\* A discounted price is below the base price, and neither is 0.
Valid(base, promo) == promo = 0 \/ promo < base

\* A request reads what it is about, and takes a number.
Asks(c, e, q) ==
    /\ edit[c][e] = Nobody
    /\ edits[c] < MaxEdits
    /\ edits' = [edits EXCEPT ![c] = @ + 1]
    /\ edit' = [edit EXCEPT ![c][e] = q]
    /\ UNCHANGED <<now, price, record, overlaid>>

\* It fails, and its transaction leaves nothing.
Fails(c, e) ==
    /\ edit' = [edit EXCEPT ![c][e] = Nobody]
    /\ UNCHANGED <<now, price, record, edits, overlaid>>

\* It commits: the row, and the history r with one entry more.
Writes(c, e, row, r, x) ==
    /\ price' = [price EXCEPT ![c] = row]
    /\ record' = [record EXCEPT ![c] = Append(r, x)]
    /\ edit' = [edit EXCEPT ![c][e] = Nobody]
    /\ overlaid' = [overlaid EXCEPT ![c] = @ \/ OtherEdits(c, e) # {}]
    /\ UNCHANGED <<now, edits>>

\* What a request was sent, as a row and as an entry of the history.
Sent(c, e) == [id |-> edit[c][e].id, base |-> edit[c][e].base, promo |-> edit[c][e].promo]

Entry(c, e, id, to) == [id |-> id, base |-> edit[c][e].base, promo |-> edit[c][e].promo,
                        from |-> edit[c][e].at, to |-> to]

-----------------------------------------------------------------------------
\* addPlanPrice checks what it was sent; the row gets an id of its own.
StartAdd(c, e, base, promo) ==
    /\ Valid(base, promo)
    /\ Asks(c, e, [op |-> "add", id |-> edits[c] + 2, base |-> base, promo |-> promo, at |-> now])

\* The history relates the initial price to the row.  A second price in the currency
\* fails at the unique index (planId, currencyCode, countryCode), which lets the country
\* have one in another.
CommitAdd(c, e) ==
    /\ edit[c][e].op = "add"
    /\ IF price[c] = NoPrice
       THEN Writes(c, e, Sent(c, e), record[c], Entry(c, e, edit[c][e].id, Open))
       ELSE Fails(c, e)

\* updatePlanPrice completes what it was sent (0 for what it was not) with the row it
\* read, and checks the two together.
StartUpdate(c, e, base, promo, keepPromo) ==
    LET newBase  == IF base = 0 THEN price[c].base ELSE base
        newPromo == IF keepPromo THEN price[c].promo ELSE promo
    IN /\ price[c] # NoPrice
       /\ Valid(newBase, newPromo)
       /\ Asks(c, e, [op |-> "update", id |-> price[c].id, base |-> newBase,
                      promo |-> newPromo, at |-> now])

StartRemove(c, e) ==
    /\ price[c] # NoPrice
    /\ Asks(c, e, [op |-> "remove", id |-> price[c].id, base |-> price[c].base,
                   promo |-> price[c].promo, at |-> now])

\* The transaction's first statement finds the open intervals of the row.  One that runs
\* at the same time waits for the lock, and then finds no interval open that it saw.
CloseInterval(c, e) ==
    /\ edit[c][e].op \in {"update", "remove"}
    /\ edit' = [edit EXCEPT ![c][e] =
          [op |-> IF @.op = "update" THEN "updating" ELSE "removing", id |-> @.id,
           base |-> @.base, promo |-> @.promo, at |-> @.at, closes |-> OpenRows(c, @.id)]]
    /\ UNCHANGED <<now, price, record, edits, overlaid>>

\* The intervals a transaction closes: those it found that are still open.
Closed(c, e) ==
    [i \in DOMAIN record[c] |->
        IF i \in edit[c][e].closes /\ record[c][i].to = Open
        THEN [record[c][i] EXCEPT !.to = edit[c][e].at] ELSE record[c][i]]

\* Mutant of CommitUpdate: the prior interval is left open.
CommitUpdateUnclosed(c, e) ==
    /\ edit[c][e].op = "updating"
    /\ IF price[c].id = edit[c][e].id
       THEN Writes(c, e, Sent(c, e), record[c], Entry(c, e, price[c].id, Open))
       ELSE Fails(c, e)

\* Mutant of CommitUpdate: a discount that does not change is not written.
CommitUpdatePartly(c, e) ==
    /\ edit[c][e].op = "updating"
    /\ IF price[c].id = edit[c][e].id
       THEN Writes(c, e, [price[c] EXCEPT !.base = edit[c][e].base],
                   Closed(c, e), Entry(c, e, price[c].id, Open))
       ELSE Fails(c, e)

\* Row and history get the same values.  If the row is gone the whole transaction fails.
CommitUpdate(c, e) ==
    /\ edit[c][e].op = "updating"
    /\ IF price[c].id = edit[c][e].id
       THEN Writes(c, e, Sent(c, e), Closed(c, e), Entry(c, e, price[c].id, Open))
       ELSE Fails(c, e)

\* removePlanPrice leaves an empty interval behind.  Deleting the row takes its id from
\* its history (SetNull); ids are not given twice, so the model lets them stay.
CommitRemove(c, e) ==
    /\ edit[c][e].op = "removing"
    /\ IF price[c].id = edit[c][e].id
       THEN Writes(c, e, NoPrice, Closed(c, e), Entry(c, e, 0, edit[c][e].at))
       ELSE Fails(c, e)

Tick ==
    /\ now < MaxTime
    /\ now' = now + 1
    /\ UNCHANGED priceVars

EditsOf(c) ==
    \E e \in Editors :
        \/ \E base \in Amounts, promo \in Amounts \cup {0} : StartAdd(c, e, base, promo)
        \/ \E base, promo \in Amounts \cup {0}, keepPromo \in BOOLEAN :
              StartUpdate(c, e, base, promo, keepPromo)
        \/ StartRemove(c, e) \/ CloseInterval(c, e)
        \/ CommitAdd(c, e) \/ CommitUpdate(c, e) \/ CommitRemove(c, e)

PricesNext == Tick \/ \E c \in Currencies : EditsOf(c)

PricesSpec == PricesInit /\ [][PricesNext]_<<now, priceVars>>

-----------------------------------------------------------------------------
\* getPriceHistory for a point in time: effectiveFrom <= t < effectiveTo.  The answer
\* for a country is that of all its currencies.
InForce(c, t) == {i \in DOMAIN record[c] : record[c][i].from <= t /\ t < record[c][i].to}

Row == [id : Nat, base : Amounts, promo : Amounts \cup {0}]

\* Types of the variables.
PricesTypeOK ==
    /\ now \in Times
    /\ price \in [Currencies -> Row \cup {NoPrice}]
    /\ record \in [Currencies -> Seq([id : Nat, base : Amounts, promo : Amounts \cup {0},
                                      from : Times, to : Times \cup {Open}])]
    /\ edit \in [Currencies -> [Editors -> {Nobody}
          \cup [op : {"add", "update", "remove"}, id : Nat, base : Amounts,
                promo : Amounts \cup {0}, at : Times]
          \cup [op : {"updating", "removing"}, id : Nat, base : Amounts,
                promo : Amounts \cup {0}, at : Times, closes : SUBSET Nat]]]
    /\ edits \in [Currencies -> Nat] /\ overlaid \in [Currencies -> BOOLEAN]

\* Administrators who take turns at the price in a currency leave a history that answers
\* every question about it: at any point in time at most one price in the currency was in
\* force, at present the one there is, and while there is one the history has no gap after
\* it began.  A country with prices in several currencies gets as many answers.
PointInTimeAnswers ==
    \A c \in Currencies : ~overlaid[c] =>
        /\ \A t \in Times : Cardinality(InForce(c, t)) <= 1
        /\ \A t \in Times : (\E i \in DOMAIN record[c] : /\ record[c][i].from <= t
                                                         /\ record[c][i].id = price[c].id)
                             => price[c] = NoPrice \/ InForce(c, t) # {}
        /\ {<<record[c][i].base, record[c][i].promo>> : i \in InForce(c, now)} =
              IF price[c] = NoPrice THEN {} ELSE {<<price[c].base, price[c].promo>>}

\* However requests overlap, a price that is sold is one an administrator's request
\* asked for as a whole, its discount below its base, and the newest entry of the
\* history that names the row says what it is.
PricesCoherent ==
    \A c \in Currencies : price[c] # NoPrice =>
        /\ Valid(price[c].base, price[c].promo)
        /\ \E i \in DOMAIN record[c] :
              /\ record[c][i].id = price[c].id
              /\ record[c][i].base = price[c].base /\ record[c][i].promo = price[c].promo
              /\ \A j \in DOMAIN record[c] : record[c][j].id = price[c].id => j <= i

=============================================================================
