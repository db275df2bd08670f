---------------------------- MODULE BillingPlans ----------------------------
(***************************************************************************)
(* The catalogue of billing plans, as administrators edit it.              *)
(***************************************************************************)
EXTENDS Overlap

CONSTANTS
    MaxPlans,    \* bound: rows of billing_plans
    Prices       \* Stripe price ids

NoPrice == 0

ASSUME PlansAssumption == MaxPlans \in Nat /\ NoPrice \notin Prices

VARIABLE plan  \* rows of billing_plans

Plans == 1 .. MaxPlans
PlanRows == [made : BOOLEAN,
             test : BOOLEAN,    \* looks_like_test_plan
             active : BOOLEAN,  \* active and visible
             monthly : Prices \union {NoPrice},  \* stripe_price_id
             annual : Prices \union {NoPrice}]   \* stripe_annual_price_id
NoPlan == [made |-> FALSE, test |-> FALSE, active |-> FALSE, monthly |-> NoPrice,
           annual |-> NoPrice]

PlansTypeOK == plan \in [Plans -> PlanRows]

PlansInit == plan = [p \in Plans |-> NoPlan]

-----------------------------------------------------------------------------
PricesOf(row) == {row.monthly, row.annual} \ {NoPrice}

(* _ensure_unique_billing_plan: no other plan has the price in either column. *)
PriceFree(p, row) ==
    \A q \in Plans \ {p} : plan[q].made => PricesOf(plan[q]) \intersect PricesOf(row) = {}

(* The unique constraints of the table are one for each column. *)
Unique(rows) ==
    \A p, q \in {i \in Plans : rows[i].made} :
        p # q => /\ rows[p].monthly # NoPrice => rows[p].monthly # rows[q].monthly
                 /\ rows[p].annual # NoPrice => rows[p].annual # rows[q].annual

OpenPlan(w, p, row) ==
    /\ row # plan[p]
    /\ Open(w, [op |-> "plan", minds |-> {<<"plan", p>>} \union ({"price"} \X PricesOf(row)),
                stale |-> {}, at |-> p, columns |-> Changed(plan[p], row)])
    /\ UNCHANGED <<plan, late>>

(* Mutant: a plan is on sale as it is given. *)
AsGiven(row) == row

(* A plan that reads as a fixture is not put on sale. *)
Withheld(row) == [row EXCEPT !.active = @ /\ ~ row.test]

Fresh == {p \in Plans : ~ plan[p].made /\ \A w \in Workers : tx[w].op = "plan" => tx[w].at # p}

CreatePlanBegin(w, p, row) ==
    /\ row.made
    /\ PriceFree(p, row)
    /\ OpenPlan(w, p, Withheld(row))

(* update_billing_plan: a PATCH of what the plan is called and whether it is *)
(* on sale, or of its prices.                                              *)
UpdatePlanBegin(w, p, row) ==
    /\ plan[p].made
    /\ PriceFree(p, row)
    /\ OpenPlan(w, p, Withheld(row))

ActivateBegin(w, p) ==
    /\ plan[p].made
    /\ ~ plan[p].test
    /\ OpenPlan(w, p, [plan[p] EXCEPT !.active = TRUE])

DeactivateBegin(w, p) ==
    /\ plan[p].made
    /\ OpenPlan(w, p, [plan[p] EXCEPT !.active = FALSE])

PlanCommit(w) ==
    LET p == tx[w].at
        rows == [plan EXCEPT ![p] = Written(@, tx[w].columns)]
        prices == PricesOf(rows[p]) \ PricesOf(plan[p])
    IN  /\ tx[w].op = "plan"
        /\ Unique(rows)
        /\ plan' = rows
        /\ Close(w, {<<"plan", p>>} \union {<<"price", c>> : c \in prices})

PlanStep(w) ==
    \/ \E p \in Fresh, row \in PlanRows : (\A q \in Fresh : p =< q) /\ CreatePlanBegin(w, p, row)
    \/ \E p \in Plans :
          \/ \E test, active \in BOOLEAN :
                UpdatePlanBegin(w, p, [plan[p] EXCEPT !.test = test, !.active = active])
          \/ \E m, a \in Prices \union {NoPrice} :
                UpdatePlanBegin(w, p, [plan[p] EXCEPT !.monthly = m, !.annual = a])
          \/ ActivateBegin(w, p)
          \/ DeactivateBegin(w, p)
    \/ PlanCommit(w)

-----------------------------------------------------------------------------
(* No plan that reads as a fixture is on sale, unless an activation and an *)
(* update of it overlap.  (admin/service.py: update_billing_plan,          *)
(* activate_billing_plan.)                                                 *)
NoTestPlanOnSale ==
    \A p \in Plans : plan[p].active /\ plan[p].test => <<"plan", p>> \in late

(* A Stripe price belongs to one plan, whichever column it stands in,      *)
(* unless two requests that give it overlap.                               *)
(* (admin/service.py: _ensure_unique_billing_plan.)                        *)
OnePlanPerPrice ==
    \A p, q \in Plans : \A c \in PricesOf(plan[p]) \intersect PricesOf(plan[q]) :
        p = q \/ <<"price", c>> \in late

(* What is on sale can be sold: public plans, told apart by their prices.  *)
(* (admin/service.py: create_billing_plan, update_billing_plan.)           *)
PlansSellable == NoTestPlanOnSale /\ OnePlanPerPrice

=============================================================================
