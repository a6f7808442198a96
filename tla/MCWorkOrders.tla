---------------------------- MODULE MCWorkOrders ----------------------------
EXTENDS WorkOrders, TLC

CONSTANTS a1, a2, o1, o2, o3, v1, v2, v3, pay1, pay2, rec1, rec2

\* Verifiers judge independently of each other; v3 is related to agent a2.
OwnGroup == [v \in Verifier |-> v]

RelatedToA2 == [v \in Verifier |-> IF v = v3 THEN {a2} ELSE {}]

\* v3 comes first under every seed, v1 last, and v1 is drawn to re-execute.
V3First == [o \in Order |-> [v \in Verifier |-> IF v = v3 THEN 1 ELSE IF v = v2 THEN 2 ELSE 3]]

V1Sampled == [o \in Order |-> Verifier \cap {v1}]

\* Payments and receipts are told apart by their ids only.
Symmetry == Permutations(PaymentId) \cup Permutations(ReceiptId)
=============================================================================
