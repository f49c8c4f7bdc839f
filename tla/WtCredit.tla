------------------------------ MODULE WtCredit ------------------------------
(***************************************************************************)
(* What WebTransport flow control promises for one kind of resource of one *)
(* direction: a sender uses credit, the receiver gives it back, and no     *)
(* more than the receiver's window is ever out.                            *)
(***************************************************************************)
EXTENDS Integers

CONSTANTS Pipes,        \* the directions and resources
          Unlimited     \* the window of a session without flow control

VARIABLES window, out   \* per pipe: the receiver's window, the credit in use

Use(p, n) ==
    /\ window[p] = Unlimited \/ out[p] + n <= window[p]
    /\ out' = [out EXCEPT ![p] = @ + n]
    /\ UNCHANGED window

Release(p, n) ==
    /\ n <= out[p]
    /\ out' = [out EXCEPT ![p] = @ - n]
    /\ UNCHANGED window

CreditInit ==
    /\ window \in [Pipes -> Nat \cup {Unlimited}]
    /\ out = [p \in Pipes |-> 0]

\* Credit is used and released, for whatever amount.
CreditNext ==
    \E p \in Pipes :
       LET n == out'[p] - out[p]
       IN  n # 0 /\ IF n > 0 THEN Use(p, n) ELSE Release(p, -n)

CreditSpec == CreditInit /\ [][CreditNext]_<<window, out>>
=============================================================================
