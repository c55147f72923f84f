---------------------------- MODULE OrderPromise ----------------------------
(***************************************************************************)
(* What the gateway promises about orders, whatever it uses to keep it:    *)
(* the server is told only what is true of an order, or was, and it is     *)
(* told in the end of every order that is no more.                         *)
(***************************************************************************)
EXTENDS TLAPS

CONSTANT Orders

VARIABLES
  fate,   \* what became of the order: out is not decided yet, never is an
          \* order the exchange did not take and will not take
  told    \* what the server has been told of it

vars == <<fate, told>>

TypeOK == /\ fate \in [Orders -> {"idle", "out", "live", "ended", "never"}]
          /\ told \in [Orders -> {"idle", "sent", "working", "ended"}]

Init == fate = [o \in Orders |-> "idle"] /\ told = [o \in Orders |-> "idle"]

\* A new order goes out or is known not to.
Submit(o) ==
  /\ fate[o] = "idle"
  /\ \E f \in {"out", "never"} : fate' = [fate EXCEPT ![o] = f]
  /\ \E t \in {"sent", "ended"} :
       /\ t = "ended" => fate'[o] = "never"
       /\ told' = [told EXCEPT ![o] = t]

Decide(o) ==
  /\ fate[o] = "out"
  /\ \E f \in {"live", "never"} : fate' = [fate EXCEPT ![o] = f]
  /\ UNCHANGED told

\* One request may end several orders.
End(S) ==
  /\ \A o \in S : fate[o] = "live"
  /\ fate' = [o \in Orders |-> IF o \in S THEN "ended" ELSE fate[o]]
  /\ UNCHANGED told

\* What is told may be late, and is ignored once the order is over.
Learn(S, t) ==
  /\ t = "working" => \A o \in S : fate[o] \in {"live", "ended"}
  /\ t = "ended" => \A o \in S : fate[o] \in {"ended", "never"}
  /\ told' = [o \in Orders |->
               IF o \in S /\ told[o] # "ended" THEN t ELSE told[o]]
  /\ UNCHANGED fate

LearnsEnd(o) == told[o] # "ended" /\ Learn({o}, "ended")

Next == \/ \E o \in Orders : Submit(o) \/ Decide(o)
        \/ \E S \in SUBSET Orders : \/ End(S)
                                    \/ \E t \in {"working", "ended"} : Learn(S, t)

Spec == Init /\ [][Next]_vars

\* The same from the moment every order was sent.
Submitted == /\ fate = [o \in Orders |-> "out"]
             /\ told = [o \in Orders |-> "sent"]

SubmittedSpec == Submitted /\ [][Next]_vars

\* Of each order that is over the server is told so.
Told == \A o \in Orders : WF_vars(LearnsEnd(o))

----------------------------------------------------------------------------
(* What the promise comes to. *)

\* The server knows of the orders that were submitted, and what it was told of
\* one is or was true of it.
Truthful ==
  \A o \in Orders :
    /\ fate[o] = "idle" <=> told[o] = "idle"
    /\ told[o] = "working" => fate[o] \in {"live", "ended"}
    /\ told[o] = "ended" => fate[o] \in {"ended", "never"}

Inv == TypeOK /\ Truthful

LEMMA Started == Init \/ Submitted => Inv
  BY DEF Init, Submitted, Inv, TypeOK, Truthful

LEMMA Inductive == Inv /\ [Next]_vars => Inv'
<1> SUFFICES ASSUME Inv, [Next]_vars PROVE Inv'
  OBVIOUS
<1> USE DEF Inv, TypeOK, Truthful
<1>1. ASSUME NEW o \in Orders, Submit(o) PROVE Inv'
  BY <1>1 DEF Submit
<1>2. ASSUME NEW o \in Orders, Decide(o) PROVE Inv'
  BY <1>2 DEF Decide
<1>3. ASSUME NEW S \in SUBSET Orders, End(S) PROVE Inv'
  BY <1>3 DEF End
<1>4. ASSUME NEW S \in SUBSET Orders, NEW t \in {"working", "ended"}, Learn(S, t)
      PROVE  Inv'
  BY <1>4 DEF Learn
<1>5. CASE UNCHANGED vars
  BY <1>5 DEF vars
<1> QED BY <1>1, <1>2, <1>3, <1>4, <1>5 DEF Next

\* What keeps the promise never tells the server of an order what it is not, and
\* was not.
THEOREM ToldTrue == Spec \/ SubmittedSpec => [](TypeOK /\ Truthful)
<1>1. Inv <=> TypeOK /\ Truthful
  BY DEF Inv
<1> QED BY <1>1, Started, Inductive, PTL DEF Spec, SubmittedSpec
=============================================================================
