--------------------------- MODULE AtomicCounter ----------------------------
(* What a thread safe counter promises: between the call and the return of *)
(* an operation there is one moment at which its amount is added.          *)
EXTENDS Integers

CONSTANTS Threads, Amounts, Word

VARIABLES value, phase, amount

avars == <<value, phase, amount>>

AInit == /\ value = 0
         /\ phase = [t \in Threads |-> "idle"]
         /\ amount = [t \in Threads |-> 0]

Invoke(t) ==
    /\ phase[t] = "idle"
    /\ phase' = [phase EXCEPT ![t] = "invoked"]
    /\ \E c \in Amounts : amount' = [amount EXCEPT ![t] = c]
    /\ UNCHANGED value

Apply(t) ==
    /\ phase[t] = "invoked"
    /\ phase' = [phase EXCEPT ![t] = "applied"]
    /\ value' = (value + amount[t]) % Word
    /\ UNCHANGED amount

Respond(t) ==
    /\ phase[t] = "applied"
    /\ phase' = [phase EXCEPT ![t] = "idle"]
    /\ amount' = [amount EXCEPT ![t] = 0]
    /\ UNCHANGED value

ANext == \E t \in Threads : Invoke(t) \/ Apply(t) \/ Respond(t)

ASpec == AInit /\ [][ANext]_avars
=============================================================================
