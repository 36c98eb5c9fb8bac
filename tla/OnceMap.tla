------------------------------- MODULE OnceMap -------------------------------
(***************************************************************************)
(* What a single-flight cache promises its clients: a map written at most  *)
(* once per key, by a client that asked for that key, and every client     *)
(* that asks is answered with what the map holds.                          *)
(***************************************************************************)
CONSTANTS Clients, Keys, Values, Unset, NoKey

VARIABLES
  value,   \* the map
  asked,   \* the key a client is waiting for, or NoKey
  answer   \* the last answer of each client

onceVars == <<value, asked, answer>>

Init ==
  /\ value = [k \in Keys |-> Unset]
  /\ asked = [c \in Clients |-> NoKey]
  /\ answer = [c \in Clients |-> Unset]

Ask(c, k) ==
  /\ asked[c] = NoKey
  /\ asked' = [asked EXCEPT ![c] = k]
  /\ answer' = [answer EXCEPT ![c] = Unset]
  /\ UNCHANGED value

(* One of the clients asking for a key settles its value, for good. *)
Settle(c, v) ==
  /\ asked[c] # NoKey
  /\ value[asked[c]] = Unset
  /\ value' = [value EXCEPT ![asked[c]] = v]
  /\ asked' = [asked EXCEPT ![c] = NoKey]
  /\ answer' = [answer EXCEPT ![c] = v]

Answer(c) ==
  /\ asked[c] # NoKey
  /\ value[asked[c]] # Unset
  /\ answer' = [answer EXCEPT ![c] = value[asked[c]]]
  /\ asked' = [asked EXCEPT ![c] = NoKey]
  /\ UNCHANGED value

Next ==
  \E c \in Clients :
    \/ \E k \in Keys : Ask(c, k)
    \/ \E v \in Values : Settle(c, v)
    \/ Answer(c)

Spec == Init /\ [][Next]_onceVars
=============================================================================
