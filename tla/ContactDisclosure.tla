--------------------------- MODULE ContactDisclosure ---------------------------
(***************************************************************************)
(* What the work queue promises about contact data, leaving out how: an    *)
(* agent is shown one open contact at a time, a contact is shown to one    *)
(* agent at a time, a closed contact is shown to nobody, and once a person *)
(* has asked not to be called every contact with that number is closed.    *)
(* WorkItems implements this specification (DisclosureSpec there).         *)
(***************************************************************************)
CONSTANTS Agents, Items, Phones, NoAgent, PhoneOf

VARIABLES
  holder,  \* the agent a contact is disclosed to
  closed,  \* contacts that are finished
  barred   \* phones on the do-not-call list

dvars == <<holder, closed, barred>>

Init ==
  /\ holder = [i \in Items |-> NoAgent]
  /\ closed = {}
  /\ barred = {}

Disclose(a, i) ==
  /\ i \notin closed
  /\ PhoneOf[i] \notin barred
  /\ holder[i] = NoAgent
  /\ \A j \in Items : holder[j] # a
  /\ holder' = [holder EXCEPT ![i] = a]
  /\ UNCHANGED <<closed, barred>>

\* A sweep takes several contacts back at once.
Withdraw(S) ==
  /\ holder' = [i \in Items |-> IF i \in S THEN NoAgent ELSE holder[i]]
  /\ UNCHANGED <<closed, barred>>

Close(i) ==
  /\ i \notin closed
  /\ closed' = closed \cup {i}
  /\ holder' = [holder EXCEPT ![i] = NoAgent]
  /\ UNCHANGED barred

\* The request comes from a person an agent is talking to.
Bar(i) ==
  LET same == {j \in Items : PhoneOf[j] = PhoneOf[i]} IN
  /\ holder[i] # NoAgent
  /\ barred' = barred \cup {PhoneOf[i]}
  /\ closed' = closed \cup same
  /\ holder' = [j \in Items |-> IF j \in same THEN NoAgent ELSE holder[j]]

Next ==
  \/ \E a \in Agents, i \in Items : Disclose(a, i)
  \/ \E S \in SUBSET Items : Withdraw(S)
  \/ \E i \in Items : Close(i) \/ Bar(i)

Spec == Init /\ [][Next]_dvars

=============================================================================
