----------------------------- MODULE PJONDelivery -----------------------------
(***************************************************************************)
(* What acknowledged PJON transmission promises, message by message: a     *)
(* message the sender takes is pending until it is confirmed or given up;  *)
(* it reaches the recipient's receiver function at most once; and one that *)
(* asks for an acknowledgement is confirmed only after it got there.  A    *)
(* message given up may have arrived, or may arrive yet.                   *)
(***************************************************************************)

CONSTANTS
  Msgs,     \* the messages
  Acked     \* those that ask for an acknowledgement

VARIABLES
  status,   \* what the sender knows of each message
  copies    \* how often the recipient's receiver function was given each

vars == <<status, copies>>

Init ==
  /\ status = [m \in Msgs |-> "new"]
  /\ copies = [m \in Msgs |-> 0]

Take(m) ==
  /\ status[m] = "new"
  /\ status' = [status EXCEPT ![m] = "pending"]
  /\ UNCHANGED copies

Arrive(m) ==
  /\ status[m] # "new" /\ copies[m] = 0
  /\ copies' = [copies EXCEPT ![m] = 1]
  /\ UNCHANGED status

Confirm(m) ==
  /\ status[m] = "pending" /\ (m \in Acked => copies[m] = 1)
  /\ status' = [status EXCEPT ![m] = "confirmed"]
  /\ UNCHANGED copies

GiveUp(m) ==
  /\ status[m] = "pending"
  /\ status' = [status EXCEPT ![m] = "lost"]
  /\ UNCHANGED copies

Next == \E m \in Msgs : Take(m) \/ Arrive(m) \/ Confirm(m) \/ GiveUp(m)

Spec == Init /\ [][Next]_vars
=============================================================================
