----------------------------- MODULE RequestWait -----------------------------
(***************************************************************************)
(* What RequestReplyClient promises about the wait of one request after    *)
(* another ("End of the wait"): it ends once, for one reason; replies are   *)
(* handed over before that only; and the reason is handed over, once, if    *)
(* it is a timeout, close() or a lost connection, and is not otherwise.     *)
(* RequestReply implements this specification (see Implements there).       *)
(***************************************************************************)
EXTENDS Naturals

CONSTANT Request

(* ReplyStatus without REPLY, and the other reasons why a wait ends without a
   reply that is enough: cancel_request, a failure of send_request. *)
Status == {"timed_out", "closed", "connection_lost"}
Reason == Status \cup {"cancelled", "failed"}

VARIABLES
  wait,     \* wait[r]: "none", "open" or "over"
  why,      \* why[r]: the reason why it is over
  replying, \* the requests whose callback is handling a reply
  said      \* the requests whose callback has been called with the reason

vars == <<wait, why, replying, said>>

-----------------------------------------------------------------------------
Init ==
  /\ wait = [r \in Request |-> "none"]
  /\ why = [r \in Request |-> "none"]
  /\ replying = {}
  /\ said = {}

Begin(r) ==
  /\ wait[r] = "none"
  /\ wait' = [wait EXCEPT ![r] = "open"]
  /\ UNCHANGED <<why, replying, said>>

(* A wait that cannot even begin is over at once. *)
End(r, reason) ==
  /\ wait[r] = "open" \/ (wait[r] = "none" /\ reason = "failed")
  /\ wait' = [wait EXCEPT ![r] = "over"]
  /\ why' = [why EXCEPT ![r] = reason]
  /\ UNCHANGED <<replying, said>>

(* The callback is called with a reply, ... *)
Answer(r) ==
  /\ wait[r] = "open"
  /\ replying' = replying \cup {r}
  /\ UNCHANGED <<wait, why, said>>

(* ... and returns, maybe long after the end; a reply may be enough. *)
Answered(r) ==
  /\ r \in replying
  /\ replying' = replying \ {r}
  /\ \/ wait[r] = "open"
        /\ wait' = [wait EXCEPT ![r] = "over"]
        /\ why' = [why EXCEPT ![r] = "replied"]
     \/ UNCHANGED <<wait, why>>
  /\ UNCHANGED said

Say(r) ==
  /\ wait[r] = "over" /\ why[r] \in Status
  /\ r \notin said
  /\ said' = said \cup {r}
  /\ UNCHANGED <<wait, why, replying>>

Next ==
  \E r \in Request :
    \/ Begin(r) \/ Answer(r) \/ Answered(r) \/ Say(r)
    \/ \E reason \in Reason : End(r, reason)

(* The reason is not kept from the caller for ever. *)
Spec == Init /\ [][Next]_vars /\ \A r \in Request : WF_vars(Say(r))
=============================================================================
