--------------------------- MODULE OneShotRequests ---------------------------
(* What a dapp may conclude from the answer to a request it made of a wallet in another document
   (docs of WriteOutcome, packages/provider): each is answered once, a success means the wallet did
   it, and `not-submitted` that it never did and never will.  Any other failure says nothing: the
   wallet may have done it, or still do it. *)
CONSTANT Requests

VARIABLES
  answer,  \* of each request: "none" before it is made, "open", then what the dapp is told
  done     \* the requests the wallet carried out

Answers == {"ok", "not-submitted", "unknown"}

Init == answer = [r \in Requests |-> "none"] /\ done = {}

Ask(r) ==
  /\ answer[r] = "none"
  /\ answer' = [answer EXCEPT ![r] = "open"] /\ UNCHANGED done

\* The wallet may be late, but never after it was said not to have done it.
CarryOut(r) ==
  /\ r \notin done /\ answer[r] \in {"open", "unknown"}
  /\ done' = done \cup {r} /\ UNCHANGED answer

\* Several requests may be answered by one event, such as the end of the popup.
Answer(told) ==
  /\ \A r \in told : answer[r] \in {"none", "open"}
  /\ \E a \in [told -> Answers] :
       /\ \A r \in told : /\ a[r] = "ok" => r \in done
                          /\ a[r] = "not-submitted" => r \notin done
       /\ answer' = [r \in Requests |-> IF r \in told THEN a[r] ELSE answer[r]]
  /\ UNCHANGED done

Next == (\E r \in Requests : Ask(r) \/ CarryOut(r)) \/ (\E told \in SUBSET Requests : Answer(told))
Spec == Init /\ [][Next]_<<answer, done>>
=============================================================================
