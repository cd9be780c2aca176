------------------------------ MODULE CashuRetry ------------------------------
(***************************************************************************)
(* What a client of CashuAdmission can count on once faults cease: from    *)
(* some moment on nothing crashes and no request is cancelled.             *)
(***************************************************************************)
EXTENDS CashuAdmission

\* Faults cease, requests make progress, the mint answers, and clients keep
\* retrying.  Strong fairness of a retry: try_lock does not queue, so a client
\* is assumed not to meet a busy wallet for ever.
Fairness ==
  /\ <>[][Progress]_vars
  /\ \A r \in Requests : WF_vars(Collect(r))
  /\ \A t \in Tokens : WF_vars(MintSwap(t))
  /\ \A t \in Tokens, c \in Terms : SF_vars(Retry(t, c))

RetrySpec == Spec /\ Fairness

(***************************************************************************)
(* An interrupted payment can be retried: once the mint has swapped a      *)
(* reserved token for its price, retries of the token under the same terms *)
(* end with its claim, unless the attempt was used up already.             *)
(***************************************************************************)
RetrySucceeds ==
  \A t \in Tokens :
    (ledger[t].term # NoTerm
       /\ (completed[t] >= Price[ledger[t].term]
             \/ (t \in swapped /\ saga[t] >= Price[ledger[t].term])))
    ~> ledger[t].claimed
===============================================================================
