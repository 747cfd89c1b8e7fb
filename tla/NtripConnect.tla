---------------------------- MODULE NtripConnect ----------------------------
(***************************************************************************)
(* What Connect's comment promises its caller, with the retry loop hidden: *)
(* "Connect attempts to initialize a new ntrip client.  If we're unable to *)
(* connect after multiple attempts, we return the last error."  Once       *)
(* NewNtripInfo has accepted a configuration, one call of Connect returns, *)
(* in a single step, one of                                                *)
(*   - nil, with n.Client set by a dial that succeeded;                    *)
(*   - the last dial error, without a Client;                              *)
(*   - the context's error, once the context is done, without a Client.    *)
(***************************************************************************)
EXTENDS Integers

VARIABLES
    info,         \* "none", "ready" or "invalid"
    client,       \* whether n.Client is set
    status,       \* "idle" until Connect has returned, then "done"
    result,       \* what Connect returned, "none" before
    ctxDone       \* whether the caller's context is done

avars == <<info, client, status, result, ctxDone>>

Init ==
    /\ info = "none" /\ client = FALSE
    /\ status = "idle" /\ result = "none" /\ ctxDone = FALSE

Configure ==
    /\ info = "none"
    /\ info' \in {"invalid", "ready"}
    /\ UNCHANGED <<client, status, result, ctxDone>>

Cancel ==
    /\ ~ctxDone /\ ctxDone' = TRUE
    /\ UNCHANGED <<info, client, status, result>>

Connect ==
    /\ info = "ready" /\ status = "idle"
    /\ status' = "done"
    /\ \/ result' = "nil" /\ client' = TRUE /\ ~ctxDone
       \/ result' = "dial" /\ UNCHANGED client
       \/ result' = "ctx" /\ ctxDone /\ UNCHANGED client
    /\ UNCHANGED <<info, ctxDone>>

Next == Configure \/ Cancel \/ Connect

Spec == Init /\ [][Next]_avars
=============================================================================
