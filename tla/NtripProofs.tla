------------------------------ MODULE NtripProofs ------------------------------
(***************************************************************************)
(* Proofs about the NTRIP client for every configuration and every set of *)
(* sourcetables: Connect fails only with the error of its last attempt or *)
(* with the context's, never holding a Client.  Both rest on ConnInv.      *)
(***************************************************************************)
EXTENDS Ntrip, TLAPS

\* ConnInv holds initially.
LEMMA InitConnInv == Init => ConnInv
<1> SUFFICES ASSUME Init PROVE ConnInv
  OBVIOUS
<1>1. /\ maxAttempts = 0 /\ attempts = 0 /\ client = FALSE /\ ctxDone = FALSE
      /\ conn = "idle" /\ err = "nil" /\ connRet = "none"
  BY DEF Init
<1>2. ConnTypeOK
  <2>1. maxAttempts \in Int /\ attempts \in Nat
    BY <1>1
  <2>2. client \in BOOLEAN /\ ctxDone \in BOOLEAN
    BY <1>1, Zenon
  <2>3. conn \in {"idle", "loop", "done"} /\ err \in {"nil", "dial"}
        /\ connRet \in {"none", "nil", "dial", "ctx"}
    BY <1>1
  <2>4. QED
    BY <2>1, <2>2, <2>3 DEF ConnTypeOK
<1>3. ConnectFailureIsLastError
  BY <1>1 DEF ConnectFailureIsLastError
<1>4. conn \in {"idle", "loop"} => ~client /\ connRet = "none"
  BY <1>1
<1>5. conn = "loop" => /\ err = "dial" <=> attempts > 0
                       /\ attempts > 0 => attempts <= maxAttempts
  BY <1>1
<1>6. conn = "done" => connRet # "none"
  BY <1>1
<1>7. info # "ready" => conn = "idle"
  BY <1>1
<1>9. info = "ready" => maxAttempts # 0
  BY DEF Init
<1>8. QED
  BY <1>2, <1>3, <1>4, <1>5, <1>6, <1>7, <1>9 DEF ConnInv

\* Connect's loop step preserves ConnInv.
LEMMA ConnectStepConnInv == ConnInv /\ ConnectStep => ConnInv'
<1> SUFFICES ASSUME ConnInv, ConnectStep PROVE ConnInv'
  OBVIOUS
<1> USE DEF ConnInv, ConnTypeOK, ConnectFailureIsLastError
<1>0. conn = "loop" /\ info = "ready"
  BY DEF ConnectStep
<1> USE <1>0
<1>1. CASE attempts >= maxAttempts
  \* The loop exits and returns err: a dial error only after an attempt,
  \* and then attempts = maxAttempts.
  <2>1. conn' = "done" /\ connRet' = err /\ UNCHANGED <<client, attempts, err>>
    BY <1>1 DEF ConnectStep
  <2>2. err = "dial" => attempts = maxAttempts
    BY <1>1 DEF ConnectStep
  <2>3. QED
    BY <2>1, <2>2 DEF ConnectStep
<1>2. CASE attempts < maxAttempts /\ ctxDone
  BY <1>2 DEF ConnectStep
<1>3. CASE attempts < maxAttempts /\ ~ctxDone
  <2>1. \/ client' = TRUE /\ conn' = "done" /\ connRet' = "nil"
           /\ UNCHANGED <<attempts, err>>
        \/ err' = "dial" /\ attempts' = attempts + 1
           /\ UNCHANGED <<client, conn, connRet>>
    BY <1>3 DEF ConnectStep
  <2>2. UNCHANGED <<info, maxAttempts, ctxDone>>
    BY DEF ConnectStep
  <2>3. client' \in BOOLEAN /\ ctxDone' \in BOOLEAN
    BY <2>1, <2>2, Zenon
  <2>4. CASE client' = TRUE /\ conn' = "done" /\ connRet' = "nil"
             /\ UNCHANGED <<attempts, err>>
    BY <2>2, <2>3, <2>4
  <2>5. CASE err' = "dial" /\ attempts' = attempts + 1
             /\ UNCHANGED <<client, conn, connRet>>
    BY <1>3, <2>2, <2>5 DEF ConnectStep
  <2>6. QED
    BY <2>1, <2>4, <2>5
<1>4. QED
  BY <1>1, <1>2, <1>3

\* Every step preserves ConnInv.
LEMMA NextConnInv == ConnInv /\ [Next]_vars => ConnInv'
<1> SUFFICES ASSUME ConnInv, [Next]_vars PROVE ConnInv'
  OBVIOUS
<1>0. client' \in BOOLEAN /\ ctxDone' \in BOOLEAN
  BY Zenon DEF ConnInv, ConnTypeOK, Next, vars, NewNtripInfo, Cancel, ConnectCall,
               ConnectStep, ParseCall, ScanStop, ScanNext, HasStream, connVars, parseVars
<1> USE <1>0 DEF ConnInv, ConnTypeOK, ConnectFailureIsLastError, connVars, parseVars
<1>1. CASE NewNtripInfo
  <2>1. conn = "idle" /\ UNCHANGED <<client, conn, connRet, attempts, err>>
    BY <1>1 DEF NewNtripInfo
  <2>2. maxAttempts' \in Int /\ (info' = "ready" => maxAttempts' # 0)
    BY <1>1, AttemptInputsAssumption DEF NewNtripInfo, DefaultAttempts
  <2>3. QED
    BY <2>1, <2>2
<1>2. CASE Cancel
  BY <1>2 DEF Cancel
<1>3. CASE ConnectCall
  BY <1>3 DEF ConnectCall
<1>4. CASE ConnectStep
  BY <1>4, ConnectStepConnInv
<1>5. CASE ParseCall
  BY <1>5 DEF ParseCall
<1>6. CASE ScanStop
  BY <1>6 DEF ScanStop
<1>7. CASE ScanNext
  BY <1>7 DEF ScanNext
<1>8. ASSUME NEW mp \in MountPoints, HasStream(mp) PROVE ConnInv'
  BY <1>8 DEF HasStream
<1>9. CASE UNCHANGED vars
  BY <1>9 DEF vars
<1>10. QED
  BY <1>1, <1>2, <1>3, <1>4, <1>5, <1>6, <1>7, <1>8, <1>9 DEF Next

(***************************************************************************)
(* Connect's comment, for every value of ntrip_connect_attempts: a dial    *)
(* error is returned only after exactly MaxConnectAttempts failed attempts *)
(* and a context error only once the context is done, in both cases with  *)
(* no Client set.                                                          *)
(***************************************************************************)
THEOREM ConnectErrorSafety == Spec => []ConnectFailureIsLastError
<1>1. ConnInv => ConnectFailureIsLastError
  BY DEF ConnInv
<1>2. QED
  BY <1>1, InitConnInv, NextConnInv, PTL DEF Spec

(***************************************************************************)
(* With no negative ntrip_connect_attempts setting, a configuration        *)
(* NewNtripInfo accepts makes at least one attempt: 0 is replaced by the   *)
(* default.                                                                *)
(***************************************************************************)
PosInv == ConnInv /\ (info = "ready" => maxAttempts > 0)

LEMMA InitPosInv == Init => PosInv
BY InitConnInv DEF PosInv, Init

LEMMA NextPosInv ==
    ASSUME AttemptInputs \subseteq Nat
    PROVE  PosInv /\ [Next]_vars => PosInv'
<1> SUFFICES ASSUME PosInv, [Next]_vars PROVE PosInv'
  OBVIOUS
<1>1. ConnInv'
  BY NextConnInv DEF PosInv
<1>2. CASE NewNtripInfo
  <2>1. PICK urlEmpty \in BOOLEAN, a \in AttemptInputs :
          IF urlEmpty
          THEN info' = "invalid" /\ UNCHANGED maxAttempts
          ELSE info' = "ready" /\ maxAttempts' = IF a = 0 THEN DefaultAttempts ELSE a
    BY <1>2 DEF NewNtripInfo
  <2>2. a \in Nat
    OBVIOUS
  <2>3. QED
    BY <1>1, <2>1, <2>2 DEF PosInv, DefaultAttempts
<1>3. CASE ~NewNtripInfo
  <2>1. UNCHANGED <<info, maxAttempts>>
    BY <1>3 DEF Next, vars, Cancel, ConnectCall, ConnectStep, ParseCall,
                ScanStop, ScanNext, HasStream
  <2>2. QED
    BY <1>1, <2>1 DEF PosInv
<1>4. QED
  BY <1>2, <1>3

\* The client's initial state is NtripConnect's.
LEMMA InitRefines == Init => AbstractConnect!Init
BY DEF Init, AbstractConnect!Init

\* A step that leaves the connection and the context alone is a stutter of
\* NtripConnect.
LEMMA ConnStutter ==
    ASSUME UNCHANGED <<info, client, conn, connRet, ctxDone>>
    PROVE  UNCHANGED AbstractConnect!avars
BY DEF AbstractConnect!avars

(***************************************************************************)
(* Each step of the client is a step or a stutter of NtripConnect: the     *)
(* loop's returning step is Connect, with an outcome the contract allows   *)
(* because the loop runs at least once; the call, a failed dial and every  *)
(* parsing step leave what the caller sees unchanged.                      *)
(***************************************************************************)
LEMMA NextRefines ==
    PosInv /\ [Next]_vars => [AbstractConnect!Next]_AbstractConnect!avars
<1> SUFFICES ASSUME PosInv, [Next]_vars
             PROVE  [AbstractConnect!Next]_AbstractConnect!avars
  OBVIOUS
<1> USE DEF PosInv, ConnInv, ConnTypeOK
<1>1. CASE NewNtripInfo
  <2>1. info' \in {"invalid", "ready"}
    BY <1>1 DEF NewNtripInfo
  <2>2. info = "none" /\ UNCHANGED <<client, conn, connRet, ctxDone>>
    BY <1>1 DEF NewNtripInfo, connVars
  <2>3. QED
    BY <2>1, <2>2 DEF AbstractConnect!Next, AbstractConnect!Configure
<1>2. CASE Cancel
  BY <1>2 DEF Cancel, connVars, AbstractConnect!Next, AbstractConnect!Cancel
<1>3. CASE ConnectCall
  BY <1>3 DEF ConnectCall, AbstractConnect!avars
<1>4. CASE ConnectStep
  <2>1. /\ conn = "loop" /\ info = "ready" /\ maxAttempts > 0
        /\ ~client /\ connRet = "none"
        /\ (err = "dial" <=> attempts > 0)
        /\ UNCHANGED <<info, ctxDone>>
    BY <1>4 DEF ConnectStep
  <2>2. CASE attempts >= maxAttempts
    \* The loop exits with the last dial error: an attempt was made.
    <3>1. conn' = "done" /\ connRet' = err /\ UNCHANGED client
      BY <1>4, <2>2 DEF ConnectStep
    <3>2. err = "dial"
      BY <2>1, <2>2
    <3>3. QED
      BY <2>1, <3>1, <3>2 DEF AbstractConnect!Next, AbstractConnect!Connect
  <2>3. CASE attempts < maxAttempts /\ ctxDone
    <3>1. conn' = "done" /\ connRet' = "ctx" /\ UNCHANGED client
      BY <1>4, <2>3 DEF ConnectStep
    <3>2. QED
      BY <2>1, <2>3, <3>1 DEF AbstractConnect!Next, AbstractConnect!Connect
  <2>4. CASE attempts < maxAttempts /\ ~ctxDone
    <3>1. \/ client' = TRUE /\ conn' = "done" /\ connRet' = "nil"
          \/ conn' = conn /\ connRet' = connRet /\ client' = client
      BY <1>4, <2>4 DEF ConnectStep
    <3>2. CASE client' = TRUE /\ conn' = "done" /\ connRet' = "nil"
      BY <2>1, <2>4, <3>2 DEF AbstractConnect!Next, AbstractConnect!Connect
    <3>3. CASE conn' = conn /\ connRet' = connRet /\ client' = client
      BY <2>1, <3>3 DEF AbstractConnect!avars
    <3>4. QED
      BY <3>1, <3>2, <3>3
  <2>5. QED
    BY <2>2, <2>3, <2>4
<1>5. CASE ParseCall
  BY <1>5, ConnStutter DEF ParseCall, connVars
<1>6. CASE ScanStop
  BY <1>6, ConnStutter DEF ScanStop, connVars
<1>7. CASE ScanNext
  BY <1>7, ConnStutter DEF ScanNext, connVars
<1>8. ASSUME NEW mp \in MountPoints, HasStream(mp)
      PROVE  [AbstractConnect!Next]_AbstractConnect!avars
  BY <1>8, ConnStutter DEF HasStream, connVars
<1>9. CASE UNCHANGED vars
  BY <1>9, ConnStutter DEF vars, connVars
<1>10. QED
  BY <1>1, <1>2, <1>3, <1>4, <1>5, <1>6, <1>7, <1>8, <1>9 DEF Next

(***************************************************************************)
(* For every set of ntrip_connect_attempts settings none of which is       *)
(* negative, the client implements the contract of Connect's comment: it   *)
(* returns nil only with n.Client set, and otherwise the last dial error   *)
(* or the context's error, in one step whatever the retry loop does in     *)
(* between.  It rests on the default that replaces a 0 setting.           *)
(***************************************************************************)
THEOREM ConnectRefines ==
    AttemptInputs \subseteq Nat => (Spec => ConnectRefinement)
<1> SUFFICES ASSUME AttemptInputs \subseteq Nat PROVE Spec => ConnectRefinement
  OBVIOUS
<1>1. PosInv /\ [Next]_vars => PosInv'
  BY NextPosInv
<1>2. QED
  BY <1>1, InitPosInv, InitRefines, NextRefines, PTL
     DEF Spec, ConnectRefinement, AbstractConnect!Spec
=============================================================================
