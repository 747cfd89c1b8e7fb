-------------------------------- MODULE Ntrip --------------------------------
(***************************************************************************)
(* The NTRIP correction-source client of rtkutils (ntrip.go): NewNtripInfo *)
(* validates a configuration, Connect retries ntrip.NewClient up to        *)
(* MaxConnectAttempts times unless the context is done, ParseSourcetable   *)
(* reads the caster's sourcetable line by line, and HasStream looks a      *)
(* mountpoint up in the parsed streams.                                    *)
(*                                                                         *)
(* A sourcetable line is a record: its first field (kind), and for an STR *)
(* line its mountpoint, its number of ';'-separated fields, whether the    *)
(* numeric fields parse, whether the bitrate parses and its value, and the *)
(* fee field.  The caster, the dialler and the reader are inputs.          *)
(***************************************************************************)
EXTENDS Integers, Sequences, SequencesExt

CONSTANTS
    AttemptInputs,   \* values of ntrip_connect_attempts in a configuration
    MountPoints,     \* mountpoint names
    Tables           \* sourcetables the caster may send: sequences of lines

\* The default of NewNtripInfo for a zero ntrip_connect_attempts.
DefaultAttempts == 10

ASSUME AttemptInputsAssumption == AttemptInputs \subseteq Int

\* A sourcetable line: its first field, and what parseStream reads of it.
Line == [kind : STRING, mp : MountPoints \cup {"none"}, nfields : Int,
         numeric : BOOLEAN, rateOk : BOOLEAN, rate : Int, fee : STRING]

ASSUME TablesAssumption == Tables \subseteq Seq(Line)

VARIABLES
    info,         \* NewNtripInfo's outcome: "none", "invalid" or "ready"
    maxAttempts,  \* n.MaxConnectAttempts
    client,       \* n.Client # nil
    conn,         \* Connect: "idle", "loop" (in the for loop) or "done"
    attempts,     \* Connect's loop counter
    err,          \* Connect's err variable: "nil" or "dial"
    connRet,      \* Connect's return value: "none", "nil", "dial" or "ctx"
    ctxDone,      \* ctx.Done() is closed
    parse,        \* ParseSourcetable: "idle", "scan" or "done"
    table,        \* the lines the reader delivers
    read,         \* the number of lines scanner.Scan has returned
    streams,      \* st.Streams
    parseRet,     \* "none", "ok", "err" or "panic" (nil Client dereferenced)
    hasArg,       \* the mountpoint of the last HasStream call
    hasRet        \* its result

vars == <<info, maxAttempts, client, conn, attempts, err, connRet, ctxDone,
          parse, table, read, streams, parseRet, hasArg, hasRet>>

NoStream == [mp |-> "none", fee |-> FALSE, bitrate |-> 0]

-----------------------------------------------------------------------------
(***************************************************************************)
(* parseStream: fewer than 19 fields, or a carrier, latitude, longitude,   *)
(* nmea or solution field that does not parse, is an error; a bitrate that *)
(* does not parse is 0; the fee is "Y" or not.                             *)
(***************************************************************************)
StreamParses(l) == l.nfields >= 19 /\ l.numeric

parseStream(l) ==
    [mp |-> l.mp, fee |-> l.fee = "Y",
     bitrate |-> IF l.rateOk THEN l.rate ELSE 0]

IsComment(l) == l.kind \in {"#", "*"}

\* Mutant: a run of the loop that does not stop at ENDSOURCETABLE.
ScanLineNoBreak(l) ==
    CASE IsComment(l) \/ l.kind \in {"CAS", "NET", "ENDSOURCETABLE"} -> "continue"
      [] l.kind = "STR" /\ StreamParses(l)                    -> "append"
      [] OTHER                                                 -> "error"

\* One iteration of ParseSourcetable's loop on line l: what it does next.
ScanLine(l) ==
    CASE IsComment(l) \/ l.kind \in {"CAS", "NET"} -> "continue"
      [] l.kind = "STR" /\ StreamParses(l)        -> "append"
      [] l.kind = "ENDSOURCETABLE"                -> "break"
      [] OTHER                                     -> "error"

\* Mutant: the loop keeps going and returns the last match.
FindStreamLast(mp) ==
    LET k == SelectLastInSeq(streams, LAMBDA s : s.mp = mp)
    IN  IF k = 0 THEN [found |-> FALSE, stream |-> NoStream]
        ELSE [found |-> TRUE, stream |-> streams[k]]

\* HasStream: the first stream whose MP is the mountpoint.
FindStream(mp) ==
    LET k == SelectInSeq(streams, LAMBDA s : s.mp = mp)
    IN  IF k = 0 THEN [found |-> FALSE, stream |-> NoStream]
        ELSE [found |-> TRUE, stream |-> streams[k]]

-----------------------------------------------------------------------------
Init ==
    /\ info = "none"
    /\ maxAttempts = 0
    /\ client = FALSE
    /\ conn = "idle"
    /\ attempts = 0
    /\ err = "nil"
    /\ connRet = "none"
    /\ ctxDone = FALSE
    /\ parse = "idle"
    /\ table = <<>>
    /\ read = 0
    /\ streams = <<>>
    /\ parseRet = "none"
    /\ hasArg = "none"
    /\ hasRet = [found |-> FALSE, stream |-> NoStream]

connVars == <<client, conn, attempts, err, connRet>>
parseVars == <<parse, table, read, streams, parseRet, hasArg, hasRet>>

\* NewNtripInfo: an empty URL is an error; ntrip_connect_attempts 0 means
\* the default, any other value (negative included) is kept.
NewNtripInfo ==
    /\ info = "none"
    /\ \E urlEmpty \in BOOLEAN, a \in AttemptInputs :
         IF urlEmpty
         THEN /\ info' = "invalid"
              /\ UNCHANGED maxAttempts
         ELSE /\ info' = "ready"
              /\ maxAttempts' = IF a = 0 THEN DefaultAttempts ELSE a
    /\ UNCHANGED <<connVars, ctxDone, parseVars>>

\* The caller's context is cancelled, at any time.
Cancel ==
    /\ ~ctxDone
    /\ ctxDone' = TRUE
    /\ UNCHANGED <<info, maxAttempts, connVars, parseVars>>

ConnectCall ==
    /\ info = "ready" /\ conn = "idle"
    /\ conn' = "loop" /\ attempts' = 0 /\ err' = "nil"
    /\ UNCHANGED <<info, maxAttempts, client, connRet, ctxDone, parseVars>>

\* Mutant: the loop condition attempts <= MaxConnectAttempts.
ConnectStepPastEnd ==
    /\ conn = "loop"
    /\ IF attempts > maxAttempts
       THEN /\ conn' = "done" /\ connRet' = err
            /\ UNCHANGED <<client, attempts, err>>
       ELSE IF ctxDone
       THEN /\ conn' = "done" /\ connRet' = "ctx"
            /\ UNCHANGED <<client, attempts, err>>
       ELSE \/ /\ client' = TRUE /\ conn' = "done" /\ connRet' = "nil"
               /\ UNCHANGED <<attempts, err>>
            \/ /\ err' = "dial" /\ attempts' = attempts + 1
               /\ UNCHANGED <<client, conn, connRet>>
    /\ UNCHANGED <<info, maxAttempts, ctxDone, parseVars>>

(***************************************************************************)
(* One iteration of Connect's for loop, or its exit: past the last attempt *)
(* it returns err (nil when no attempt was made); a done context returns   *)
(* ctx.Err(); otherwise ntrip.NewClient succeeds and sets n.Client, or     *)
(* fails and the loop goes on.                                             *)
(***************************************************************************)
ConnectStep ==
    /\ conn = "loop"
    /\ IF attempts >= maxAttempts
       THEN /\ conn' = "done" /\ connRet' = err
            /\ UNCHANGED <<client, attempts, err>>
       ELSE IF ctxDone
       THEN /\ conn' = "done" /\ connRet' = "ctx"
            /\ UNCHANGED <<client, attempts, err>>
       ELSE \/ /\ client' = TRUE /\ conn' = "done" /\ connRet' = "nil"
               /\ UNCHANGED <<attempts, err>>
            \/ /\ err' = "dial" /\ attempts' = attempts + 1
               /\ UNCHANGED <<client, conn, connRet>>
    /\ UNCHANGED <<info, maxAttempts, ctxDone, parseVars>>

(***************************************************************************)
(* ParseSourcetable, called once Connect has returned nil.  With a nil     *)
(* Client, n.Client.GetSourcetable() dereferences nil.  GetSourcetable may *)
(* fail; otherwise the scan starts over the caster's table.                *)
(***************************************************************************)
ParseCall ==
    /\ conn = "done" /\ connRet = "nil" /\ parse = "idle"
    /\ IF ~client
       THEN /\ parse' = "done" /\ parseRet' = "panic"
            /\ UNCHANGED <<table, read, streams>>
       ELSE \/ /\ parse' = "done" /\ parseRet' = "err"
               /\ UNCHANGED <<table, read, streams>>
            \/ \E t \in Tables :
                 /\ parse' = "scan" /\ table' = t /\ read' = 0
                 /\ streams' = <<>>
                 /\ UNCHANGED parseRet
    /\ UNCHANGED <<info, maxAttempts, connVars, ctxDone, hasArg, hasRet>>

(***************************************************************************)
(* scanner.Scan() returns false at the end of the table or on a read       *)
(* error, at any line; the loop then ends and the table read so far is     *)
(* returned with a nil error (scanner.Err() is not consulted).             *)
(***************************************************************************)
ScanStop ==
    /\ parse = "scan"
    /\ parse' = "done" /\ parseRet' = "ok"
    /\ UNCHANGED <<info, maxAttempts, connVars, ctxDone, table, read, streams,
                   hasArg, hasRet>>

\* scanner.Scan() returns the next line, and the loop body handles it.
ScanNext ==
    /\ parse = "scan" /\ read < Len(table)
    /\ LET l == table[read + 1] IN
       CASE ScanLine(l) = "continue" ->
              UNCHANGED <<parse, streams, parseRet>>
         [] ScanLine(l) = "append" ->
              /\ streams' = Append(streams, parseStream(l))
              /\ UNCHANGED <<parse, parseRet>>
         [] ScanLine(l) = "break" ->
              /\ parse' = "done" /\ parseRet' = "ok"
              /\ UNCHANGED streams
         [] ScanLine(l) = "error" ->
              /\ parse' = "done" /\ parseRet' = "err"
              /\ UNCHANGED streams
    /\ read' = read + 1
    /\ UNCHANGED <<info, maxAttempts, connVars, ctxDone, table, hasArg, hasRet>>

HasStream(mp) ==
    /\ parseRet = "ok"
    /\ hasArg' = mp
    /\ hasRet' = FindStream(mp)
    /\ UNCHANGED <<info, maxAttempts, connVars, ctxDone, parse, table, read,
                   streams, parseRet>>

Next ==
    \/ NewNtripInfo
    \/ Cancel
    \/ ConnectCall
    \/ ConnectStep
    \/ ParseCall
    \/ ScanStop
    \/ ScanNext
    \/ \E mp \in MountPoints : HasStream(mp)

Spec == Init /\ [][Next]_vars

-----------------------------------------------------------------------------
TypeOK ==
    /\ info \in {"none", "invalid", "ready"}
    /\ maxAttempts \in Int /\ attempts \in Nat
    /\ client \in BOOLEAN /\ ctxDone \in BOOLEAN
    /\ conn \in {"idle", "loop", "done"}
    /\ err \in {"nil", "dial"}
    /\ connRet \in {"none", "nil", "dial", "ctx"}
    /\ parse \in {"idle", "scan", "done"}
    /\ table \in Tables \cup {<<>>} /\ read \in 0..Len(table)
    /\ parseRet \in {"none", "ok", "err", "panic"}
    /\ hasArg \in MountPoints \cup {"none"}

(***************************************************************************)
(* Connect's comment: if it cannot connect after the attempts, it returns  *)
(* the last error.  A dial error is returned only after exactly            *)
(* MaxConnectAttempts failed attempts and without a Client; a context      *)
(* error only once the context is done, without a Client.                  *)
(***************************************************************************)
ConnectFailureIsLastError ==
    conn = "done" =>
        /\ connRet = "dial" => ~client /\ attempts = maxAttempts
        /\ connRet = "ctx" => ~client /\ ctxDone

(***************************************************************************)
(* The inductive invariant behind ConnectFailureIsLastError: inside the    *)
(* loop, err is a dial error exactly after a failed attempt and the count  *)
(* never passes MaxConnectAttempts once an attempt was made; no Client     *)
(* exists before Connect returns nil; Connect runs only on a valid info,   *)
(* whose attempt count is never 0.                                         *)
(***************************************************************************)
ConnTypeOK ==
    /\ maxAttempts \in Int /\ attempts \in Nat
    /\ client \in BOOLEAN /\ ctxDone \in BOOLEAN
    /\ conn \in {"idle", "loop", "done"}
    /\ err \in {"nil", "dial"}
    /\ connRet \in {"none", "nil", "dial", "ctx"}

ConnInv ==
    /\ ConnTypeOK
    /\ info # "ready" => conn = "idle"
    /\ info = "ready" => maxAttempts # 0
    /\ conn \in {"idle", "loop"} => ~client /\ connRet = "none"
    /\ conn = "loop" => /\ err = "dial" <=> attempts > 0
                        /\ attempts > 0 => attempts <= maxAttempts
    /\ conn = "done" => connRet # "none"
    /\ ConnectFailureIsLastError

(***************************************************************************)
(* What callers of Connect rely on before calling ParseSourcetable: a nil  *)
(* result means n.Client is set.                                           *)
(***************************************************************************)
ConnectedOnSuccess ==
    connRet = "nil" => client

(***************************************************************************)
(* The reference reading of a sourcetable: the lines read before           *)
(* ENDSOURCETABLE; they are all legal (comments, CAS, NET, parsable STR),  *)
(* and the streams are their STR lines, parsed, in order.                  *)
(***************************************************************************)
LinesRead == SubSeq(table, 1, read)
Body ==
    LET e == SelectInSeq(LinesRead, LAMBDA l : l.kind = "ENDSOURCETABLE")
    IN  IF e = 0 THEN LinesRead ELSE SubSeq(LinesRead, 1, e - 1)
Legal(l) ==
    IsComment(l) \/ l.kind \in {"CAS", "NET"} \/ (l.kind = "STR" /\ StreamParses(l))
StrIdx == {k \in 1..Len(Body) : Body[k].kind = "STR"}

\* pos enumerates the STR lines of Body in the caster's order.
StrOrder(pos) ==
    /\ pos \in [1..Len(streams) -> StrIdx]
    /\ \A a, b \in 1..Len(streams) : a < b => pos[a] < pos[b]
    /\ Range(pos) = StrIdx

(***************************************************************************)
(* ParseSourcetable succeeds exactly when every line it read before        *)
(* ENDSOURCETABLE is legal, and then its streams are the parsed STR lines  *)
(* of those, in the caster's order: the j-th stream is parsed from the     *)
(* j-th STR line.  (The table is <<>> when GetSourcetable failed and no    *)
(* line was scanned.)                                                      *)
(***************************************************************************)
SourcetableFaithful ==
    parse = "done" /\ table # <<>> =>
        /\ parseRet = "ok" <=> \A j \in 1..Len(Body) : Legal(Body[j])
        /\ parseRet = "ok" =>
             \E pos \in [1..Len(streams) -> StrIdx] :
                /\ StrOrder(pos)
                /\ \A j \in 1..Len(streams) : streams[j] = parseStream(Body[pos[j]])

(***************************************************************************)
(* Looking a mountpoint up after a successful parse: HasStream finds it    *)
(* exactly when an STR line for it came before the end of the table, and   *)
(* returns the stream of the first such line.                              *)
(***************************************************************************)
MountpointLookup ==
    parseRet = "ok" /\ hasArg # "none" =>
        LET ks == {k \in StrIdx : Body[k].mp = hasArg} IN
        /\ hasRet.found <=> ks # {}
        /\ hasRet.found =>
             \E k \in ks : /\ \A i \in ks : k <= i
                           /\ hasRet.stream = parseStream(Body[k])

(***************************************************************************)
(* Connect, seen from its caller: the retry loop is hidden (its iterations *)
(* are stutters) and the step that returns is NtripConnect's Connect.      *)
(* The client implements NtripConnect when no ntrip_connect_attempts     *)
(* setting is negative: Connect then returns nil only with a Client, and a *)
(* 0 setting is replaced by the default before the loop reads it.  A       *)
(* negative setting breaks it (see ConnectedOnSuccess).                    *)
(***************************************************************************)
AbstractConnect == INSTANCE NtripConnect
    WITH status <- IF conn = "done" THEN "done" ELSE "idle",
         result <- connRet

ConnectRefinement == AbstractConnect!Spec
=============================================================================
