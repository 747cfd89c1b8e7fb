--------------------------- MODULE NtripParserProofs ---------------------------
(***************************************************************************)
(* Proofs about ParseSourcetable and HasStream for every set of            *)
(* sourcetables and mountpoints: a successful parse returns the STR lines  *)
(* before ENDSOURCETABLE, parsed and in order, and fails exactly on an     *)
(* illegal line; a lookup returns the first stream for its mountpoint.     *)
(***************************************************************************)
EXTENDS Ntrip, IndexLemmas, SequenceTheorems, TLAPS

\* The streams parseStream builds from lines.
Stream == [mp : MountPoints \cup {"none"}, fee : BOOLEAN, bitrate : Int]

\* None of the first n lines ends the table, and each of them is legal.
Clean(t, n) == \A k \in 1..n : t[k].kind # "ENDSOURCETABLE" /\ Legal(t[k])

\* The indices of the STR lines among the first n.
StrAmong(t, n) == {k \in 1..n : t[k].kind = "STR"}

\* The streams are the STR lines among the first n, parsed, in order.
Enum(s, t, n) ==
    \E pos \in [1..Len(s) -> 1..n] :
        /\ \A a, b \in 1..Len(s) : a < b => pos[a] < pos[b]
        /\ Range(pos) = StrAmong(t, n)
        /\ \A j \in 1..Len(s) : s[j] = parseStream(t[pos[j]])

\* The streams of s whose mountpoint is mp.
Found(s, mp) == {j \in 1..Len(s) : s[j].mp = mp}

\* r is the first stream of s for mp, if there is one.
Lookup(r, s, mp) ==
    /\ r.found <=> Found(s, mp) # {}
    /\ r.found =>
         \E j \in Found(s, mp) : /\ \A i \in Found(s, mp) : j <= i
                                 /\ r.stream = s[j]

(***************************************************************************)
(* The inductive invariant of the parser: while scanning, every line read  *)
(* is legal and none ends the table, and the streams are the STR lines     *)
(* read so far; a scan ends ok after such a prefix, possibly followed by   *)
(* ENDSOURCETABLE, and with an error on the first illegal line; HasStream  *)
(* runs only after a successful parse, whose streams no step changes.      *)
(***************************************************************************)
PInv ==
    /\ table \in Seq(Line) /\ read \in 0..Len(table) /\ streams \in Seq(Stream)
    /\ parse \in {"idle", "scan", "done"}
    /\ parseRet \in {"none", "ok", "err", "panic"}
    /\ parse = "idle" => table = <<>> /\ parseRet = "none"
    /\ parse = "scan" =>
         parseRet = "none" /\ Clean(table, read) /\ Enum(streams, table, read)
    /\ parseRet = "ok" =>
         /\ parse = "done"
         /\ \/ Clean(table, read) /\ Enum(streams, table, read)
            \/ /\ read >= 1 /\ Clean(table, read - 1) /\ Enum(streams, table, read - 1)
               /\ table[read].kind = "ENDSOURCETABLE"
    /\ parseRet = "err" /\ table # <<>> =>
         /\ read >= 1 /\ Clean(table, read - 1)
         /\ ~Legal(table[read]) /\ table[read].kind # "ENDSOURCETABLE"
    /\ parse = "done" /\ table # <<>> => parseRet \in {"ok", "err"}
    /\ parseRet # "ok" => hasArg = "none"
    /\ parseRet = "ok" /\ hasArg # "none" => Lookup(hasRet, streams, hasArg)

\* ScanLine's four outcomes, by the kind and legality of the line.
LEMMA ScanLineCases ==
    ASSUME NEW l
    PROVE  /\ ScanLine(l) \in {"continue", "append", "break", "error"}
           /\ ScanLine(l) = "continue" =>
                Legal(l) /\ l.kind # "STR" /\ l.kind # "ENDSOURCETABLE"
           /\ ScanLine(l) = "append" => Legal(l) /\ l.kind = "STR"
           /\ ScanLine(l) = "break" => l.kind = "ENDSOURCETABLE"
           /\ ScanLine(l) = "error" => ~Legal(l) /\ l.kind # "ENDSOURCETABLE"
BY DEF ScanLine, Legal, IsComment

\* parseStream builds a Stream from a Line.
LEMMA ParseStreamType ==
    ASSUME NEW l \in Line
    PROVE  parseStream(l) \in Stream
BY DEF parseStream, Line, Stream

\* No stream has been read from no line.
LEMMA EnumEmpty ==
    ASSUME NEW t
    PROVE  Enum(<<>>, t, 0)
<1>1. Len(<<>>) = 0
  OBVIOUS
<1>2. <<>> \in [1..0 -> 1..0] /\ Range(<<>>) = {} /\ StrAmong(t, 0) = {}
  BY DEF Range, StrAmong
<1>3. /\ \A a, b \in 1..0 : a < b => <<>>[a] < <<>>[b]
      /\ \A j \in 1..0 : <<>>[j] = parseStream(t[<<>>[j]])
  OBVIOUS
<1>4. QED
  BY <1>1, <1>2, <1>3 DEF Enum

\* A line that is not STR adds no stream.
LEMMA EnumSkip ==
    ASSUME NEW s \in Seq(Stream), NEW t, NEW n \in Nat, Enum(s, t, n),
           t[n + 1].kind # "STR"
    PROVE  Enum(s, t, n + 1)
<1>1. PICK pos \in [1..Len(s) -> 1..n] :
        /\ \A a, b \in 1..Len(s) : a < b => pos[a] < pos[b]
        /\ Range(pos) = StrAmong(t, n)
        /\ \A j \in 1..Len(s) : s[j] = parseStream(t[pos[j]])
  BY DEF Enum
<1>2. pos \in [1..Len(s) -> 1..n + 1]
  BY <1>1
<1>3. StrAmong(t, n + 1) = StrAmong(t, n)
  BY DEF StrAmong
<1>4. QED
  BY <1>1, <1>2, <1>3 DEF Enum

\* An STR line appends its stream as the last one.
LEMMA EnumAppend ==
    ASSUME NEW s \in Seq(Stream), NEW t, NEW n \in Nat, Enum(s, t, n),
           t[n + 1].kind = "STR", NEW e \in Stream, e = parseStream(t[n + 1])
    PROVE  Enum(Append(s, e), t, n + 1)
<1>1. PICK pos \in [1..Len(s) -> 1..n] :
        /\ \A a, b \in 1..Len(s) : a < b => pos[a] < pos[b]
        /\ Range(pos) = StrAmong(t, n)
        /\ \A j \in 1..Len(s) : s[j] = parseStream(t[pos[j]])
  BY DEF Enum
<1> DEFINE pos2 == [j \in 1..Len(s) + 1 |-> IF j <= Len(s) THEN pos[j] ELSE n + 1]
<1>2. Len(Append(s, e)) = Len(s) + 1 /\ Len(s) \in Nat
      /\ \A j \in 1..Len(s) : Append(s, e)[j] = s[j]
      /\ Append(s, e)[Len(s) + 1] = e
  BY AppendProperties
<1>3. pos2 \in [1..Len(Append(s, e)) -> 1..n + 1]
  BY <1>1, <1>2
<1>4. \A a, b \in 1..Len(Append(s, e)) : a < b => pos2[a] < pos2[b]
  BY <1>1, <1>2
<1>5. Range(pos2) = StrAmong(t, n + 1)
  <2>1. Range(pos2) = Range(pos) \cup {n + 1}
    BY <1>1, <1>2 DEF Range
  <2>2. StrAmong(t, n + 1) = StrAmong(t, n) \cup {n + 1}
    BY DEF StrAmong
  <2>3. QED
    BY <1>1, <2>1, <2>2
<1>6. \A j \in 1..Len(Append(s, e)) : Append(s, e)[j] = parseStream(t[pos2[j]])
  BY <1>1, <1>2
<1>7. QED
  BY <1>3, <1>4, <1>5, <1>6 DEF Enum

(***************************************************************************)
(* HasStream's FindStream returns the first stream for the mountpoint, or  *)
(* not found when there is none.                                           *)
(***************************************************************************)
LEMMA FindStreamFacts ==
    ASSUME streams \in Seq(Stream), NEW mp
    PROVE  Lookup(FindStream(mp), streams, mp)
<1> DEFINE I == Found(streams, mp)
<1>1. SelectInSeq(streams, LAMBDA x : x.mp = mp) = IF I # {} THEN Min(I) ELSE 0
  BY DEF SelectInSeq, Found
<1>2. CASE I = {}
  <2>1. FindStream(mp) = [found |-> FALSE, stream |-> NoStream]
    BY <1>1, <1>2 DEF FindStream
  <2>2. QED
    BY <1>2, <2>1 DEF Lookup
<1>3. CASE I # {}
  <2>1. I \in SUBSET Nat
    BY LenProperties DEF Found
  <2>2. Min(I) \in I /\ \A j \in I : Min(I) <= j
    BY <1>3, <2>1, MinIsLeast
  <2>3. Min(I) # 0
    BY <2>2 DEF Found
  <2>4. FindStream(mp) = [found |-> TRUE, stream |-> streams[Min(I)]]
    BY <1>1, <1>3, <2>3 DEF FindStream
  <2>5. QED
    BY <1>3, <2>2, <2>4 DEF Lookup
<1>4. QED
  BY <1>2, <1>3

\* PInv holds initially.
LEMMA InitPInv == Init => PInv
<1> SUFFICES ASSUME Init PROVE PInv
  OBVIOUS
<1>1. <<>> \in Seq(Line) /\ <<>> \in Seq(Stream)
  BY EmptySeq
<1>2. QED
  BY <1>1 DEF Init, PInv

\* The parser's variables are left alone by NewNtripInfo, Cancel and Connect.
LEMMA ParseFramePInv == PInv /\ UNCHANGED parseVars => PInv'
BY DEF PInv, parseVars

\* ParseCall either fails with no line read or starts the scan at line 0.
LEMMA ParseCallPInv == PInv /\ ParseCall => PInv'
<1> SUFFICES ASSUME PInv, ParseCall PROVE PInv'
  OBVIOUS
<1>1. parse = "idle" /\ table = <<>> /\ parseRet = "none" /\ hasArg = "none"
  BY DEF ParseCall, PInv
<1>2. CASE ~client
  BY <1>1, <1>2 DEF ParseCall, PInv
<1>3. CASE client /\ parse' = "done" /\ parseRet' = "err" /\ UNCHANGED <<table, read, streams>>
  BY <1>1, <1>3 DEF ParseCall, PInv
<1>4. ASSUME NEW t \in Tables, client,
             parse' = "scan", table' = t, read' = 0, streams' = <<>>,
             UNCHANGED parseRet
      PROVE  PInv'
  <2>1. t \in Seq(Line) /\ <<>> \in Seq(Stream)
    BY TablesAssumption, EmptySeq
  <2>2. Clean(t, 0) /\ Enum(<<>>, t, 0)
    BY EnumEmpty DEF Clean
  <2>3. UNCHANGED <<hasArg, hasRet>>
    BY DEF ParseCall
  <2>4. QED
    BY <1>1, <1>4, <2>1, <2>2, <2>3 DEF PInv
<1>5. QED
  BY <1>2, <1>3, <1>4 DEF ParseCall

\* ScanStop ends the scan ok after the clean prefix read so far.
LEMMA ScanStopPInv == PInv /\ ScanStop => PInv'
BY DEF ScanStop, PInv

(***************************************************************************)
(* ScanNext handles line read + 1: a comment, CAS or NET line is skipped,  *)
(* a parsable STR line appended, ENDSOURCETABLE ends the scan ok, and any  *)
(* other line ends it with an error.                                       *)
(***************************************************************************)
LEMMA ScanNextPInv == PInv /\ ScanNext => PInv'
<1> SUFFICES ASSUME PInv, ScanNext PROVE PInv'
  OBVIOUS
<1> DEFINE l == table[read + 1]
<1>1. /\ parse = "scan" /\ parseRet = "none" /\ hasArg = "none"
      /\ table \in Seq(Line) /\ read \in Nat /\ read + 1 \in 1..Len(table)
      /\ streams \in Seq(Stream)
      /\ Clean(table, read) /\ Enum(streams, table, read)
  BY DEF ScanNext, PInv
<1>2. /\ read' = read + 1 /\ UNCHANGED <<table, hasArg, hasRet>>
  BY DEF ScanNext
<1>3. l \in Line
  BY <1>1
<1>4. CASE ScanLine(l) = "continue"
  <2>1. UNCHANGED <<parse, streams, parseRet>>
    BY <1>4 DEF ScanNext
  <2>2. Legal(l) /\ l.kind # "STR" /\ l.kind # "ENDSOURCETABLE"
    BY <1>4, ScanLineCases
  <2>3. Clean(table, read + 1)
    BY <1>1, <2>2 DEF Clean
  <2>4. Enum(streams, table, read + 1)
    BY <1>1, <2>2, EnumSkip
  <2>5. QED
    BY <1>1, <1>2, <2>1, <2>3, <2>4 DEF PInv
<1>5. CASE ScanLine(l) = "append"
  <2>1. streams' = Append(streams, parseStream(l)) /\ UNCHANGED <<parse, parseRet>>
    BY <1>5 DEF ScanNext
  <2>2. Legal(l) /\ l.kind = "STR"
    BY <1>5, ScanLineCases
  <2>3. parseStream(l) \in Stream
    BY <1>3, ParseStreamType
  <2>4. Clean(table, read + 1)
    BY <1>1, <2>2 DEF Clean
  <2>5. Enum(Append(streams, parseStream(l)), table, read + 1)
    BY <1>1, <2>2, <2>3, EnumAppend
  <2>6. Append(streams, parseStream(l)) \in Seq(Stream)
    BY <1>1, <2>3, AppendProperties
  <2>7. QED
    BY <1>1, <1>2, <2>1, <2>4, <2>5, <2>6 DEF PInv
<1>6. CASE ScanLine(l) = "break"
  <2>1. parse' = "done" /\ parseRet' = "ok" /\ UNCHANGED streams
    BY <1>6 DEF ScanNext
  <2>2. l.kind = "ENDSOURCETABLE"
    BY <1>6, ScanLineCases
  <2>3. read' - 1 = read /\ read' >= 1 /\ read' \in 0..Len(table')
    BY <1>1, <1>2
  <2>4. table'[read'].kind = "ENDSOURCETABLE"
    BY <1>2, <2>2
  <2>5. Clean(table', read' - 1) /\ Enum(streams', table', read' - 1)
    BY <1>1, <1>2, <2>1, <2>3
  <2>6. QED
    BY <1>1, <1>2, <2>1, <2>3, <2>4, <2>5 DEF PInv
<1>7. CASE ScanLine(l) = "error"
  <2>1. parse' = "done" /\ parseRet' = "err" /\ UNCHANGED streams
    BY <1>7 DEF ScanNext
  <2>2. ~Legal(l) /\ l.kind # "ENDSOURCETABLE"
    BY <1>7, ScanLineCases
  <2>3. read' - 1 = read /\ read' >= 1 /\ read' \in 0..Len(table')
        /\ table' # <<>>
    BY <1>1, <1>2
  <2>4. ~Legal(table'[read']) /\ table'[read'].kind # "ENDSOURCETABLE"
    BY <1>2, <2>2
  <2>5. Clean(table', read' - 1)
    BY <1>1, <1>2, <2>3
  <2>6. QED
    BY <1>1, <1>2, <2>1, <2>3, <2>4, <2>5 DEF PInv
<1>8. QED
  BY <1>4, <1>5, <1>6, <1>7, ScanLineCases

\* HasStream runs on the streams of a successful parse and records FindStream.
LEMMA HasStreamPInv ==
    ASSUME PInv, NEW mp \in MountPoints, HasStream(mp) PROVE PInv'
<1>1. streams \in Seq(Stream)
  BY DEF PInv
<1>2. Lookup(FindStream(mp), streams, mp)
  BY <1>1, FindStreamFacts
<1>3. Lookup(hasRet, streams, hasArg)'
  BY <1>2 DEF HasStream
<1>4. QED
  BY <1>3 DEF HasStream, PInv

\* Every step preserves PInv.
LEMMA NextPInv == PInv /\ [Next]_vars => PInv'
<1> SUFFICES ASSUME PInv, [Next]_vars PROVE PInv'
  OBVIOUS
<1>1. CASE NewNtripInfo \/ Cancel \/ ConnectCall \/ ConnectStep
  BY <1>1, ParseFramePInv DEF NewNtripInfo, Cancel, ConnectCall, ConnectStep
<1>2. CASE ParseCall
  BY <1>2, ParseCallPInv
<1>3. CASE ScanStop
  BY <1>3, ScanStopPInv
<1>4. CASE ScanNext
  BY <1>4, ScanNextPInv
<1>5. CASE \E mp \in MountPoints : HasStream(mp)
  BY <1>5, HasStreamPInv
<1>6. CASE UNCHANGED vars
  BY <1>6, ParseFramePInv DEF vars, parseVars
<1>7. QED
  BY <1>1, <1>2, <1>3, <1>4, <1>5, <1>6 DEF Next

-----------------------------------------------------------------------------
(***************************************************************************)
(* From PInv to the reference reading of the sourcetable.                 *)
(***************************************************************************)
\* The lines read are the first read lines of the table.
LEMMA LinesReadFacts ==
    ASSUME table \in Seq(Line), read \in 0..Len(table)
    PROVE  /\ LinesRead \in Seq(Line) /\ Len(LinesRead) = read
           /\ \A k \in 1..read : LinesRead[k] = table[k]
<1>1. \A i \in 1..read : table[i] \in Line
  OBVIOUS
<1>2. QED
  BY <1>1, SubSeqProperties DEF LinesRead

\* Without ENDSOURCETABLE among the lines read, Body is all of them.
LEMMA BodyNoEnd ==
    ASSUME table \in Seq(Line), read \in 0..Len(table),
           \A k \in 1..read : table[k].kind # "ENDSOURCETABLE"
    PROVE  Len(Body) = read /\ \A k \in 1..read : Body[k] = table[k]
<1> DEFINE I == {i \in 1..Len(LinesRead) : LinesRead[i].kind = "ENDSOURCETABLE"}
<1>1. Len(LinesRead) = read /\ \A k \in 1..read : LinesRead[k] = table[k]
  BY LinesReadFacts
<1>2. I = {}
  BY <1>1
<1>3. SelectInSeq(LinesRead, LAMBDA l : l.kind = "ENDSOURCETABLE") = 0
  BY <1>2 DEF SelectInSeq
<1>4. Body = LinesRead
  BY <1>3 DEF Body
<1>5. QED
  BY <1>1, <1>4

\* When the last line read is the first ENDSOURCETABLE, Body stops before it.
LEMMA BodyEnd ==
    ASSUME table \in Seq(Line), read \in 1..Len(table),
           \A k \in 1..(read - 1) : table[k].kind # "ENDSOURCETABLE",
           table[read].kind = "ENDSOURCETABLE"
    PROVE  Len(Body) = read - 1 /\ \A k \in 1..(read - 1) : Body[k] = table[k]
<1> DEFINE I == {i \in 1..Len(LinesRead) : LinesRead[i].kind = "ENDSOURCETABLE"}
<1>1. LinesRead \in Seq(Line) /\ Len(LinesRead) = read
      /\ \A k \in 1..read : LinesRead[k] = table[k]
  BY LinesReadFacts
<1>2. I = {read}
  BY <1>1
<1>3. Min(I) = read
  <2>1. I \in SUBSET Nat /\ I # {}
    BY <1>2
  <2>2. QED
    BY <1>2, <2>1, MinIsLeast
<1>4. SelectInSeq(LinesRead, LAMBDA l : l.kind = "ENDSOURCETABLE") = read
  BY <1>2, <1>3 DEF SelectInSeq
<1>5. Body = SubSeq(LinesRead, 1, read - 1)
  BY <1>4 DEF Body
<1>6. \A i \in 1..(read - 1) : LinesRead[i] \in Line
  BY <1>1
<1>7. /\ Len(SubSeq(LinesRead, 1, read - 1)) = read - 1
      /\ \A i \in 1..(read - 1) : SubSeq(LinesRead, 1, read - 1)[i] = LinesRead[i]
  BY <1>6, SubSeqProperties
<1>8. QED
  BY <1>1, <1>5, <1>7

\* Body is the first m lines of the table, for the m PInv names.
LEMMA BodyIsPrefix ==
    ASSUME PInv, NEW m \in 0..read,
           Clean(table, m), Enum(streams, table, m),
           \A k \in 1..m : Body[k] = table[k], Len(Body) = m
    PROVE  /\ \A j \in 1..Len(Body) : Legal(Body[j])
           /\ \E pos \in [1..Len(streams) -> StrIdx] :
                /\ StrOrder(pos)
                /\ \A j \in 1..Len(streams) : streams[j] = parseStream(Body[pos[j]])
<1>1. \A j \in 1..Len(Body) : Legal(Body[j])
  BY DEF Clean
<1>2. PICK pos \in [1..Len(streams) -> 1..m] :
        /\ \A a, b \in 1..Len(streams) : a < b => pos[a] < pos[b]
        /\ Range(pos) = StrAmong(table, m)
        /\ \A j \in 1..Len(streams) : streams[j] = parseStream(table[pos[j]])
  BY DEF Enum
<1>3. StrIdx = StrAmong(table, m)
  BY DEF StrIdx, StrAmong
<1>4. pos \in [1..Len(streams) -> StrIdx]
  BY <1>2, <1>3 DEF Range
<1>5. \A j \in 1..Len(streams) : streams[j] = parseStream(Body[pos[j]])
  BY <1>2
<1>6. QED
  BY <1>1, <1>2, <1>3, <1>4, <1>5 DEF StrOrder

(***************************************************************************)
(* After a successful parse every line of Body is legal and the streams    *)
(* are its STR lines in order, whichever way the scan ended.               *)
(***************************************************************************)
LEMMA OkBody ==
    ASSUME PInv, parseRet = "ok"
    PROVE  /\ \A j \in 1..Len(Body) : Legal(Body[j])
           /\ \E pos \in [1..Len(streams) -> StrIdx] :
                /\ StrOrder(pos)
                /\ \A j \in 1..Len(streams) : streams[j] = parseStream(Body[pos[j]])
<1>1. table \in Seq(Line) /\ read \in 0..Len(table)
  BY DEF PInv
<1>2. CASE Clean(table, read) /\ Enum(streams, table, read)
  <2>1. Len(Body) = read /\ \A k \in 1..read : Body[k] = table[k]
    BY <1>1, <1>2, BodyNoEnd DEF Clean
  <2>2. QED
    BY <1>2, <2>1, BodyIsPrefix
<1>3. CASE /\ read >= 1 /\ Clean(table, read - 1) /\ Enum(streams, table, read - 1)
           /\ table[read].kind = "ENDSOURCETABLE"
  <2>1. Len(Body) = read - 1 /\ \A k \in 1..(read - 1) : Body[k] = table[k]
    BY <1>1, <1>3, BodyEnd DEF Clean
  <2>2. read - 1 \in 0..read
    BY <1>1, <1>3
  <2>3. QED
    BY <1>3, <2>1, <2>2, BodyIsPrefix
<1>4. QED
  BY <1>2, <1>3 DEF PInv

\* A scan that ended with an error read an illegal line before the end.
LEMMA ErrBody ==
    ASSUME PInv, parseRet = "err", table # <<>>
    PROVE  \E j \in 1..Len(Body) : ~Legal(Body[j])
<1>1. /\ table \in Seq(Line) /\ read \in 1..Len(table) /\ Clean(table, read - 1)
      /\ ~Legal(table[read]) /\ table[read].kind # "ENDSOURCETABLE"
  BY DEF PInv
<1>2. \A k \in 1..read : table[k].kind # "ENDSOURCETABLE"
  BY <1>1 DEF Clean
<1>3. Len(Body) = read /\ Body[read] = table[read]
  BY <1>1, <1>2, BodyNoEnd
<1>4. QED
  BY <1>1, <1>3

\* PInv gives SourcetableFaithful.
LEMMA PInvFaithful == PInv => SourcetableFaithful
<1> SUFFICES ASSUME PInv, parse = "done", table # <<>> PROVE SourcetableFaithful
  BY DEF SourcetableFaithful
<1>1. parseRet \in {"ok", "err"}
  BY DEF PInv
<1>2. CASE parseRet = "ok"
  BY <1>2, OkBody DEF SourcetableFaithful
<1>3. CASE parseRet = "err"
  BY <1>3, ErrBody DEF SourcetableFaithful
<1>4. QED
  BY <1>1, <1>2, <1>3

\* PInv gives MountpointLookup: FindStream's first match is the first STR line.
LEMMA PInvLookup == PInv => MountpointLookup
<1> DEFINE ks == {k \in StrIdx : Body[k].mp = hasArg}
           F == Found(streams, hasArg)
<1> SUFFICES ASSUME PInv, parseRet = "ok", hasArg # "none"
             PROVE  /\ hasRet.found <=> ks # {}
                    /\ hasRet.found =>
                         \E k \in ks : /\ \A i \in ks : k <= i
                                       /\ hasRet.stream = parseStream(Body[k])
  BY DEF MountpointLookup
<1>1. PICK pos \in [1..Len(streams) -> StrIdx] :
        /\ StrOrder(pos)
        /\ \A j \in 1..Len(streams) : streams[j] = parseStream(Body[pos[j]])
  BY OkBody
<1>2. Lookup(hasRet, streams, hasArg)
  BY DEF PInv
<1>0. StrIdx \subseteq Nat
  BY DEF StrIdx
<1>3. \A j \in 1..Len(streams) : (j \in F <=> pos[j] \in ks)
  <2> TAKE j \in 1..Len(streams)
  <2>1. pos[j] \in StrIdx
    BY <1>1
  <2>2. streams[j].mp = Body[pos[j]].mp
    <3>1. streams[j] = parseStream(Body[pos[j]])
      BY <1>1
    <3>2. parseStream(Body[pos[j]]).mp = Body[pos[j]].mp
      BY DEF parseStream
    <3>3. QED
      BY <3>1, <3>2
  <2>3. QED
    BY <2>1, <2>2 DEF Found
<1>4. \A k \in ks : \E j \in F : pos[j] = k
  <2>1. \A k \in StrIdx : \E j \in 1..Len(streams) : pos[j] = k
    BY <1>1 DEF StrOrder, Range
  <2>2. QED
    BY <2>1, <1>3
<1>5. hasRet.found <=> ks # {}
  BY <1>2, <1>3, <1>4 DEF Lookup, Found
<1>6. ASSUME hasRet.found
      PROVE  \E k \in ks : /\ \A i \in ks : k <= i
                           /\ hasRet.stream = parseStream(Body[k])
  <2>1. PICK j0 \in F : /\ \A i \in F : j0 <= i
                       /\ hasRet.stream = streams[j0]
    BY <1>2, <1>6 DEF Lookup
  <2>2. j0 \in 1..Len(streams) /\ pos[j0] \in ks
    BY <1>3, <2>1 DEF Found
  <2>3. ASSUME NEW i \in ks PROVE pos[j0] <= i
    <3>1. PICK j \in F : pos[j] = i
      BY <1>4
    <3>2. j \in 1..Len(streams) /\ j0 <= j
      BY <2>1, <3>1 DEF Found
    <3>3. CASE j0 = j
      BY <1>0, <3>1, <3>3
    <3>4. CASE j0 < j
      <4>1. pos[j0] < pos[j]
        BY <1>1, <2>2, <3>2, <3>4 DEF StrOrder
      <4>2. pos[j0] \in Nat /\ pos[j] \in Nat
        BY <1>0, <1>1, <2>2, <3>2
      <4>3. QED
        BY <3>1, <4>1, <4>2
    <3>5. QED
      BY <3>2, <3>3, <3>4
  <2>4. hasRet.stream = parseStream(Body[pos[j0]])
    BY <1>1, <2>1, <2>2
  <2>5. QED
    BY <2>2, <2>3, <2>4
<1>7. QED
  BY <1>5, <1>6

(***************************************************************************)
(* For every set of sourcetables and mountpoints: a parse that ended       *)
(* succeeds exactly when every line before ENDSOURCETABLE is a comment,    *)
(* CAS, NET or a parsable STR line, and then its streams are those STR     *)
(* lines, parsed, in the caster's order.  The scan loop of                 *)
(* ParseSourcetable computes the reference reading of the table.           *)
(***************************************************************************)
THEOREM SourcetableSafety == Spec => []SourcetableFaithful
<1>1. PInv => SourcetableFaithful
  BY PInvFaithful
<1>2. QED
  BY <1>1, InitPInv, NextPInv, PTL DEF Spec

(***************************************************************************)
(* For every set of sourcetables and mountpoints: after a successful       *)
(* parse, HasStream finds a mountpoint exactly when an STR line for it     *)
(* came before ENDSOURCETABLE, and returns the stream of the first one.    *)
(***************************************************************************)
THEOREM MountpointLookupSafety == Spec => []MountpointLookup
<1>1. PInv => MountpointLookup
  BY PInvLookup
<1>2. QED
  BY <1>1, InitPInv, NextPInv, PTL DEF Spec
=============================================================================
